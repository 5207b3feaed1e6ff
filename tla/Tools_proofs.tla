---------------------------- MODULE Tools_proofs ----------------------------
(***************************************************************************)
(* Proofs about the allocation tracker, the crash handler of the app, the  *)
(* forced dlopen, the wrappers of the system calls and the digest code,    *)
(* for any threads, bounds, sizes, signals and messages.                   *)
(***************************************************************************)
EXTENDS AllocTracker, NativeCrash, ForcedDlopen, SysWrappers, Md5, SequenceTheorems,
        FiniteSetTheorems, TLAPS

-----------------------------------------------------------------------------
(* native_crash_cache.cpp *)

CrashPCs == {"none", "run", "init_sigaction", "fault", "handler", "reset", "alarm"}

CrashTypeOK ==
    /\ segv \in {"default", "my_handler", "other"}
    /\ alrm \in {"default", "other"}
    /\ where \in [CrashThreads -> [pc : CrashPCs,
                                   fault : {"none", "null", "overflow", "sent"}]]
    /\ inits \in Nat
    /\ entered \in [CrashThreads -> Nat]
    /\ alarm \in BOOLEAN /\ died \in BOOLEAN

(* A thread can be in the handler, or on its way to a fault, as often as the    *)
(* handler was installed; who has returned from it has set the alarm, and no    *)
(* thread puts another action on SIGALRM once one is about to.                  *)
CrashThreadInv(t) ==
    /\ entered[t] <= inits
    /\ segv = "my_handler" /\ where[t].pc # "handler" => entered[t] < inits
    /\ where[t].pc = "none" => entered[t] = 0
    /\ where[t].pc = "alarm" => alrm = "default"
    /\ entered[t] > 0 /\ where[t].pc \in {"run", "fault", "init_sigaction"} =>
          alarm /\ alrm = "default"

CrashInv == CrashTypeOK /\ (~died => \A t \in CrashThreads : CrashThreadInv(t))

\* No handler is installed at first.
LEMMA CrashInitInv == CrashInit => CrashInv
<1> SUFFICES ASSUME CrashInit PROVE CrashInv
  OBVIOUS
<1>1. CrashTypeOK
  BY DEF CrashInit, CrashTypeOK, CrashPCs, Running
<1>2. ASSUME NEW t \in CrashThreads PROVE CrashThreadInv(t)
  <2>1. where[t].pc \in {"none", "run"}
    BY DEF CrashInit, Running
  <2> QED
    BY <2>1 DEF CrashInit, CrashThreadInv
<1> QED
  BY <1>1, <1>2 DEF CrashInv

\* The invariant of the crash handler is inductive.
LEMMA CrashStepInv ==
    ASSUME CrashInv, CrashNext PROVE CrashInv'
<1> USE CrashBounds DEF CrashInv, CrashTypeOK, CrashPCs, Live, Moves
<1>1. ASSUME NEW t \in CrashThreads, NEW env, NEW found, NEW registered,
             JNI_OnLoad(t, env, found, registered)
      PROVE  CrashInv'
  BY <1>1 DEF JNI_OnLoad, CrashThreadInv
<1>2. ASSUME NEW t \in CrashThreads, NEW ok \in BOOLEAN, init_stack(t, ok)
      PROVE  CrashInv'
  BY <1>2 DEF init_stack, CrashThreadInv
<1>3. ASSUME NEW t \in CrashThreads, NEW ok \in BOOLEAN, nativeInit(t, ok)
      PROVE  CrashInv'
  BY <1>3 DEF nativeInit, CrashThreadInv
<1>4. ASSUME NEW t \in CrashThreads, init_sigaction(t)
      PROVE  CrashInv'
  BY <1>4 DEF init_sigaction, CrashThreadInv
<1>5. ASSUME NEW t \in CrashThreads, NEW fault \in {"null", "overflow", "sent"},
             Meets(t, fault)
      PROVE  CrashInv'
  BY <1>5 DEF Meets, CrashThreadInv
<1>6. ASSUME NEW t \in CrashThreads, Delivered(t)
      PROVE  CrashInv'
  <2>1. CASE segv = "my_handler" /\ (where[t].fault # "overflow" \/ t \in stacks)
    <3>0. /\ where' = [where EXCEPT ![t].pc = "handler"]
          /\ entered' = [entered EXCEPT ![t] = @ + 1]
      BY <1>6, <2>1 DEF Delivered
    <3>1. /\ ~died' /\ died' \in BOOLEAN /\ ~died /\ where[t].pc = "fault"
          /\ UNCHANGED <<segv, alrm, alarm, inits>>
      BY <1>6, <2>1 DEF Delivered
    <3>2. CrashTypeOK'
      BY <3>0, <3>1
    <3>3. entered[t] < inits /\ where'[t].pc = "handler" /\ entered'[t] = entered[t] + 1
      BY <2>1, <3>0, <3>1 DEF CrashThreadInv
    <3>4. CrashThreadInv(t)'
      BY <3>1, <3>2, <3>3 DEF CrashThreadInv
    <3>5. \A u \in CrashThreads : u # t => where'[u] = where[u] /\ entered'[u] = entered[u]
      BY <3>0
    <3> QED
      BY <3>1, <3>2, <3>4, <3>5 DEF CrashThreadInv
  <2>2. CASE ~(segv = "my_handler" /\ (where[t].fault # "overflow" \/ t \in stacks))
    BY <1>6, <2>2 DEF Delivered
  <2> QED
    BY <2>1, <2>2
<1>7. ASSUME NEW t \in CrashThreads, ResetFirst(t)
      PROVE  CrashInv'
  BY <1>7 DEF ResetFirst, CrashThreadInv
<1>8. ASSUME NEW t \in CrashThreads, ResetAlarm(t)
      PROVE  CrashInv'
  BY <1>8 DEF ResetAlarm, CrashThreadInv
<1>10. ASSUME NEW t \in CrashThreads, SetAlarm(t)
      PROVE  CrashInv'
  BY <1>10 DEF SetAlarm, CrashThreadInv
<1>9. CASE Rings
  BY <1>9 DEF Rings, CrashThreadInv
<1> QED
  BY <1>1, <1>2, <1>3, <1>4, <1>5, <1>6, <1>7, <1>8, <1>9, <1>10 DEF CrashNext

(* The crash handler ends a crash: it runs for a thread at most as often as it  *)
(* was installed, and whoever has come back from it finds an alarm set that     *)
(* kills the process.                                                           *)
THEOREM CrashHandlerEnds == CrashSpec => []CrashEnds
<1>1. CrashInv /\ [CrashNext]_crashVars => CrashInv'
  <2>1. CASE CrashInv /\ CrashNext
    BY <2>1, CrashStepInv
  <2>2. CASE CrashInv /\ UNCHANGED crashVars
    BY <2>2 DEF crashVars, CrashInv, CrashTypeOK, CrashThreadInv
  <2> QED
    BY <2>1, <2>2
<1>2. CrashInv => CrashEnds
  BY DEF CrashInv, CrashThreadInv, CrashEnds
<1> QED
  BY <1>1, <1>2, CrashInitInv, PTL DEF CrashSpec

-----------------------------------------------------------------------------
(* allocTracker.cpp *)

FramePCs == {"count", "test", "lock", "snap", "save", "clear", "unlock", "destroy", "old"}

FrameSet == [pc : FramePCs, id : Nat, snap : SUBSET Nat]

AllocTypeOK ==
    /\ frames \in [Threads -> Seq(FrameSet)]
    /\ files \in [0 .. LastSecond -> SUBSET Nat]
    /\ records \in SUBSET Nat /\ excused \in SUBSET Nat
    /\ next \in Nat /\ clock \in 0 .. LastSecond

(* What is in a file or was given up knowingly: it never becomes less.          *)
Safe == excused \cup UNION {files[s] : s \in 0 .. LastSecond}

(* A call of the hook has a snapshot of the list only from getARTAllocationData *)
(* on, and from saveARTAllocationData on the snapshot is safe.                  *)
FrameOK(f, safe) ==
    /\ f.pc \in {"count", "test", "lock", "snap"} => f.snap = {}
    /\ f.pc \in {"clear", "unlock", "destroy", "old"} => f.snap \subseteq safe

FramesInv ==
    \A t \in Threads : \A i \in 1 .. Len(frames[t]) : FrameOK(frames[t][i], Safe)

(* A call of the hook still has allocation id, or a snapshot that holds it.     *)
Carries(f, id) == f.id = id \/ id \in f.snap

Carried(id) ==
    \E t \in Threads : \E i \in 1 .. Len(frames[t]) : Carries(frames[t][i], id)

KeptInv == \A id \in 1 .. next : id \in records \cup Safe \/ Carried(id)

(* A buffer with a length has not been freed.                                   *)
ReportInv ==
    /\ report \in [made : Nat, freed : SUBSET Nat, data : Nat, len : {0, 1},
                   handed : SUBSET Nat, fn : BOOLEAN, lib : {"null", "open", "closed"}]
    /\ report.data <= report.made
    /\ \A b \in report.freed : b <= report.made
    /\ report.len > 0 => report.data \notin report.freed
    /\ 0 \notin report.handed

AllocInv == AllocTypeOK /\ FramesInv /\ KeptInv /\ ReportInv

-----------------------------------------------------------------------------
(* The stack of calls *)

\* The innermost frame of a thread.
LEMMA TopFacts ==
    ASSUME AllocTypeOK, NEW t \in Threads, frames[t] # <<>>
    PROVE  /\ Len(frames[t]) \in 1 .. Len(frames[t])
           /\ Top(t) \in FrameSet
BY DEF AllocTypeOK, Top

\* Popping a frame leaves the ones below it.
LEMMA PopFacts ==
    ASSUME AllocTypeOK, NEW t \in Threads, frames[t] # <<>>, Pop(t)
    PROVE  /\ frames' \in [Threads -> Seq(FrameSet)]
           /\ \A u \in Threads \ {t} : frames'[u] = frames[u]
           /\ Len(frames'[t]) = Len(frames[t]) - 1
           /\ \A i \in 1 .. Len(frames[t]) - 1 : frames'[t][i] = frames[t][i]
<1>1. frames[t] \in Seq(FrameSet) /\ Len(frames[t]) \in Nat \ {0}
  BY DEF AllocTypeOK
<1>2. frames' = [frames EXCEPT ![t] = SubSeq(frames[t], 1, Len(frames[t]) - 1)]
  BY DEF Pop
<1>3. \A i \in 1 .. Len(frames[t]) - 1 : frames[t][i] \in FrameSet
  BY <1>1
<1>4. /\ SubSeq(frames[t], 1, Len(frames[t]) - 1) \in Seq(FrameSet)
      /\ Len(SubSeq(frames[t], 1, Len(frames[t]) - 1)) = Len(frames[t]) - 1
      /\ \A i \in 1 .. Len(frames[t]) - 1 :
            SubSeq(frames[t], 1, Len(frames[t]) - 1)[i] = frames[t][i]
  BY <1>1, <1>3, SubSeqProperties
<1> QED
  BY <1>1, <1>2, <1>4 DEF AllocTypeOK

(* Calls that move on without touching what is kept.                            *)
LEMMA GoToKeeps ==
    ASSUME AllocTypeOK, NEW t \in Threads, frames[t] # <<>>, NEW pc \in FramePCs,
           GoTo(t, pc), FramesInv, Safe \subseteq Safe',
           pc \in {"count", "test", "lock", "snap"} => Top(t).snap = {},
           pc \in {"clear", "unlock", "destroy", "old"} => Top(t).snap \subseteq Safe'
    PROVE  /\ frames' \in [Threads -> Seq(FrameSet)]
           /\ FramesInv'
           /\ \A id : Carried(id) => Carried(id)'
<1> DEFINE f == [Top(t) EXCEPT !.pc = pc]
<1>1. /\ Top(t) \in FrameSet /\ f \in FrameSet
      /\ f.id = Top(t).id /\ f.snap = Top(t).snap /\ f.pc = pc
  BY TopFacts DEF FrameSet
<1>s. frames' = SetTop(t, f)
  BY DEF GoTo
<1> HIDE DEF f
<1>2. /\ frames' \in [Threads -> Seq(FrameSet)]
      /\ \A u \in Threads : Len(frames'[u]) = Len(frames[u])
      /\ \A u \in Threads : \A i \in 1 .. Len(frames[u]) :
            frames'[u][i] = IF u = t /\ i = Len(frames[t]) THEN f ELSE frames[u][i]
  <2>1. f \in FrameSet
    BY <1>1
  <2> QED
    BY <1>s, <2>1 DEF SetTop, AllocTypeOK
<1>3. FramesInv'
  <2> SUFFICES ASSUME NEW u \in Threads, NEW i \in 1 .. Len(frames[u])
               PROVE  FrameOK(frames'[u][i], Safe')
    BY <1>2 DEF FramesInv
  <2>1. FrameOK(frames[u][i], Safe')
    BY DEF FramesInv, FrameOK
  <2>2. FrameOK(f, Safe')
    BY <1>1 DEF FrameOK
  <2> QED
    BY <1>2, <2>1, <2>2
<1>4. ASSUME NEW id, Carried(id) PROVE Carried(id)'
  <2>1. PICK u \in Threads : \E i \in 1 .. Len(frames[u]) : Carries(frames[u][i], id)
    BY <1>4 DEF Carried
  <2>2. PICK i \in 1 .. Len(frames[u]) : Carries(frames[u][i], id)
    BY <2>1
  <2>3. Carries(frames'[u][i], id)
    BY <1>1, <1>2, <2>2 DEF Carries, Top
  <2> QED
    BY <1>2, <2>3 DEF Carried
<1> QED
  BY <1>2, <1>3, <1>4

(* A call that returns leaves nothing behind when its allocation is recorded or *)
(* given up and its snapshot is safe.                                           *)
LEMMA PopKeeps ==
    ASSUME AllocTypeOK, NEW t \in Threads, frames[t] # <<>>, Pop(t), FramesInv,
           Safe \subseteq Safe', Top(t).snap \subseteq Safe
    PROVE  /\ frames' \in [Threads -> Seq(FrameSet)]
           /\ FramesInv'
           /\ \A id : Carried(id) => Carried(id)' \/ id = Top(t).id \/ id \in Safe
<1>1. /\ frames' \in [Threads -> Seq(FrameSet)]
      /\ \A u \in Threads \ {t} : frames'[u] = frames[u]
      /\ Len(frames'[t]) = Len(frames[t]) - 1
      /\ \A i \in 1 .. Len(frames[t]) - 1 : frames'[t][i] = frames[t][i]
  BY PopFacts
<1>0. Len(frames[t]) \in Nat /\ \A u \in Threads : Len(frames[u]) \in Nat
  BY DEF AllocTypeOK
<1>2. FramesInv'
  <2> SUFFICES ASSUME NEW u \in Threads, NEW i \in 1 .. Len(frames'[u])
               PROVE  FrameOK(frames'[u][i], Safe')
    BY DEF FramesInv
  <2>1. i \in 1 .. Len(frames[u]) /\ frames'[u][i] = frames[u][i]
    BY <1>0, <1>1
  <2> QED
    BY <2>1 DEF FramesInv, FrameOK
<1>3. ASSUME NEW id, Carried(id), id # Top(t).id, id \notin Safe PROVE Carried(id)'
  <2>1. PICK u \in Threads : \E i \in 1 .. Len(frames[u]) : Carries(frames[u][i], id)
    BY <1>3 DEF Carried
  <2>2. PICK i \in 1 .. Len(frames[u]) : Carries(frames[u][i], id)
    BY <2>1
  <2>3. ~(u = t /\ i = Len(frames[t]))
    BY <1>3, <2>2 DEF Carries, Top
  <2>4. i \in 1 .. Len(frames'[u]) /\ frames'[u][i] = frames[u][i]
    BY <1>0, <1>1, <2>3
  <2> QED
    BY <2>2, <2>4 DEF Carried
<1> QED
  BY <1>1, <1>2, <1>3

-----------------------------------------------------------------------------
(* The hook *)

(* Nothing is lost when each allocation a call or the list gives up is safe.    *)
LEMMA KeptStep ==
    ASSUME KeptInv, next' = next, Safe \subseteq Safe',
           records \subseteq records' \cup Safe',
           \A id : Carried(id) => Carried(id)' \/ id \in records' \cup Safe'
    PROVE  KeptInv'
BY DEF KeptInv

\* An allocation calls the hook.
LEMMA AllocateKeeps ==
    ASSUME AllocInv, NEW t \in Threads, Allocate(t)
    PROVE  AllocTypeOK' /\ FramesInv' /\ KeptInv'
<1> DEFINE f == Frame(next + 1)
<1>1. f \in FrameSet /\ f.id = next + 1 /\ f.snap = {} /\ f.pc = "count"
  BY DEF AllocInv, AllocTypeOK, Frame, FrameSet, FramePCs
<1>2. /\ frames' = [frames EXCEPT ![t] = <<f>>] /\ frames[t] = <<>> /\ next' = next + 1
      /\ UNCHANGED <<files, records, excused, clock>>
  BY DEF Allocate
<1> HIDE DEF f
<1>3. AllocTypeOK'
  BY <1>1, <1>2 DEF AllocInv, AllocTypeOK
<1>4. frames'[t] = <<f>> /\ \A u \in Threads \ {t} : frames'[u] = frames[u]
  BY <1>2 DEF AllocInv, AllocTypeOK
<1>5. Safe' = Safe
  BY <1>2 DEF Safe
<1>6. FramesInv'
  BY <1>1, <1>4, <1>5 DEF AllocInv, FramesInv, FrameOK
<1>7. \A id : Carried(id) => Carried(id)'
  BY <1>2, <1>4 DEF Carried
<1>8. ASSUME NEW id, id = next + 1 PROVE Carried(id)'
  <2>1. Carries(f, id)
    BY <1>1, <1>8, Zenon DEF Carries
  <2>2. Len(frames'[t]) = 1 /\ frames'[t][1] = f
    BY <1>4
  <2>3. 1 \in 1 .. Len(frames'[t]) /\ Carries(frames'[t][1], id)
    BY <2>1, <2>2
  <2> QED
    BY <2>3, Zenon DEF Carried, Carries
<1>9. KeptInv'
  <2> SUFFICES ASSUME NEW id \in 1 .. next'
               PROVE  id \in records' \cup Safe' \/ Carried(id)'
    BY DEF KeptInv
  <2>1. id \in 1 .. next \/ id = next + 1
    BY <1>2 DEF AllocInv, AllocTypeOK
  <2> QED
    BY <1>2, <1>5, <1>7, <1>8, <2>1 DEF AllocInv, KeptInv
<1> QED
  BY <1>3, <1>6, <1>9

(* The steps that only move on.                                                 *)
LEMMA MoveKeeps ==
    ASSUME AllocInv, NEW t \in Threads, frames[t] # <<>>, NEW pc \in FramePCs, GoTo(t, pc),
           UNCHANGED <<records, excused, files, next, clock>>,
           \/ Top(t).pc \in {"count", "test", "lock"} /\ pc \in {"test", "lock", "snap", "old"}
           \/ Top(t).pc \in {"unlock", "destroy"} /\ pc \in {"destroy", "old"}
    PROVE  AllocTypeOK' /\ FramesInv' /\ KeptInv'
<1>1. Safe' = Safe
  BY DEF Safe
<1>2. /\ pc \in {"count", "test", "lock", "snap"} => Top(t).snap = {}
      /\ pc \in {"clear", "unlock", "destroy", "old"} => Top(t).snap \subseteq Safe'
  <2>1. FrameOK(Top(t), Safe)
    BY TopFacts DEF AllocInv, FramesInv, Top
  <2> QED
    BY <1>1, <2>1 DEF FrameOK
<1>3. /\ frames' \in [Threads -> Seq(FrameSet)] /\ FramesInv'
      /\ \A id : Carried(id) => Carried(id)'
  BY <1>1, <1>2, GoToKeeps DEF AllocInv
<1> QED
  BY <1>1, <1>3, KeptStep DEF AllocInv, AllocTypeOK

(* The steps that return from the hook.                                         *)
LEMMA ReturnKeeps ==
    ASSUME AllocInv, NEW t \in Threads, frames[t] # <<>>, Pop(t),
           Top(t).pc \in {"count", "test", "old"},
           UNCHANGED <<files, next, clock>>,
           \/ excused' = excused \cup {Top(t).id} /\ records' = records
           \/ excused' = excused /\ records' = records \cup {Top(t).id}
    PROVE  AllocTypeOK' /\ FramesInv' /\ KeptInv'
<1>1. Safe \subseteq Safe' /\ Top(t).id \in records' \cup Safe' /\ records \subseteq records'
  BY DEF Safe
<1>2. FrameOK(Top(t), Safe) /\ Top(t) \in FrameSet
  BY TopFacts DEF AllocInv, FramesInv, Top
<1>3. Top(t).snap \subseteq Safe
  BY <1>2 DEF FrameOK
<1>4. /\ frames' \in [Threads -> Seq(FrameSet)] /\ FramesInv'
      /\ \A id : Carried(id) => Carried(id)' \/ id = Top(t).id \/ id \in Safe
  BY <1>1, <1>3, PopKeeps DEF AllocInv
<1>5. KeptInv'
  BY <1>1, <1>4, KeptStep DEF AllocInv
<1>6. records' \in SUBSET Nat /\ excused' \in SUBSET Nat
  BY <1>2 DEF AllocInv, AllocTypeOK, FrameSet
<1> QED
  BY <1>4, <1>5, <1>6 DEF AllocInv, AllocTypeOK

(* getARTAllocationData: the snapshot, and perhaps another call of the hook.    *)
LEMMA SnapshotKeeps ==
    ASSUME AllocInv, NEW t \in Threads, getARTAllocationData(t)
    PROVE  AllocTypeOK' /\ FramesInv' /\ KeptInv'
<1> DEFINE f == [Top(t) EXCEPT !.pc = "save", !.snap = records]
           g == Frame(next + 1)
           stack == SetTop(t, f)
<1>1. /\ UNCHANGED <<files, records, excused, clock>>
      /\ frames[t] # <<>> /\ Top(t).pc = "snap"
  BY DEF getARTAllocationData, At
<1>2. Safe' = Safe
  BY <1>1 DEF Safe
<1>3. Top(t) \in FrameSet /\ Top(t).snap = {}
  <2>1. FrameOK(Top(t), Safe) /\ Top(t) \in FrameSet
    BY <1>1, TopFacts DEF AllocInv, FramesInv, Top
  <2> QED
    BY <1>1, <2>1 DEF FrameOK
<1>4. /\ f \in FrameSet /\ f.id = Top(t).id /\ f.pc = "save"
      /\ g \in FrameSet /\ g.id = next + 1 /\ g.snap = {} /\ g.pc = "count"
  <2>1. records \in SUBSET Nat /\ next + 1 \in Nat /\ "save" \in FramePCs /\ "count" \in FramePCs
    BY DEF AllocInv, AllocTypeOK, FramePCs
  <2>2. f \in FrameSet /\ f.id = Top(t).id /\ f.pc = "save"
    BY <1>3, <2>1 DEF FrameSet
  <2>3. g \in FrameSet /\ g.id = next + 1 /\ g.snap = {} /\ g.pc = "count"
    BY <2>1 DEF FrameSet, Frame
  <2> QED
    BY <2>2, <2>3
<1>5. \/ UNCHANGED <<frames, next>>
      \/ frames' = stack /\ next' = next
      \/ frames' = [stack EXCEPT ![t] = Append(@, g)] /\ next' = next + 1
  BY DEF getARTAllocationData
<1>6. stack = [frames EXCEPT ![t][Len(frames[t])] = f]
  BY DEF SetTop
<1> HIDE DEF f, g, stack
<1>7. /\ stack \in [Threads -> Seq(FrameSet)]
      /\ \A u \in Threads : Len(stack[u]) = Len(frames[u])
      /\ \A u \in Threads : \A i \in 1 .. Len(frames[u]) :
            stack[u][i] = IF u = t /\ i = Len(frames[t]) THEN f ELSE frames[u][i]
  BY <1>1, <1>4, <1>6 DEF AllocInv, AllocTypeOK
<1>8. CASE UNCHANGED <<frames, next>>
  <2>1. AllocTypeOK' /\ FramesInv'
    BY <1>1, <1>2, <1>8 DEF AllocInv, AllocTypeOK, FramesInv
  <2>2. \A id : Carried(id) => Carried(id)'
    BY <1>8 DEF Carried
  <2> QED
    BY <1>1, <1>2, <1>8, <2>1, <2>2, KeptStep DEF AllocInv
<1>9. FrameOK(f, Safe) /\ FrameOK(g, Safe)
  BY <1>4 DEF FrameOK
<1>10. ASSUME NEW id, Carried(id)
       PROVE  \E u \in Threads : \E i \in 1 .. Len(stack[u]) : Carries(stack[u][i], id)
  <2>1. PICK u \in Threads : \E i \in 1 .. Len(frames[u]) : Carries(frames[u][i], id)
    BY <1>10 DEF Carried
  <2>2. PICK i \in 1 .. Len(frames[u]) : Carries(frames[u][i], id)
    BY <2>1
  <2>3. CASE u = t /\ i = Len(frames[t])
    <3>1. frames[u][i] = Top(t) /\ stack[u][i] = f
      BY <1>7, <2>3 DEF Top
    <3>2. id = Top(t).id
      BY <1>3, <2>2, <3>1 DEF Carries
    <3> QED
      BY <1>4, <1>7, <2>2, <3>1, <3>2 DEF Carries
  <2>4. CASE ~(u = t /\ i = Len(frames[t]))
    BY <1>7, <2>2, <2>4
  <2> QED
    BY <2>3, <2>4
<1>11. CASE frames' = stack /\ next' = next
  <2>1. AllocTypeOK'
    BY <1>1, <1>7, <1>11 DEF AllocInv, AllocTypeOK
  <2>2. FramesInv'
    BY <1>2, <1>7, <1>9, <1>11 DEF FramesInv, AllocInv
  <2>3. \A id : Carried(id) => Carried(id)'
    BY <1>10, <1>11 DEF Carried
  <2> QED
    BY <1>1, <1>2, <1>11, <2>1, <2>2, <2>3, KeptStep DEF AllocInv
<1>12. CASE frames' = [stack EXCEPT ![t] = Append(@, g)] /\ next' = next + 1
  <2>1. /\ frames' \in [Threads -> Seq(FrameSet)]
        /\ \A u \in Threads \ {t} : frames'[u] = stack[u]
        /\ Len(frames'[t]) = Len(stack[t]) + 1 /\ Len(stack[t]) \in Nat
        /\ frames'[t][Len(stack[t]) + 1] = g
        /\ \A i \in 1 .. Len(stack[t]) : frames'[t][i] = stack[t][i]
    BY <1>4, <1>7, <1>12
  <2>2. AllocTypeOK'
    BY <1>1, <1>12, <2>1 DEF AllocInv, AllocTypeOK
  <2>3. FramesInv'
    <3> SUFFICES ASSUME NEW u \in Threads, NEW i \in 1 .. Len(frames'[u])
                 PROVE  FrameOK(frames'[u][i], Safe)
      BY <1>2 DEF FramesInv
    <3>1. CASE u = t /\ i = Len(stack[t]) + 1
      BY <1>9, <2>1, <3>1
    <3>2. CASE ~(u = t /\ i = Len(stack[t]) + 1)
      <4>1. i \in 1 .. Len(frames[u]) /\ frames'[u][i] = stack[u][i]
        BY <1>7, <2>1, <3>2
      <4> QED
        BY <1>7, <1>9, <4>1 DEF AllocInv, FramesInv
    <3> QED
      BY <3>1, <3>2
  <2>4. ASSUME NEW id, Carried(id) PROVE Carried(id)'
    <3>1. PICK u \in Threads : \E i \in 1 .. Len(stack[u]) : Carries(stack[u][i], id)
      BY <1>10, <2>4
    <3>2. PICK i \in 1 .. Len(stack[u]) : Carries(stack[u][i], id)
      BY <3>1
    <3>3. i \in 1 .. Len(frames'[u]) /\ frames'[u][i] = stack[u][i]
      BY <2>1, <3>2
    <3> QED
      BY <3>2, <3>3 DEF Carried
  <2>5. ASSUME NEW id, id = next + 1 PROVE Carried(id)'
    <3>1. Len(stack[t]) + 1 \in 1 .. Len(frames'[t]) /\ Carries(g, id)
      BY <1>4, <2>1, <2>5 DEF Carries
    <3> QED
      BY <2>1, <3>1 DEF Carried
  <2>6. KeptInv'
    <3> SUFFICES ASSUME NEW id \in 1 .. next'
                 PROVE  id \in records' \cup Safe' \/ Carried(id)'
      BY DEF KeptInv
    <3>1. id \in 1 .. next \/ id = next + 1
      BY <1>12 DEF AllocInv, AllocTypeOK
    <3> QED
      BY <1>1, <1>2, <2>4, <2>5, <3>1 DEF AllocInv, KeptInv
  <2> QED
    BY <2>2, <2>3, <2>6
<1> QED
  BY <1>5, <1>8, <1>11, <1>12

(* saveARTAllocationData: what the file held before is given up, not forgotten. *)
LEMMA SaveKeeps ==
    ASSUME AllocInv, NEW t \in Threads, saveARTAllocationData(t)
    PROVE  AllocTypeOK' /\ FramesInv' /\ KeptInv'
<1>1. /\ frames[t] # <<>> /\ GoTo(t, "clear") /\ "clear" \in FramePCs
      /\ UNCHANGED <<records, next, clock>>
  BY DEF saveARTAllocationData, At, FramePCs
<1>2. Top(t) \in FrameSet /\ Top(t).snap \in SUBSET Nat
  BY <1>1, TopFacts DEF AllocInv, FrameSet
<1>3. /\ files' \in [0 .. LastSecond -> SUBSET Nat] /\ excused' \in SUBSET Nat
      /\ Safe \subseteq Safe' /\ Top(t).snap \subseteq Safe'
  <2>1. CASE /\ files' = [files EXCEPT ![clock] = Top(t).snap]
             /\ excused' = excused \cup (files[clock] \ Top(t).snap)
    <3>1. /\ files' = [files EXCEPT ![clock] = Top(t).snap]
          /\ excused' = excused \cup (files[clock] \ Top(t).snap)
      BY <2>1
    <3>2. /\ clock \in 0 .. LastSecond /\ files[clock] \in SUBSET Nat
          /\ files'[clock] = Top(t).snap
          /\ \A s \in 0 .. LastSecond : s # clock => files'[s] = files[s]
      BY <3>1 DEF AllocInv, AllocTypeOK
    <3>3. files' \in [0 .. LastSecond -> SUBSET Nat] /\ excused' \in SUBSET Nat
      BY <1>2, <3>1, <3>2 DEF AllocInv, AllocTypeOK
    <3>4. Top(t).snap \subseteq Safe'
      BY <3>2 DEF Safe
    <3>5. Safe \subseteq Safe'
      <4> SUFFICES ASSUME NEW id \in Safe, id \notin Top(t).snap PROVE id \in Safe'
        BY <3>4
      <4>1. CASE id \in excused
        BY <3>1, <4>1 DEF Safe
      <4>2. CASE id \notin excused
        <5>1. PICK s \in 0 .. LastSecond : id \in files[s]
          BY <4>2 DEF Safe
        <5> QED
          BY <3>1, <3>2, <5>1 DEF Safe
      <4> QED
        BY <4>1, <4>2
    <3> QED
      BY <3>3, <3>4, <3>5
  <2>2. CASE excused' = excused \cup Top(t).snap /\ files' = files
    BY <1>2, <2>2 DEF AllocInv, AllocTypeOK, Safe
  <2> QED
    BY <2>1, <2>2 DEF saveARTAllocationData
<1>4. /\ frames' \in [Threads -> Seq(FrameSet)] /\ FramesInv'
      /\ \A id : Carried(id) => Carried(id)'
  BY <1>1, <1>3, GoToKeeps DEF AllocInv
<1>5. KeptInv'
  BY <1>1, <1>3, <1>4, KeptStep DEF AllocInv
<1> QED
  BY <1>1, <1>3, <1>4, <1>5 DEF AllocInv, AllocTypeOK

(* Clear: what is not in the snapshot is given up, the snapshot is safe.        *)
LEMMA ClearKeeps ==
    ASSUME AllocInv, NEW t \in Threads, Clear(t)
    PROVE  AllocTypeOK' /\ FramesInv' /\ KeptInv'
<1>1. /\ frames[t] # <<>> /\ GoTo(t, "unlock") /\ "unlock" \in FramePCs
      /\ Top(t).pc = "clear" /\ UNCHANGED <<files, next, clock>>
  BY DEF Clear, At, FramePCs
<1>2. Top(t).snap \subseteq Safe
  <2>1. FrameOK(Top(t), Safe)
    BY <1>1, TopFacts DEF AllocInv, FramesInv, Top
  <2> QED
    BY <1>1, <2>1 DEF FrameOK
<1>3. \/ records' = {} /\ excused' = excused \cup (records \ Top(t).snap)
      \/ UNCHANGED <<records, excused>>
  BY DEF Clear
<1>4. /\ records' \in SUBSET Nat /\ excused' \in SUBSET Nat
      /\ Safe \subseteq Safe' /\ records \subseteq records' \cup Safe'
  BY <1>1, <1>2, <1>3 DEF AllocInv, AllocTypeOK, Safe
<1>5. /\ frames' \in [Threads -> Seq(FrameSet)] /\ FramesInv'
      /\ \A id : Carried(id) => Carried(id)'
  BY <1>1, <1>2, <1>4, GoToKeeps DEF AllocInv
<1>6. KeptInv'
  BY <1>1, <1>4, <1>5, KeptStep DEF AllocInv
<1> QED
  BY <1>1, <1>4, <1>5, <1>6 DEF AllocInv, AllocTypeOK

\* A step of the hook.
LEMMA HookKeeps ==
    ASSUME AllocInv, NEW t \in Threads, HookStep(t)
    PROVE  AllocTypeOK' /\ FramesInv' /\ KeptInv'
<1> USE DEF At, FramePCs
<1>1. CASE Allocate(t)
  BY <1>1, AllocateKeeps
<1>2. CASE Count(t)
  <2>1. CASE tracker.stop
    BY <1>2, <2>1, ReturnKeeps DEF Count
  <2>2. CASE ~tracker.stop /\ hook = "26" /\ "clear" \notin pointer
    <3>1. GoTo(t, "old")
      BY <1>2, <2>2 DEF Count
    <3> QED
      BY <1>2, <2>2, <3>1, MoveKeeps DEF Count
  <2>3. CASE ~tracker.stop /\ ~(hook = "26" /\ "clear" \notin pointer)
    <3>1. GoTo(t, "test")
      BY <1>2, <2>3 DEF Count
    <3> QED
      BY <1>2, <2>3, <3>1, MoveKeeps DEF Count
  <2> QED
    BY <2>1, <2>2, <2>3
<1>3. CASE Lucky(t)
  <2>1. CASE hook = "26"
    <3>1. GoTo(t, "old")
      BY <1>3, <2>1 DEF Lucky
    <3> QED
      BY <1>3, <2>1, <3>1, MoveKeeps DEF Lucky
  <2>2. CASE hook # "26"
    BY <1>3, <2>2, ReturnKeeps DEF Lucky
  <2> QED
    BY <2>1, <2>2
<1>4. CASE Test(t)
  <2>1. GoTo(t, "lock") \/ GoTo(t, "old")
    BY <1>4 DEF Test
  <2> QED
    BY <1>4, <2>1, MoveKeeps DEF Test
<1>5. CASE CMyLock(t)
  BY <1>5, MoveKeeps DEF CMyLock
<1>6. CASE getARTAllocationData(t)
  BY <1>6, SnapshotKeeps
<1>7. CASE saveARTAllocationData(t)
  BY <1>7, SaveKeeps
<1>8. CASE Clear(t)
  BY <1>8, ClearKeeps
<1>9. CASE Unlock(t, "unlock", "destroy") \/ Unlock(t, "destroy", "old")
  BY <1>9, MoveKeeps DEF Unlock
<1>10. CASE oldArtRecordAllocation(t)
  BY <1>10, ReturnKeeps DEF oldArtRecordAllocation
<1> QED
  BY <1>1, <1>2, <1>3, <1>4, <1>5, <1>6, <1>7, <1>8, <1>9, <1>10 DEF HookStep

-----------------------------------------------------------------------------
(* The API *)

(* A call of the API gives up at most what the runtime's list held.             *)
LEMMA ApiKeeps ==
    ASSUME AllocInv, ApiCall
    PROVE  AllocTypeOK' /\ FramesInv' /\ KeptInv'
<1>1. /\ UNCHANGED <<frames, files, next, clock>>
      /\ \/ UNCHANGED <<records, excused>>
         \/ records' = {} /\ excused' = excused \cup records
  BY DEF ApiCall, HookOnly, initForArt, unInitForArt, startStop,
         setEnableARTRecordAllocation, setSaveDataDirectory
<1>2. Safe \subseteq Safe' /\ records \subseteq records' \cup Safe'
  BY <1>1 DEF Safe
<1>3. AllocTypeOK'
  BY <1>1 DEF AllocInv, AllocTypeOK
<1>4. FramesInv'
  BY <1>1, <1>2 DEF AllocInv, FramesInv, FrameOK
<1>5. \A id : Carried(id) => Carried(id)'
  BY <1>1 DEF Carried
<1> QED
  BY <1>1, <1>2, <1>3, <1>4, <1>5, KeptStep DEF AllocInv

\* The Dalvik report.
LEMMA ReportKeeps == ASSUME AllocInv, DvmCall PROVE ReportInv'
<1> DEFINE R == [made : Nat, freed : SUBSET Nat, data : Nat, len : {0, 1},
                 handed : SUBSET Nat, fn : BOOLEAN, lib : {"null", "open", "closed"}]
<1>r. /\ report \in R /\ report.data <= report.made
      /\ \A b \in report.freed : b <= report.made
      /\ report.len > 0 => report.data \notin report.freed
      /\ 0 \notin report.handed
  BY DEF AllocInv, ReportInv
<1>s. ASSUME report' \in R, report'.data <= report'.made,
             \A b \in report'.freed : b <= report'.made,
             report'.len > 0 => report'.data \notin report'.freed,
             0 \notin report'.handed
      PROVE  ReportInv'
  BY <1>s DEF ReportInv
<1>1. ASSUME NEW opens \in BOOLEAN, NEW found \in BOOLEAN, initForDvm(opens, found)
      PROVE  ReportInv'
  BY <1>1, <1>r, <1>s DEF initForDvm
<1>2. CASE dumpDvmAllocationData
  <2>1. report' = [report EXCEPT !.made = @ + 1, !.data = report.made + 1, !.len = 1]
    BY <1>2 DEF dumpDvmAllocationData
  <2>3. report.made \in Nat /\ report.made + 1 \in Nat /\ report.freed \in SUBSET Nat
    BY <1>r
  <2> DEFINE n == report.made + 1
  <2>5. report' = [report EXCEPT !.made = n, !.data = n, !.len = 1] /\ n \in Nat
    BY <2>1, <2>3
  <2> HIDE DEF n
  <2>6. /\ report' \in R
        /\ report'.made = n /\ report'.data = n
        /\ report'.freed = report.freed /\ report'.handed = report.handed
    BY <1>r, <2>5
  <2>2. /\ report' \in R
        /\ report'.made = report.made + 1 /\ report'.data = report.made + 1
        /\ report'.freed = report.freed /\ report'.handed = report.handed
    BY <2>6 DEF n
  <2> HIDE DEF R
  <2>4. /\ report'.data <= report'.made
        /\ \A b \in report'.freed : b <= report'.made
        /\ report'.data \notin report'.freed
        /\ 0 \notin report'.handed
    BY <1>r, <2>2, <2>3
  <2> QED
    BY <1>s, <2>2, <2>4
<1>3. CASE getDvmAllocationDataForJava
  <2> DEFINE got == IF report.data \in report.freed THEN 0 ELSE report.data
  <2>1. /\ report.data # 0 /\ report.len > 0
        /\ report' = [report EXCEPT !.handed = @ \cup {got},
                                   !.freed = @ \cup {report.data}, !.len = 0]
    BY <1>3 DEF getDvmAllocationDataForJava
  <2>2. got = report.data /\ report.data \in Nat
    BY <1>r, <2>1
  <2> HIDE DEF got
  <2>3. /\ report' \in R /\ report'.made = report.made /\ report'.data = report.data
        /\ report'.len = 0 /\ report'.freed = report.freed \cup {report.data}
        /\ report'.handed = report.handed \cup {report.data}
    BY <1>r, <2>1, <2>2
  <2> HIDE DEF R
  <2>4. /\ report'.data <= report'.made
        /\ \A b \in report'.freed : b <= report'.made
        /\ 0 \notin report'.handed
    BY <1>r, <2>1, <2>3
  <2> QED
    BY <1>s, <2>3, <2>4
<1>4. CASE unInitForDvm
  <2>1. report' = [report EXCEPT !.freed = @ \cup ({report.data} \ {0}), !.data = 0, !.len = 0,
                      !.fn = FALSE,
                      !.lib = IF report.lib = "null" THEN "null" ELSE "closed"]
    BY <1>4 DEF unInitForDvm
  <2>2. /\ report' \in R /\ report'.made = report.made /\ report'.data = 0
        /\ report'.len = 0 /\ report'.freed = report.freed \cup ({report.data} \ {0})
        /\ report'.handed = report.handed
    BY <1>r, <2>1
  <2>3. report.made \in Nat
    BY <1>r
  <2> HIDE DEF R
  <2>4. /\ report'.data <= report'.made
        /\ \A b \in report'.freed : b <= report'.made
        /\ 0 \notin report'.handed
    BY <1>r, <2>2, <2>3
  <2> QED
    BY <1>s, <2>2, <2>4
<1> QED
  BY <1>1, <1>2, <1>3, <1>4 DEF DvmCall

\* Nothing is recorded at first.
LEMMA AllocInitInv == AllocInit => AllocInv
<1> SUFFICES ASSUME AllocInit PROVE AllocInv
  OBVIOUS
<1>1. AllocTypeOK
  BY AllocBounds DEF AllocInit, AllocTypeOK
<1>2. FramesInv /\ KeptInv
  BY DEF AllocInit, FramesInv, KeptInv
<1>3. ReportInv
  BY DEF AllocInit, ReportInv
<1> QED
  BY <1>1, <1>2, <1>3 DEF AllocInv

\* The invariant of the tracker is inductive.
LEMMA AllocStepInv == AllocInv /\ [ArtNext \/ DvmCall]_allocVars => AllocInv'
<1> SUFFICES ASSUME AllocInv, [ArtNext \/ DvmCall]_allocVars PROVE AllocInv'
  OBVIOUS
<1>1. CASE AllocNext
  BY <1>1, HookKeeps DEF AllocNext, AllocInv, ReportInv
<1>2. CASE ApiCall
  BY <1>2, ApiKeeps DEF ApiCall, AllocInv, ReportInv
<1>3. ASSUME UNCHANGED <<frames, records, files, excused, next>>,
             clock' \in 0 .. LastSecond, ReportInv'
      PROVE  AllocInv'
  <2>1. Safe' = Safe
    BY <1>3 DEF Safe
  <2>2. AllocTypeOK' /\ FramesInv'
    BY <1>3, <2>1 DEF AllocInv, AllocTypeOK, FramesInv
  <2>3. \A id : Carried(id) => Carried(id)'
    BY <1>3 DEF Carried
  <2> QED
    BY <1>3, <2>1, <2>2, <2>3, KeptStep DEF AllocInv
<1>4. CASE Tick
  BY <1>3, <1>4, AllocBounds DEF Tick, AllocInv, AllocTypeOK, ReportInv
<1>5. CASE DvmCall
  BY <1>3, <1>5, ReportKeeps DEF DvmCall, artVars, AllocInv, AllocTypeOK
<1>6. CASE UNCHANGED allocVars
  BY <1>3, <1>6 DEF allocVars, artVars, AllocInv, AllocTypeOK, ReportInv
<1> QED
  BY <1>1, <1>2, <1>4, <1>5, <1>6 DEF ArtNext

(* Every allocation the hook lets through stays in the runtime's list, in a     *)
(* file, or with a call of the hook that has yet to deal with it, unless the    *)
(* code gave it up; a Dalvik report is never handed to Java after it is freed.  *)
THEOREM NothingLost == AllocSpec => []Accounted
<1>1. AllocInv => Accounted
  <2> SUFFICES ASSUME AllocInv PROVE Accounted
    OBVIOUS
  <2>1. \A t \in Threads : DOMAIN frames[t] = 1 .. Len(frames[t])
    BY DEF AllocInv, AllocTypeOK
  <2>2. DOMAIN files = 0 .. LastSecond
    BY DEF AllocInv, AllocTypeOK
  <2>3. \A id \in Safe : id \in excused \/ \E s \in DOMAIN files : id \in files[s]
    BY <2>2 DEF Safe
  <2> QED
    BY <2>1, <2>3 DEF AllocInv, KeptInv, Carried, Carries, ReportInv, Accounted
<1> QED
  BY <1>1, AllocInitInv, AllocStepInv, PTL DEF AllocSpec
-----------------------------------------------------------------------------
(* Short tuples *)

\* What a part of a sequence holds.
LEMMA SubAt ==
    ASSUME NEW S, NEW s \in Seq(S), NEW m \in 1 .. Len(s), NEW n \in m .. Len(s)
    PROVE  /\ SubSeq(s, m, n) \in Seq(S)
           /\ Len(SubSeq(s, m, n)) = n - m + 1
           /\ \A i \in 1 .. n - m + 1 : SubSeq(s, m, n)[i] = s[m + i - 1]
<1>1. \A i \in m .. n : s[i] \in S
  OBVIOUS
<1> QED
  BY <1>1, SubSeqProperties

\* A sequence of 1 elements is the tuple of its elements.
LEMMA Tuple1 ==
    ASSUME NEW S, NEW s \in Seq(S), Len(s) = 1
    PROVE  s = <<s[1]>>
  OBVIOUS

\* A sequence of 2 elements is the tuple of its elements.
LEMMA Tuple2 ==
    ASSUME NEW S, NEW s \in Seq(S), Len(s) = 2
    PROVE  s = <<s[1], s[2]>>
  OBVIOUS

\* A sequence of 3 elements is the tuple of its elements.
LEMMA Tuple3 ==
    ASSUME NEW S, NEW s \in Seq(S), Len(s) = 3
    PROVE  s = <<s[1], s[2], s[3]>>
  OBVIOUS

\* A sequence of 4 elements is the tuple of its elements.
LEMMA Tuple4 ==
    ASSUME NEW S, NEW s \in Seq(S), Len(s) = 4
    PROVE  s = <<s[1], s[2], s[3], s[4]>>
  OBVIOUS

\* A sequence of 5 elements is the tuple of its elements.
LEMMA Tuple5 ==
    ASSUME NEW S, NEW s \in Seq(S), Len(s) = 5
    PROVE  s = <<s[1], s[2], s[3], s[4], s[5]>>
  OBVIOUS

\* A sequence of 6 elements is the tuple of its elements.
LEMMA Tuple6 ==
    ASSUME NEW S, NEW s \in Seq(S), Len(s) = 6
    PROVE  s = <<s[1], s[2], s[3], s[4], s[5], s[6]>>
  OBVIOUS

\* A sequence of 7 elements is the tuple of its elements.
LEMMA Tuple7 ==
    ASSUME NEW S, NEW s \in Seq(S), Len(s) = 7
    PROVE  s = <<s[1], s[2], s[3], s[4], s[5], s[6], s[7]>>
  OBVIOUS

\* Tuples of 1 and 1 elements end to end.
LEMMA Concat11 ==
    ASSUME NEW a, NEW b
    PROVE  <<a>> \o <<b>> = <<a, b>>
<1> DEFINE S == {a, b}  p == <<a>>  q == <<b>>  t == p \o q
<1>1. p \in Seq(S) /\ q \in Seq(S)
  OBVIOUS
<1>2. Len(p) = 1 /\ Len(q) = 1
  OBVIOUS
<1>3. p[1] = a /\ q[1] = b
  OBVIOUS
<1> HIDE DEF S, p, q
<1>4. t \in Seq(S) /\ Len(t) = Len(p) + Len(q)
  BY <1>1, ConcatProperties
<1>5. \A i \in 1 .. Len(p) + Len(q) : t[i] = IF i <= Len(p) THEN p[i] ELSE q[i - Len(p)]
  BY <1>1, ConcatProperties
<1> HIDE DEF t
<1>6. t[1] = a /\ t[2] = b
  BY <1>2, <1>3, <1>5
<1>7. t = <<t[1], t[2]>>
  BY <1>2, <1>4, Tuple2
<1> QED
  BY <1>6, <1>7 DEF p, q, t

\* Tuples of 1 and 2 elements end to end.
LEMMA Concat12 ==
    ASSUME NEW a, NEW b, NEW c
    PROVE  <<a>> \o <<b, c>> = <<a, b, c>>
<1> DEFINE S == {a, b, c}  p == <<a>>  q == <<b, c>>  t == p \o q
<1>1. p \in Seq(S) /\ q \in Seq(S)
  OBVIOUS
<1>2. Len(p) = 1 /\ Len(q) = 2
  OBVIOUS
<1>3. p[1] = a /\ q[1] = b /\ q[2] = c
  OBVIOUS
<1> HIDE DEF S, p, q
<1>4. t \in Seq(S) /\ Len(t) = Len(p) + Len(q)
  BY <1>1, ConcatProperties
<1>5. \A i \in 1 .. Len(p) + Len(q) : t[i] = IF i <= Len(p) THEN p[i] ELSE q[i - Len(p)]
  BY <1>1, ConcatProperties
<1> HIDE DEF t
<1>6. t[1] = a /\ t[2] = b /\ t[3] = c
  BY <1>2, <1>3, <1>5
<1>7. t = <<t[1], t[2], t[3]>>
  BY <1>2, <1>4, Tuple3
<1> QED
  BY <1>6, <1>7 DEF p, q, t

\* Tuples of 1 and 4 elements end to end.
LEMMA Concat14 ==
    ASSUME NEW a, NEW b, NEW c, NEW d, NEW e
    PROVE  <<a>> \o <<b, c, d, e>> = <<a, b, c, d, e>>
<1> DEFINE S == {a, b, c, d, e}  p == <<a>>  q == <<b, c, d, e>>  t == p \o q
<1>1. p \in Seq(S) /\ q \in Seq(S)
  OBVIOUS
<1>2. Len(p) = 1 /\ Len(q) = 4
  OBVIOUS
<1>3. p[1] = a /\ q[1] = b /\ q[2] = c /\ q[3] = d /\ q[4] = e
  OBVIOUS
<1> HIDE DEF S, p, q
<1>4. t \in Seq(S) /\ Len(t) = Len(p) + Len(q)
  BY <1>1, ConcatProperties
<1>5. \A i \in 1 .. Len(p) + Len(q) : t[i] = IF i <= Len(p) THEN p[i] ELSE q[i - Len(p)]
  BY <1>1, ConcatProperties
<1> HIDE DEF t
<1>6. t[1] = a /\ t[2] = b /\ t[3] = c /\ t[4] = d /\ t[5] = e
  BY <1>2, <1>3, <1>5
<1>7. t = <<t[1], t[2], t[3], t[4], t[5]>>
  BY <1>2, <1>4, Tuple5
<1> QED
  BY <1>6, <1>7 DEF p, q, t

\* Tuples of 1 and 5 elements end to end.
LEMMA Concat15 ==
    ASSUME NEW a, NEW b, NEW c, NEW d, NEW e, NEW f
    PROVE  <<a>> \o <<b, c, d, e, f>> = <<a, b, c, d, e, f>>
<1> DEFINE S == {a, b, c, d, e, f}  p == <<a>>  q == <<b, c, d, e, f>>  t == p \o q
<1>1. p \in Seq(S) /\ q \in Seq(S)
  OBVIOUS
<1>2. Len(p) = 1 /\ Len(q) = 5
  OBVIOUS
<1>3. p[1] = a /\ q[1] = b /\ q[2] = c /\ q[3] = d /\ q[4] = e /\ q[5] = f
  OBVIOUS
<1> HIDE DEF S, p, q
<1>4. t \in Seq(S) /\ Len(t) = Len(p) + Len(q)
  BY <1>1, ConcatProperties
<1>5. \A i \in 1 .. Len(p) + Len(q) : t[i] = IF i <= Len(p) THEN p[i] ELSE q[i - Len(p)]
  BY <1>1, ConcatProperties
<1> HIDE DEF t
<1>6. t[1] = a /\ t[2] = b /\ t[3] = c /\ t[4] = d /\ t[5] = e /\ t[6] = f
  BY <1>2, <1>3, <1>5
<1>7. t = <<t[1], t[2], t[3], t[4], t[5], t[6]>>
  BY <1>2, <1>4, Tuple6
<1> QED
  BY <1>6, <1>7 DEF p, q, t

\* Tuples of 1 and 6 elements end to end.
LEMMA Concat16 ==
    ASSUME NEW a, NEW b, NEW c, NEW d, NEW e, NEW f, NEW g
    PROVE  <<a>> \o <<b, c, d, e, f, g>> = <<a, b, c, d, e, f, g>>
<1> DEFINE S == {a, b, c, d, e, f, g}  p == <<a>>  q == <<b, c, d, e, f, g>>  t == p \o q
<1>1. p \in Seq(S) /\ q \in Seq(S)
  OBVIOUS
<1>2. Len(p) = 1 /\ Len(q) = 6
  OBVIOUS
<1>3. p[1] = a /\ q[1] = b /\ q[2] = c /\ q[3] = d /\ q[4] = e /\ q[5] = f /\ q[6] = g
  OBVIOUS
<1> HIDE DEF S, p, q
<1>4. t \in Seq(S) /\ Len(t) = Len(p) + Len(q)
  BY <1>1, ConcatProperties
<1>5. \A i \in 1 .. Len(p) + Len(q) : t[i] = IF i <= Len(p) THEN p[i] ELSE q[i - Len(p)]
  BY <1>1, ConcatProperties
<1> HIDE DEF t
<1>6. t[1] = a /\ t[2] = b /\ t[3] = c /\ t[4] = d /\ t[5] = e /\ t[6] = f /\ t[7] = g
  BY <1>2, <1>3, <1>5
<1>7. t = <<t[1], t[2], t[3], t[4], t[5], t[6], t[7]>>
  BY <1>2, <1>4, Tuple7
<1> QED
  BY <1>6, <1>7 DEF p, q, t

\* Tuples of 2 and 1 elements end to end.
LEMMA Concat21 ==
    ASSUME NEW a, NEW b, NEW c
    PROVE  <<a, b>> \o <<c>> = <<a, b, c>>
<1> DEFINE S == {a, b, c}  p == <<a, b>>  q == <<c>>  t == p \o q
<1>1. p \in Seq(S) /\ q \in Seq(S)
  OBVIOUS
<1>2. Len(p) = 2 /\ Len(q) = 1
  OBVIOUS
<1>3. p[1] = a /\ p[2] = b /\ q[1] = c
  OBVIOUS
<1> HIDE DEF S, p, q
<1>4. t \in Seq(S) /\ Len(t) = Len(p) + Len(q)
  BY <1>1, ConcatProperties
<1>5. \A i \in 1 .. Len(p) + Len(q) : t[i] = IF i <= Len(p) THEN p[i] ELSE q[i - Len(p)]
  BY <1>1, ConcatProperties
<1> HIDE DEF t
<1>6. t[1] = a /\ t[2] = b /\ t[3] = c
  BY <1>2, <1>3, <1>5
<1>7. t = <<t[1], t[2], t[3]>>
  BY <1>2, <1>4, Tuple3
<1> QED
  BY <1>6, <1>7 DEF p, q, t

\* Tuples of 3 and 1 elements end to end.
LEMMA Concat31 ==
    ASSUME NEW a, NEW b, NEW c, NEW d
    PROVE  <<a, b, c>> \o <<d>> = <<a, b, c, d>>
<1> DEFINE S == {a, b, c, d}  p == <<a, b, c>>  q == <<d>>  t == p \o q
<1>1. p \in Seq(S) /\ q \in Seq(S)
  OBVIOUS
<1>2. Len(p) = 3 /\ Len(q) = 1
  OBVIOUS
<1>3. p[1] = a /\ p[2] = b /\ p[3] = c /\ q[1] = d
  OBVIOUS
<1> HIDE DEF S, p, q
<1>4. t \in Seq(S) /\ Len(t) = Len(p) + Len(q)
  BY <1>1, ConcatProperties
<1>5. \A i \in 1 .. Len(p) + Len(q) : t[i] = IF i <= Len(p) THEN p[i] ELSE q[i - Len(p)]
  BY <1>1, ConcatProperties
<1> HIDE DEF t
<1>6. t[1] = a /\ t[2] = b /\ t[3] = c /\ t[4] = d
  BY <1>2, <1>3, <1>5
<1>7. t = <<t[1], t[2], t[3], t[4]>>
  BY <1>2, <1>4, Tuple4
<1> QED
  BY <1>6, <1>7 DEF p, q, t

\* Tuples of 4 and 2 elements end to end.
LEMMA Concat42 ==
    ASSUME NEW a, NEW b, NEW c, NEW d, NEW e, NEW f
    PROVE  <<a, b, c, d>> \o <<e, f>> = <<a, b, c, d, e, f>>
<1> DEFINE S == {a, b, c, d, e, f}  p == <<a, b, c, d>>  q == <<e, f>>  t == p \o q
<1>1. p \in Seq(S) /\ q \in Seq(S)
  OBVIOUS
<1>2. Len(p) = 4 /\ Len(q) = 2
  OBVIOUS
<1>3. p[1] = a /\ p[2] = b /\ p[3] = c /\ p[4] = d /\ q[1] = e /\ q[2] = f
  OBVIOUS
<1> HIDE DEF S, p, q
<1>4. t \in Seq(S) /\ Len(t) = Len(p) + Len(q)
  BY <1>1, ConcatProperties
<1>5. \A i \in 1 .. Len(p) + Len(q) : t[i] = IF i <= Len(p) THEN p[i] ELSE q[i - Len(p)]
  BY <1>1, ConcatProperties
<1> HIDE DEF t
<1>6. t[1] = a /\ t[2] = b /\ t[3] = c /\ t[4] = d /\ t[5] = e /\ t[6] = f
  BY <1>2, <1>3, <1>5
<1>7. t = <<t[1], t[2], t[3], t[4], t[5], t[6]>>
  BY <1>2, <1>4, Tuple6
<1> QED
  BY <1>6, <1>7 DEF p, q, t

\* Tuples of 5 and 1 elements end to end.
LEMMA Concat51 ==
    ASSUME NEW a, NEW b, NEW c, NEW d, NEW e, NEW f
    PROVE  <<a, b, c, d, e>> \o <<f>> = <<a, b, c, d, e, f>>
<1> DEFINE S == {a, b, c, d, e, f}  p == <<a, b, c, d, e>>  q == <<f>>  t == p \o q
<1>1. p \in Seq(S) /\ q \in Seq(S)
  OBVIOUS
<1>2. Len(p) = 5 /\ Len(q) = 1
  OBVIOUS
<1>3. p[1] = a /\ p[2] = b /\ p[3] = c /\ p[4] = d /\ p[5] = e /\ q[1] = f
  OBVIOUS
<1> HIDE DEF S, p, q
<1>4. t \in Seq(S) /\ Len(t) = Len(p) + Len(q)
  BY <1>1, ConcatProperties
<1>5. \A i \in 1 .. Len(p) + Len(q) : t[i] = IF i <= Len(p) THEN p[i] ELSE q[i - Len(p)]
  BY <1>1, ConcatProperties
<1> HIDE DEF t
<1>6. t[1] = a /\ t[2] = b /\ t[3] = c /\ t[4] = d /\ t[5] = e /\ t[6] = f
  BY <1>2, <1>3, <1>5
<1>7. t = <<t[1], t[2], t[3], t[4], t[5], t[6]>>
  BY <1>2, <1>4, Tuple6
<1> QED
  BY <1>6, <1>7 DEF p, q, t

\* The elements 2 to 3 of a tuple of 6.
LEMMA Sub623 ==
    ASSUME NEW a, NEW b, NEW c, NEW d, NEW e, NEW f
    PROVE  SubSeq(<<a, b, c, d, e, f>>, 2, 3) = <<b, c>>
<1> DEFINE S == {a, b, c, d, e, f}  p == <<a, b, c, d, e, f>>  t == SubSeq(p, 2, 3)
<1>1. p \in Seq(S) /\ Len(p) = 6
  OBVIOUS
<1>2. p[1] = a /\ p[2] = b /\ p[3] = c /\ p[4] = d /\ p[5] = e /\ p[6] = f
  OBVIOUS
<1> HIDE DEF S, p
<1>3. 2 \in 1 .. Len(p) /\ 3 \in 2 .. Len(p)
  BY <1>1
<1>4. t \in Seq(S) /\ Len(t) = 3 - 2 + 1
  BY <1>1, <1>3, SubAt
<1>5. \A h \in 1 .. 3 - 2 + 1 : t[h] = p[2 + h - 1]
  BY <1>1, <1>3, SubAt
<1> HIDE DEF t
<1>6. t[1] = b /\ t[2] = c
  BY <1>2, <1>5
<1>7. t = <<t[1], t[2]>>
  BY <1>4, Tuple2
<1> QED
  BY <1>6, <1>7 DEF p, t

\* The elements 5 to 6 of a tuple of 6.
LEMMA Sub656 ==
    ASSUME NEW a, NEW b, NEW c, NEW d, NEW e, NEW f
    PROVE  SubSeq(<<a, b, c, d, e, f>>, 5, 6) = <<e, f>>
<1> DEFINE S == {a, b, c, d, e, f}  p == <<a, b, c, d, e, f>>  t == SubSeq(p, 5, 6)
<1>1. p \in Seq(S) /\ Len(p) = 6
  OBVIOUS
<1>2. p[1] = a /\ p[2] = b /\ p[3] = c /\ p[4] = d /\ p[5] = e /\ p[6] = f
  OBVIOUS
<1> HIDE DEF S, p
<1>3. 5 \in 1 .. Len(p) /\ 6 \in 5 .. Len(p)
  BY <1>1
<1>4. t \in Seq(S) /\ Len(t) = 6 - 5 + 1
  BY <1>1, <1>3, SubAt
<1>5. \A h \in 1 .. 6 - 5 + 1 : t[h] = p[5 + h - 1]
  BY <1>1, <1>3, SubAt
<1> HIDE DEF t
<1>6. t[1] = e /\ t[2] = f
  BY <1>2, <1>5
<1>7. t = <<t[1], t[2]>>
  BY <1>4, Tuple2
<1> QED
  BY <1>6, <1>7 DEF p, t

\* The elements 5 to 5 of a tuple of 5.
LEMMA Sub555 ==
    ASSUME NEW a, NEW b, NEW c, NEW d, NEW e
    PROVE  SubSeq(<<a, b, c, d, e>>, 5, 5) = <<e>>
<1> DEFINE S == {a, b, c, d, e}  p == <<a, b, c, d, e>>  t == SubSeq(p, 5, 5)
<1>1. p \in Seq(S) /\ Len(p) = 5
  OBVIOUS
<1>2. p[1] = a /\ p[2] = b /\ p[3] = c /\ p[4] = d /\ p[5] = e
  OBVIOUS
<1> HIDE DEF S, p
<1>3. 5 \in 1 .. Len(p) /\ 5 \in 5 .. Len(p)
  BY <1>1
<1>4. t \in Seq(S) /\ Len(t) = 5 - 5 + 1
  BY <1>1, <1>3, SubAt
<1>5. \A h \in 1 .. 5 - 5 + 1 : t[h] = p[5 + h - 1]
  BY <1>1, <1>3, SubAt
<1> HIDE DEF t
<1>6. t[1] = e
  BY <1>2, <1>5
<1>7. t = <<t[1]>>
  BY <1>4, Tuple1
<1> QED
  BY <1>6, <1>7 DEF p, t

\* The elements 3 to 3 of a tuple of 3.
LEMMA Sub333 ==
    ASSUME NEW a, NEW b, NEW c
    PROVE  SubSeq(<<a, b, c>>, 3, 3) = <<c>>
<1> DEFINE S == {a, b, c}  p == <<a, b, c>>  t == SubSeq(p, 3, 3)
<1>1. p \in Seq(S) /\ Len(p) = 3
  OBVIOUS
<1>2. p[1] = a /\ p[2] = b /\ p[3] = c
  OBVIOUS
<1> HIDE DEF S, p
<1>3. 3 \in 1 .. Len(p) /\ 3 \in 3 .. Len(p)
  BY <1>1
<1>4. t \in Seq(S) /\ Len(t) = 3 - 3 + 1
  BY <1>1, <1>3, SubAt
<1>5. \A h \in 1 .. 3 - 3 + 1 : t[h] = p[3 + h - 1]
  BY <1>1, <1>3, SubAt
<1> HIDE DEF t
<1>6. t[1] = c
  BY <1>2, <1>5
<1>7. t = <<t[1]>>
  BY <1>4, Tuple1
<1> QED
  BY <1>6, <1>7 DEF p, t

-----------------------------------------------------------------------------
(* dlopen.c *)

\* The processor of architecture a: where it is, its stack, lr and frame pointer.
CpuAt(a, at, i, s, lr, fp) ==
    [arch |-> a, at |-> at, i |-> i, stack |-> s, lr |-> lr, fp |-> fp]

\* Where the return address is on the stack the other registers stay as they are.
CpuOn(a, at, i, s) == CpuAt(a, at, i, s, "base_lr", "base_fp")

DlStep == Call \/ Execute \/ LinkerReturns \/ Drop

\* The fields of such a state, and what changing one of them gives.
LEMMA CpuFields ==
    ASSUME NEW a, NEW at, NEW i, NEW s, NEW lr, NEW fp, NEW x
    PROVE  /\ CpuAt(a, at, i, s, lr, fp).arch = a
           /\ CpuAt(a, at, i, s, lr, fp).at = at
           /\ CpuAt(a, at, i, s, lr, fp).i = i
           /\ CpuAt(a, at, i, s, lr, fp).stack = s
           /\ CpuAt(a, at, i, s, lr, fp).lr = lr
           /\ CpuAt(a, at, i, s, lr, fp).fp = fp
           /\ [CpuAt(a, at, i, s, lr, fp) EXCEPT !.at = x] = CpuAt(a, x, i, s, lr, fp)
           /\ [CpuAt(a, at, i, s, lr, fp) EXCEPT !.i = x] = CpuAt(a, at, x, s, lr, fp)
           /\ [CpuAt(a, at, i, s, lr, fp) EXCEPT !.stack = x] = CpuAt(a, at, i, x, lr, fp)
           /\ [CpuAt(a, at, i, s, lr, fp) EXCEPT !.lr = x] = CpuAt(a, at, i, s, x, fp)
           /\ [CpuAt(a, at, i, s, lr, fp) EXCEPT !.fp = x] = CpuAt(a, at, i, s, lr, x)
  BY DEF CpuAt

\* The instructions, by architecture and place.
LEMMA Instructions ==
    /\ Stub["i386"][1] = "movl_fake" /\ Stub["i386"][2] = "push_called" /\ Stub["i386"][3] = "ret"
    /\ Stub["x86_64"][1] = "push_fake" /\ Stub["x86_64"][2] = "jmp_called"
    /\ Stub["aarch64"][1] = "stp_fp_lr" /\ Stub["aarch64"][2] = "mov_fp"
    /\ Stub["aarch64"][3] = "mov_lr_fake" /\ Stub["aarch64"][4] = "jmp_called"
    /\ Stub["arm"][1] = "str_lr" /\ Stub["arm"][2] = "mov_lr_fake" /\ Stub["arm"][3] = "jmp_called"
    /\ Back["i386"][1] = "push_third" /\ Back["i386"][2] = "ret"
    /\ Back["x86_64"][1] = "ret"
    /\ Back["aarch64"][1] = "ldp_fp_lr" /\ Back["aarch64"][2] = "bx_lr"
    /\ Back["arm"][1] = "ret"
  BY DEF Stub, Back

\* How long the code is.
LEMMA CodeLengths ==
    /\ Len(Stub["i386"]) = 3 /\ Len(Stub["x86_64"]) = 2
    /\ Len(Stub["aarch64"]) = 4 /\ Len(Stub["arm"]) = 3
    /\ Len(Back["i386"]) = 2 /\ Len(Back["x86_64"]) = 1
    /\ Len(Back["aarch64"]) = 2 /\ Len(Back["arm"]) = 1
  BY DEF Stub, Back

\* A jump leads to the first instruction of a place.
LEMMA Jumps ==
    ASSUME NEW a, NEW at, NEW i, NEW s, NEW lr, NEW fp, NEW to
    PROVE  Jump(to, CpuAt(a, at, i, s, lr, fp)) = CpuAt(a, Place(to), 1, s, lr, fp)
<1>1. [CpuAt(a, at, i, s, lr, fp) EXCEPT !.at = Place(to)] = CpuAt(a, Place(to), i, s, lr, fp)
  BY CpuFields
<1>2. [CpuAt(a, Place(to), i, s, lr, fp) EXCEPT !.i = 1] = CpuAt(a, Place(to), 1, s, lr, fp)
  BY CpuFields
<1> QED
  BY <1>1, <1>2 DEF Jump

\* Where an address leads.
LEMMA Places == Place("called") = "linker" /\ Place("fake") = "back" /\ Place("caller") = "caller"
  BY DEF Place

Swap(s) == <<s[4]>> \o SubSeq(s, 2, 3) \o <<s[1]>> \o SubSeq(s, 5, Len(s))

\* The first and the fourth element of six change places.
LEMMA Swapped ==
    ASSUME NEW a, NEW b, NEW c, NEW d, NEW e, NEW f
    PROVE  Swap(<<a, b, c, d, e, f>>) = <<d, b, c, a, e, f>>
<1>s. PICK s : s = <<a, b, c, d, e, f>>
  OBVIOUS
<1>1. s[4] = d /\ s[1] = a /\ Len(s) = 6
  BY <1>s
<1>2. SubSeq(s, 2, 3) = <<b, c>> /\ SubSeq(s, 5, 6) = <<e, f>>
  BY <1>s, Sub623, Sub656
<1>3. <<d>> \o <<b, c>> = <<d, b, c>>
  BY Concat12
<1>4. <<d, b, c>> \o <<a>> = <<d, b, c, a>>
  BY Concat31
<1>5. <<d, b, c, a>> \o <<e, f>> = <<d, b, c, a, e, f>>
  BY Concat42
<1> QED
  BY <1>s, <1>1, <1>2, <1>3, <1>4, <1>5, Zenon DEF Swap

\* The return address and the fake one change places.
LEMMA OpMovl ==
    ASSUME NEW a, NEW at, NEW i, NEW s, NEW lr, NEW fp
    PROVE  Executed("movl_fake", CpuAt(a, at, i, s, lr, fp)) = CpuAt(a, at, i + 1, Swap(s), lr, fp)
<1> DEFINE c == CpuAt(a, at, i, s, lr, fp)  on == [c EXCEPT !.i = c.i + 1]
<1>1. c.stack = s /\ c.lr = lr /\ c.fp = fp
  BY CpuFields
<1>2. Executed("movl_fake", c) =
        [on EXCEPT !.stack = <<c.stack[4]>> \o SubSeq(c.stack, 2, 3) \o <<c.stack[1]>>
             \o SubSeq(c.stack, 5, Len(c.stack))]
  BY DEF Executed
<1> HIDE DEF c
<1>3. PICK t : t = Swap(s)
  OBVIOUS
<1>4. Executed("movl_fake", c) = [on EXCEPT !.stack = t]
  BY <1>1, <1>2, <1>3 DEF Swap
<1>5. on = CpuAt(a, at, i + 1, s, lr, fp)
  BY DEF c, CpuAt
<1> HIDE DEF on
<1>6. [on EXCEPT !.stack = t] = CpuAt(a, at, i + 1, t, lr, fp)
  BY <1>5 DEF CpuAt
<1> QED
  BY <1>3, <1>4, <1>6 DEF c

\* The function to call is pushed.
LEMMA OpPushCalled ==
    ASSUME NEW a, NEW at, NEW i, NEW s, NEW lr, NEW fp
    PROVE  Executed("push_called", CpuAt(a, at, i, s, lr, fp))
          = CpuAt(a, at, i + 1, <<s[5]>> \o s, lr, fp)
<1> DEFINE c == CpuAt(a, at, i, s, lr, fp)  on == [c EXCEPT !.i = c.i + 1]
<1>1. c.stack = s /\ c.lr = lr /\ c.fp = fp
  BY CpuFields
<1>2. Executed("push_called", c) = [on EXCEPT !.stack = <<c.stack[5]>> \o c.stack]
  BY DEF Executed
<1> HIDE DEF c
<1>3. PICK t : t = <<s[5]>> \o s
  OBVIOUS
<1>4. Executed("push_called", c) = [on EXCEPT !.stack = t]
  BY <1>1, <1>2, <1>3
<1>5. on = CpuAt(a, at, i + 1, s, lr, fp)
  BY DEF c, CpuAt
<1> HIDE DEF on
<1>6. [on EXCEPT !.stack = t] = CpuAt(a, at, i + 1, t, lr, fp)
  BY <1>5 DEF CpuAt
<1> QED
  BY <1>3, <1>4, <1>6 DEF c

\* The fake return address is pushed.
LEMMA OpPushFake ==
    ASSUME NEW a, NEW at, NEW i, NEW s, NEW lr, NEW fp
    PROVE  Executed("push_fake", CpuAt(a, at, i, s, lr, fp))
          = CpuAt(a, at, i + 1, <<"fake">> \o s, lr, fp)
<1> DEFINE c == CpuAt(a, at, i, s, lr, fp)  on == [c EXCEPT !.i = c.i + 1]
<1>1. c.stack = s /\ c.lr = lr /\ c.fp = fp
  BY CpuFields
<1>2. Executed("push_fake", c) = [on EXCEPT !.stack = <<"fake">> \o c.stack]
  BY DEF Executed
<1> HIDE DEF c
<1>3. PICK t : t = <<"fake">> \o s
  OBVIOUS
<1>4. Executed("push_fake", c) = [on EXCEPT !.stack = t]
  BY <1>1, <1>2, <1>3
<1>5. on = CpuAt(a, at, i + 1, s, lr, fp)
  BY DEF c, CpuAt
<1> HIDE DEF on
<1>6. [on EXCEPT !.stack = t] = CpuAt(a, at, i + 1, t, lr, fp)
  BY <1>5 DEF CpuAt
<1> QED
  BY <1>3, <1>4, <1>6 DEF c

\* The true return address is pushed.
LEMMA OpPushThird ==
    ASSUME NEW a, NEW at, NEW i, NEW s, NEW lr, NEW fp
    PROVE  Executed("push_third", CpuAt(a, at, i, s, lr, fp))
          = CpuAt(a, at, i + 1, <<s[3]>> \o s, lr, fp)
<1> DEFINE c == CpuAt(a, at, i, s, lr, fp)  on == [c EXCEPT !.i = c.i + 1]
<1>1. c.stack = s /\ c.lr = lr /\ c.fp = fp
  BY CpuFields
<1>2. Executed("push_third", c) = [on EXCEPT !.stack = <<c.stack[3]>> \o c.stack]
  BY DEF Executed
<1> HIDE DEF c
<1>3. PICK t : t = <<s[3]>> \o s
  OBVIOUS
<1>4. Executed("push_third", c) = [on EXCEPT !.stack = t]
  BY <1>1, <1>2, <1>3
<1>5. on = CpuAt(a, at, i + 1, s, lr, fp)
  BY DEF c, CpuAt
<1> HIDE DEF on
<1>6. [on EXCEPT !.stack = t] = CpuAt(a, at, i + 1, t, lr, fp)
  BY <1>5 DEF CpuAt
<1> QED
  BY <1>3, <1>4, <1>6 DEF c

\* The frame pointer and lr are pushed.
LEMMA OpStp ==
    ASSUME NEW a, NEW at, NEW i, NEW s, NEW lr, NEW fp
    PROVE  Executed("stp_fp_lr", CpuAt(a, at, i, s, lr, fp))
          = CpuAt(a, at, i + 1, <<fp, lr>> \o s, lr, fp)
<1> DEFINE c == CpuAt(a, at, i, s, lr, fp)  on == [c EXCEPT !.i = c.i + 1]
<1>1. c.stack = s /\ c.lr = lr /\ c.fp = fp
  BY CpuFields
<1>2. Executed("stp_fp_lr", c) = [on EXCEPT !.stack = <<c.fp, c.lr>> \o c.stack]
  BY DEF Executed
<1> HIDE DEF c
<1>3. PICK t : t = <<fp, lr>> \o s
  OBVIOUS
<1>4. Executed("stp_fp_lr", c) = [on EXCEPT !.stack = t]
  BY <1>1, <1>2, <1>3
<1>5. on = CpuAt(a, at, i + 1, s, lr, fp)
  BY DEF c, CpuAt
<1> HIDE DEF on
<1>6. [on EXCEPT !.stack = t] = CpuAt(a, at, i + 1, t, lr, fp)
  BY <1>5 DEF CpuAt
<1> QED
  BY <1>3, <1>4, <1>6 DEF c

\* lr is pushed.
LEMMA OpStr ==
    ASSUME NEW a, NEW at, NEW i, NEW s, NEW lr, NEW fp
    PROVE  Executed("str_lr", CpuAt(a, at, i, s, lr, fp)) = CpuAt(a, at, i + 1, <<lr>> \o s, lr, fp)
<1> DEFINE c == CpuAt(a, at, i, s, lr, fp)  on == [c EXCEPT !.i = c.i + 1]
<1>1. c.stack = s /\ c.lr = lr /\ c.fp = fp
  BY CpuFields
<1>2. Executed("str_lr", c) = [on EXCEPT !.stack = <<c.lr>> \o c.stack]
  BY DEF Executed
<1> HIDE DEF c
<1>3. PICK t : t = <<lr>> \o s
  OBVIOUS
<1>4. Executed("str_lr", c) = [on EXCEPT !.stack = t]
  BY <1>1, <1>2, <1>3
<1>5. on = CpuAt(a, at, i + 1, s, lr, fp)
  BY DEF c, CpuAt
<1> HIDE DEF on
<1>6. [on EXCEPT !.stack = t] = CpuAt(a, at, i + 1, t, lr, fp)
  BY <1>5 DEF CpuAt
<1> QED
  BY <1>3, <1>4, <1>6 DEF c

\* The instructions that leave the stack alone.
LEMMA OpMoves ==
    ASSUME NEW a, NEW at, NEW i, NEW s, NEW lr, NEW fp
    PROVE  /\ Executed("mov_fp", CpuAt(a, at, i, s, lr, fp))
                = CpuAt(a, at, i + 1, s, lr, "stub_frame")
           /\ Executed("mov_lr_fake", CpuAt(a, at, i, s, lr, fp))
                = CpuAt(a, at, i + 1, s, "fake", fp)
<1> DEFINE c == CpuAt(a, at, i, s, lr, fp)  on == [c EXCEPT !.i = c.i + 1]
<1>1. Executed("mov_fp", c) = [on EXCEPT !.fp = "stub_frame"]
  BY DEF Executed
<1>2. Executed("mov_lr_fake", c) = [on EXCEPT !.lr = "fake"]
  BY DEF Executed
<1>s. on = CpuAt(a, at, i + 1, s, lr, fp)
  BY DEF CpuAt
<1> HIDE DEF on
<1>3. /\ [on EXCEPT !.fp = "stub_frame"] = CpuAt(a, at, i + 1, s, lr, "stub_frame")
      /\ [on EXCEPT !.lr = "fake"] = CpuAt(a, at, i + 1, s, "fake", fp)
  BY <1>s DEF CpuAt
<1> QED
  BY <1>1, <1>2, <1>3

\* The frame pointer and lr come back from the stack.
LEMMA OpLdp ==
    ASSUME NEW a, NEW at, NEW i, NEW s, NEW lr, NEW fp
    PROVE  Executed("ldp_fp_lr", CpuAt(a, at, i, s, lr, fp))
          = CpuAt(a, at, i + 1, SubSeq(s, 3, Len(s)), s[2], s[1])
  BY CpuFields DEF Executed, CpuAt

\* A jump to the called function.
LEMMA OpJmp ==
    ASSUME NEW a, NEW at, NEW i, NEW s, NEW lr, NEW fp
    PROVE  Executed("jmp_called", CpuAt(a, at, i, s, lr, fp)) = CpuAt(a, "linker", 1, s, lr, fp)
  BY Jumps, Places DEF Executed

\* A jump to lr.
LEMMA OpBx ==
    ASSUME NEW a, NEW at, NEW i, NEW s, NEW lr, NEW fp
    PROVE  Executed("bx_lr", CpuAt(a, at, i, s, lr, fp)) = CpuAt(a, Place(lr), 1, s, lr, fp)
<1>1. CpuAt(a, at, i, s, lr, fp).lr = lr
  BY CpuFields
<1> QED
  BY <1>1, Jumps DEF Executed

\* A jump to the address on top of the stack.
LEMMA OpRet ==
    ASSUME NEW a, NEW at, NEW i, NEW s, NEW lr, NEW fp
    PROVE  Executed("ret", CpuAt(a, at, i, s, lr, fp)) = CpuAt(a, Place(s[1]), 1, Tail(s), lr, fp)
<1> DEFINE c == CpuAt(a, at, i, s, lr, fp)
<1>1. PICK u, v : u = Tail(s) /\ v = s[1]
  OBVIOUS
<1>2. c.stack = s
  BY CpuFields
<1>3. Executed("ret", c) = Jump(c.stack[1], [c EXCEPT !.stack = Tail(c.stack)])
  BY DEF Executed
<1> HIDE DEF c
<1>4. Executed("ret", c) = Jump(v, [c EXCEPT !.stack = u])
  BY <1>1, <1>2, <1>3
<1>5. [c EXCEPT !.stack = u] = CpuAt(a, at, i, u, lr, fp)
  BY DEF c, CpuAt
<1>6. Jump(v, CpuAt(a, at, i, u, lr, fp)) = CpuAt(a, Place(v), 1, u, lr, fp)
  BY Jumps
<1> QED
  BY <1>1, <1>4, <1>5, <1>6 DEF c

\* The states between two calls: lr is what the last call left in it.
Idles ==
    {CpuOn("i386", "caller", 1, <<"base">>), CpuOn("x86_64", "caller", 1, <<"base">>),
     CpuOn("aarch64", "caller", 1, <<"base">>),
     CpuAt("aarch64", "caller", 1, <<"base">>, "caller", "base_fp"),
     CpuOn("arm", "caller", 1, <<"base">>),
     CpuAt("arm", "caller", 1, <<"base">>, "caller", "base_fp"),
     CpuAt("arm", "caller", 1, <<"base">>, "fake", "base_fp")}

\* The states of a call through the stub, and of one without it.
ForcedStates ==
    {CpuOn("i386", "stub", 1, <<"caller", "p1", "p2", "fake", "called", "base">>),
     CpuOn("i386", "stub", 2, <<"fake", "p1", "p2", "caller", "called", "base">>),
     CpuOn("i386", "stub", 3, <<"called", "fake", "p1", "p2", "caller", "called", "base">>),
     CpuOn("i386", "linker", 1, <<"fake", "p1", "p2", "caller", "called", "base">>),
     CpuOn("i386", "back", 1, <<"p1", "p2", "caller", "called", "base">>),
     CpuOn("i386", "back", 2, <<"caller", "p1", "p2", "caller", "called", "base">>),
     CpuOn("i386", "caller", 1, <<"p1", "p2", "caller", "called", "base">>),
     CpuOn("x86_64", "stub", 1, <<"caller", "base">>),
     CpuOn("x86_64", "stub", 2, <<"fake", "caller", "base">>),
     CpuOn("x86_64", "linker", 1, <<"fake", "caller", "base">>),
     CpuOn("x86_64", "back", 1, <<"caller", "base">>),
     CpuAt("aarch64", "stub", 1, <<"base">>, "caller", "base_fp"),
     CpuAt("aarch64", "stub", 2, <<"base_fp", "caller", "base">>, "caller", "base_fp"),
     CpuAt("aarch64", "stub", 3, <<"base_fp", "caller", "base">>, "caller", "stub_frame"),
     CpuAt("aarch64", "stub", 4, <<"base_fp", "caller", "base">>, "fake", "stub_frame"),
     CpuAt("aarch64", "linker", 1, <<"base_fp", "caller", "base">>, "fake", "stub_frame"),
     CpuAt("aarch64", "back", 1, <<"base_fp", "caller", "base">>, "fake", "stub_frame"),
     CpuAt("aarch64", "back", 2, <<"base">>, "caller", "base_fp"),
     CpuAt("arm", "stub", 1, <<"base">>, "caller", "base_fp"),
     CpuAt("arm", "stub", 2, <<"caller", "base">>, "caller", "base_fp"),
     CpuAt("arm", "stub", 3, <<"caller", "base">>, "fake", "base_fp"),
     CpuAt("arm", "linker", 1, <<"caller", "base">>, "fake", "base_fp"),
     CpuAt("arm", "back", 1, <<"caller", "base">>, "fake", "base_fp")}

PlainStates ==
    {CpuOn("i386", "linker", 1, <<"caller", "p1", "p2", "base">>),
     CpuOn("i386", "caller", 1, <<"p1", "p2", "base">>),
     CpuOn("x86_64", "linker", 1, <<"caller", "base">>),
     CpuAt("aarch64", "linker", 1, <<"base">>, "caller", "base_fp"),
     CpuAt("arm", "linker", 1, <<"base">>, "caller", "base_fp")}

\* What a step does to the record of calls: a call that asked for a caller in the
\* runtime showed one.
CallsNoted ==
    \/ dlcalls' = dlcalls
    \/ \E saw \in {"caller", "fake"} :
          /\ dlcalls' = Append(dlcalls, [saw |-> saw, sdk |-> sdk])
          /\ sdk >= 24 => saw = "fake"
\* In the stub and on the way back the next instruction is executed.
LEMMA InStub ==
    ASSUME NEW a, NEW i, NEW s, NEW lr, NEW fp, NEW op, op = Stub[a][i],
           cpu = CpuAt(a, "stub", i, s, lr, fp), DlStep
    PROVE  cpu' = Executed(op, CpuAt(a, "stub", i, s, lr, fp)) /\ dlcalls' = dlcalls
<1>1. cpu.at = "stub" /\ cpu.arch = a /\ cpu.i = i
  BY CpuFields
<1>2. Execute
  BY <1>1 DEF DlStep, Call, LinkerReturns, Drop
<1> QED
  BY <1>1, <1>2 DEF Execute, Code

\* On the way back too.
LEMMA InBack ==
    ASSUME NEW a, NEW i, NEW s, NEW lr, NEW fp, NEW op, op = Back[a][i],
           cpu = CpuAt(a, "back", i, s, lr, fp), DlStep
    PROVE  cpu' = Executed(op, CpuAt(a, "back", i, s, lr, fp)) /\ dlcalls' = dlcalls
<1>1. cpu.at = "back" /\ cpu.arch = a /\ cpu.i = i
  BY CpuFields
<1>2. Execute
  BY <1>1 DEF DlStep, Call, LinkerReturns, Drop
<1> QED
  BY <1>1, <1>2 DEF Execute, Code

\* The linker returns to the address it was called with.
LEMMA LinkerByStack ==
    ASSUME NEW a \in {"i386", "x86_64"}, NEW i, NEW s, NEW lr, NEW fp,
           cpu = CpuAt(a, "linker", i, s, lr, fp), DlStep
    PROVE  /\ cpu' = CpuAt(a, Place(s[1]), 1, Tail(s), lr, fp)
           /\ dlcalls' = Append(dlcalls, [saw |-> s[1], sdk |-> sdk])
<1>0. PICK u, v : u = Tail(s) /\ v = s[1]
  OBVIOUS
<1>1. cpu.at = "linker" /\ cpu.arch = a /\ cpu.stack = s
  BY CpuFields
<1>2. LinkerReturns
  BY <1>1 DEF DlStep, Call, Execute, Drop
<1>3. [cpu EXCEPT !.stack = u] = CpuAt(a, "linker", i, u, lr, fp)
  BY DEF CpuAt
<1>4. cpu' = Jump(v, [cpu EXCEPT !.stack = u])
  BY <1>0, <1>1, <1>2 DEF LinkerReturns, ByStack
<1>5. dlcalls' = Append(dlcalls, [saw |-> v, sdk |-> sdk])
  BY <1>0, <1>1, <1>2 DEF LinkerReturns, ByStack
<1>6. Jump(v, CpuAt(a, "linker", i, u, lr, fp)) = CpuAt(a, Place(v), 1, u, lr, fp)
  BY Jumps
<1> QED
  BY <1>0, <1>3, <1>4, <1>5, <1>6

\* On ARM the address is in lr.
LEMMA LinkerByLr ==
    ASSUME NEW a \in {"aarch64", "arm"}, NEW i, NEW s, NEW lr, NEW fp,
           cpu = CpuAt(a, "linker", i, s, lr, fp), DlStep
    PROVE  /\ cpu' = CpuAt(a, Place(lr), 1, s, lr, fp)
           /\ dlcalls' = Append(dlcalls, [saw |-> lr, sdk |-> sdk])
<1>1. cpu.at = "linker" /\ cpu.arch = a /\ cpu.lr = lr
  BY CpuFields
<1>2. LinkerReturns
  BY <1>1 DEF DlStep, Call, Execute, Drop
<1>3. cpu' = Jump(lr, cpu)
  BY <1>1, <1>2 DEF LinkerReturns, ByStack
<1>4. dlcalls' = Append(dlcalls, [saw |-> lr, sdk |-> sdk])
  BY <1>1, <1>2 DEF LinkerReturns, ByStack
<1> QED
  BY <1>3, <1>4, Jumps

\* On i386 the caller drops the arguments it pushed.
LEMMA DropStep ==
    ASSUME NEW s, s # <<"base">>, NEW lr, NEW fp, DlStep,
           cpu = CpuAt("i386", "caller", 1, s, lr, fp)
    PROVE  /\ cpu' = CpuAt("i386", "caller", 1,
                            SubSeq(s, IF sdk >= 24 THEN 5 ELSE 3, Len(s)), lr, fp)
           /\ dlcalls' = dlcalls
<1>0. PICK u : u = SubSeq(s, IF sdk >= 24 THEN 5 ELSE 3, Len(s))
  OBVIOUS
<1>1. cpu.at = "caller" /\ cpu.arch = "i386" /\ cpu.stack = s
  BY CpuFields
<1>2. Drop
  BY <1>1 DEF DlStep, Call, Execute, LinkerReturns
<1>3. cpu' = [cpu EXCEPT !.stack = u] /\ dlcalls' = dlcalls
  BY <1>0, <1>1, <1>2 DEF Drop
<1>4. [cpu EXCEPT !.stack = u] = CpuAt("i386", "caller", 1, u, lr, fp)
  BY DEF CpuAt
<1> QED
  BY <1>0, <1>3, <1>4

\* From state to state of a call through the stub.
LEMMA ForcedSteps ==
    ASSUME sdk \in Nat, sdk >= 24, cpu \in ForcedStates, DlStep
    PROVE  cpu' \in ForcedStates \cup Idles /\ CallsNoted
<1>1. CASE cpu = CpuOn("i386", "stub", 1, <<"caller", "p1", "p2", "fake", "called", "base">>)
  <2>1. PICK s, t : /\ s = <<"caller", "p1", "p2", "fake", "called", "base">>
                    /\ t = <<"fake", "p1", "p2", "caller", "called", "base">>
    OBVIOUS
  <2>2. cpu = CpuAt("i386", "stub", 1, s, "base_lr", "base_fp")
    BY <1>1, <2>1 DEF CpuOn
  <2>3. /\ cpu' = Executed("movl_fake", CpuAt("i386", "stub", 1, s, "base_lr", "base_fp"))
        /\ dlcalls' = dlcalls
    BY <2>2, Instructions, InStub
  <2>4. Swap(s) = t
    BY <2>1, Swapped
  <2>5. Executed("movl_fake", CpuAt("i386", "stub", 1, s, "base_lr", "base_fp"))
          = CpuAt("i386", "stub", 1 + 1, Swap(s), "base_lr", "base_fp")
    BY OpMovl
  <2>6. 1 + 1 = 2
    OBVIOUS
  <2>7. cpu' = CpuAt("i386", "stub", 2, t, "base_lr", "base_fp")
    BY <2>3, <2>4, <2>5, <2>6, Zenon
  <2> QED
    BY <2>1, <2>3, <2>7 DEF ForcedStates, CpuOn, CallsNoted
<1>2. CASE cpu = CpuOn("i386", "stub", 2, <<"fake", "p1", "p2", "caller", "called", "base">>)
  <2>1. PICK s, t : /\ s = <<"fake", "p1", "p2", "caller", "called", "base">>
                    /\ t = <<"called", "fake", "p1", "p2", "caller", "called", "base">>
    OBVIOUS
  <2>2. cpu = CpuAt("i386", "stub", 2, s, "base_lr", "base_fp")
    BY <1>2, <2>1 DEF CpuOn
  <2>3. /\ cpu' = Executed("push_called", CpuAt("i386", "stub", 2, s, "base_lr", "base_fp"))
        /\ dlcalls' = dlcalls
    BY <2>2, Instructions, InStub
  <2>4. <<s[5]>> \o s = t
    BY <2>1, Concat16
  <2>5. Executed("push_called", CpuAt("i386", "stub", 2, s, "base_lr", "base_fp"))
          = CpuAt("i386", "stub", 2 + 1, <<s[5]>> \o s, "base_lr", "base_fp")
    BY OpPushCalled
  <2>6. 2 + 1 = 3
    OBVIOUS
  <2>7. cpu' = CpuAt("i386", "stub", 3, t, "base_lr", "base_fp")
    BY <2>3, <2>4, <2>5, <2>6, Zenon
  <2> QED
    BY <2>1, <2>3, <2>7 DEF ForcedStates, CpuOn, CallsNoted
<1>3. CASE cpu =
             CpuOn("i386", "stub", 3, <<"called", "fake", "p1", "p2", "caller", "called", "base">>)
  <2>1. PICK s, t : /\ s = <<"called", "fake", "p1", "p2", "caller", "called", "base">>
                    /\ t = <<"fake", "p1", "p2", "caller", "called", "base">>
    OBVIOUS
  <2>2. cpu = CpuAt("i386", "stub", 3, s, "base_lr", "base_fp")
    BY <1>3, <2>1 DEF CpuOn
  <2>3. /\ cpu' = Executed("ret", CpuAt("i386", "stub", 3, s, "base_lr", "base_fp"))
        /\ dlcalls' = dlcalls
    BY <2>2, Instructions, InStub
  <2>4. Tail(s) = t /\ s[1] = "called"
    BY <2>1
  <2>5. Executed("ret", CpuAt("i386", "stub", 3, s, "base_lr", "base_fp"))
          = CpuAt("i386", Place(s[1]), 1, Tail(s), "base_lr", "base_fp")
    BY OpRet
  <2>6. cpu' = CpuAt("i386", "linker", 1, t, "base_lr", "base_fp")
    BY <2>3, <2>4, <2>5, Places
  <2> QED
    BY <2>1, <2>3, <2>6 DEF ForcedStates, CpuOn, CallsNoted
<1>4. CASE cpu = CpuOn("i386", "linker", 1, <<"fake", "p1", "p2", "caller", "called", "base">>)
  <2>1. PICK s, t : /\ s = <<"fake", "p1", "p2", "caller", "called", "base">>
                    /\ t = <<"p1", "p2", "caller", "called", "base">>
    OBVIOUS
  <2>2. cpu = CpuAt("i386", "linker", 1, s, "base_lr", "base_fp")
    BY <1>4, <2>1 DEF CpuOn
  <2>3. Tail(s) = t /\ s[1] = "fake"
    BY <2>1
  <2>4. cpu' = CpuAt("i386", "back", 1, t, "base_lr", "base_fp")
    BY <2>2, <2>3, LinkerByStack, Places
  <2>5. dlcalls' = Append(dlcalls, [saw |-> "fake", sdk |-> sdk])
    BY <2>2, <2>3, LinkerByStack
  <2> QED
    BY <2>1, <2>4, <2>5 DEF ForcedStates, CpuOn, CallsNoted
<1>5. CASE cpu = CpuOn("i386", "back", 1, <<"p1", "p2", "caller", "called", "base">>)
  <2>1. PICK s, t : /\ s = <<"p1", "p2", "caller", "called", "base">>
                    /\ t = <<"caller", "p1", "p2", "caller", "called", "base">>
    OBVIOUS
  <2>2. cpu = CpuAt("i386", "back", 1, s, "base_lr", "base_fp")
    BY <1>5, <2>1 DEF CpuOn
  <2>3. /\ cpu' = Executed("push_third", CpuAt("i386", "back", 1, s, "base_lr", "base_fp"))
        /\ dlcalls' = dlcalls
    BY <2>2, Instructions, InBack
  <2>4. <<s[3]>> \o s = t
    BY <2>1, Concat15
  <2>5. Executed("push_third", CpuAt("i386", "back", 1, s, "base_lr", "base_fp"))
          = CpuAt("i386", "back", 1 + 1, <<s[3]>> \o s, "base_lr", "base_fp")
    BY OpPushThird
  <2>6. 1 + 1 = 2
    OBVIOUS
  <2>7. cpu' = CpuAt("i386", "back", 2, t, "base_lr", "base_fp")
    BY <2>3, <2>4, <2>5, <2>6, Zenon
  <2> QED
    BY <2>1, <2>3, <2>7 DEF ForcedStates, CpuOn, CallsNoted
<1>6. CASE cpu = CpuOn("i386", "back", 2, <<"caller", "p1", "p2", "caller", "called", "base">>)
  <2>1. PICK s, t : /\ s = <<"caller", "p1", "p2", "caller", "called", "base">>
                    /\ t = <<"p1", "p2", "caller", "called", "base">>
    OBVIOUS
  <2>2. cpu = CpuAt("i386", "back", 2, s, "base_lr", "base_fp")
    BY <1>6, <2>1 DEF CpuOn
  <2>3. /\ cpu' = Executed("ret", CpuAt("i386", "back", 2, s, "base_lr", "base_fp"))
        /\ dlcalls' = dlcalls
    BY <2>2, Instructions, InBack
  <2>4. Tail(s) = t /\ s[1] = "caller"
    BY <2>1
  <2>5. Executed("ret", CpuAt("i386", "back", 2, s, "base_lr", "base_fp"))
          = CpuAt("i386", Place(s[1]), 1, Tail(s), "base_lr", "base_fp")
    BY OpRet
  <2>6. cpu' = CpuAt("i386", "caller", 1, t, "base_lr", "base_fp")
    BY <2>3, <2>4, <2>5, Places
  <2> QED
    BY <2>1, <2>3, <2>6 DEF ForcedStates, CpuOn, CallsNoted
<1>7. CASE cpu = CpuOn("i386", "caller", 1, <<"p1", "p2", "caller", "called", "base">>)
  <2>1. PICK s, t : s = <<"p1", "p2", "caller", "called", "base">> /\ t = <<"base">>
    OBVIOUS
  <2>2. cpu = CpuAt("i386", "caller", 1, s, "base_lr", "base_fp")
    BY <1>7, <2>1 DEF CpuOn
  <2>3. SubSeq(s, 5, Len(s)) = t /\ s # <<"base">>
    BY <2>1, Sub555
  <2>4. cpu' = CpuAt("i386", "caller", 1, t, "base_lr", "base_fp") /\ dlcalls' = dlcalls
    BY <2>2, <2>3, DropStep
  <2> QED
    BY <2>1, <2>4 DEF Idles, CpuOn, CallsNoted
<1>8. CASE cpu = CpuOn("x86_64", "stub", 1, <<"caller", "base">>)
  <2>1. PICK s, t : s = <<"caller", "base">> /\ t = <<"fake", "caller", "base">>
    OBVIOUS
  <2>2. cpu = CpuAt("x86_64", "stub", 1, s, "base_lr", "base_fp")
    BY <1>8, <2>1 DEF CpuOn
  <2>3. /\ cpu' = Executed("push_fake", CpuAt("x86_64", "stub", 1, s, "base_lr", "base_fp"))
        /\ dlcalls' = dlcalls
    BY <2>2, Instructions, InStub
  <2>4. <<"fake">> \o s = t
    BY <2>1, Concat12
  <2>5. Executed("push_fake", CpuAt("x86_64", "stub", 1, s, "base_lr", "base_fp"))
          = CpuAt("x86_64", "stub", 1 + 1, <<"fake">> \o s, "base_lr", "base_fp")
    BY OpPushFake
  <2>6. 1 + 1 = 2
    OBVIOUS
  <2>7. cpu' = CpuAt("x86_64", "stub", 2, t, "base_lr", "base_fp")
    BY <2>3, <2>4, <2>5, <2>6, Zenon
  <2> QED
    BY <2>1, <2>3, <2>7 DEF ForcedStates, CpuOn, CallsNoted
<1>9. CASE cpu = CpuOn("x86_64", "stub", 2, <<"fake", "caller", "base">>)
  <2>1. PICK s, t : s = <<"fake", "caller", "base">> /\ t = <<"fake", "caller", "base">>
    OBVIOUS
  <2>2. cpu = CpuAt("x86_64", "stub", 2, s, "base_lr", "base_fp")
    BY <1>9, <2>1 DEF CpuOn
  <2>3. /\ cpu' = Executed("jmp_called", CpuAt("x86_64", "stub", 2, s, "base_lr", "base_fp"))
        /\ dlcalls' = dlcalls
    BY <2>2, Instructions, InStub
  <2>4. s = t
    BY <2>1
  <2>5. cpu' = CpuAt("x86_64", "linker", 1, t, "base_lr", "base_fp")
    BY <2>3, <2>4, OpJmp
  <2> QED
    BY <2>1, <2>3, <2>5 DEF ForcedStates, CpuOn, CallsNoted
<1>10. CASE cpu = CpuOn("x86_64", "linker", 1, <<"fake", "caller", "base">>)
  <2>1. PICK s, t : s = <<"fake", "caller", "base">> /\ t = <<"caller", "base">>
    OBVIOUS
  <2>2. cpu = CpuAt("x86_64", "linker", 1, s, "base_lr", "base_fp")
    BY <1>10, <2>1 DEF CpuOn
  <2>3. Tail(s) = t /\ s[1] = "fake"
    BY <2>1
  <2>4. cpu' = CpuAt("x86_64", "back", 1, t, "base_lr", "base_fp")
    BY <2>2, <2>3, LinkerByStack, Places
  <2>5. dlcalls' = Append(dlcalls, [saw |-> "fake", sdk |-> sdk])
    BY <2>2, <2>3, LinkerByStack
  <2> QED
    BY <2>1, <2>4, <2>5 DEF ForcedStates, CpuOn, CallsNoted
<1>11. CASE cpu = CpuOn("x86_64", "back", 1, <<"caller", "base">>)
  <2>1. PICK s, t : s = <<"caller", "base">> /\ t = <<"base">>
    OBVIOUS
  <2>2. cpu = CpuAt("x86_64", "back", 1, s, "base_lr", "base_fp")
    BY <1>11, <2>1 DEF CpuOn
  <2>3. /\ cpu' = Executed("ret", CpuAt("x86_64", "back", 1, s, "base_lr", "base_fp"))
        /\ dlcalls' = dlcalls
    BY <2>2, Instructions, InBack
  <2>4. Tail(s) = t /\ s[1] = "caller"
    BY <2>1
  <2>5. Executed("ret", CpuAt("x86_64", "back", 1, s, "base_lr", "base_fp"))
          = CpuAt("x86_64", Place(s[1]), 1, Tail(s), "base_lr", "base_fp")
    BY OpRet
  <2>6. cpu' = CpuAt("x86_64", "caller", 1, t, "base_lr", "base_fp")
    BY <2>3, <2>4, <2>5, Places
  <2> QED
    BY <2>1, <2>3, <2>6 DEF Idles, CpuOn, CallsNoted
<1>12. CASE cpu = CpuAt("aarch64", "stub", 1, <<"base">>, "caller", "base_fp")
  <2>1. PICK s, t : s = <<"base">> /\ t = <<"base_fp", "caller", "base">>
    OBVIOUS
  <2>2. cpu = CpuAt("aarch64", "stub", 1, s, "caller", "base_fp")
    BY <1>12, <2>1
  <2>3. /\ cpu' = Executed("stp_fp_lr", CpuAt("aarch64", "stub", 1, s, "caller", "base_fp"))
        /\ dlcalls' = dlcalls
    BY <2>2, Instructions, InStub
  <2>4. <<"base_fp", "caller">> \o s = t
    BY <2>1, Concat21
  <2>5. Executed("stp_fp_lr", CpuAt("aarch64", "stub", 1, s, "caller", "base_fp"))
          = CpuAt("aarch64", "stub", 1 + 1, <<"base_fp", "caller">> \o s, "caller", "base_fp")
    BY OpStp
  <2>6. 1 + 1 = 2
    OBVIOUS
  <2>7. cpu' = CpuAt("aarch64", "stub", 2, t, "caller", "base_fp")
    BY <2>3, <2>4, <2>5, <2>6, Zenon
  <2> QED
    BY <2>1, <2>3, <2>7 DEF ForcedStates, CallsNoted
<1>13. CASE cpu =
             CpuAt("aarch64", "stub", 2, <<"base_fp", "caller", "base">>, "caller", "base_fp")
  <2>1. PICK s, t : s = <<"base_fp", "caller", "base">> /\ t = <<"base_fp", "caller", "base">>
    OBVIOUS
  <2>2. cpu = CpuAt("aarch64", "stub", 2, s, "caller", "base_fp")
    BY <1>13, <2>1
  <2>3. /\ cpu' = Executed("mov_fp", CpuAt("aarch64", "stub", 2, s, "caller", "base_fp"))
        /\ dlcalls' = dlcalls
    BY <2>2, Instructions, InStub
  <2>4. s = t /\ 2 + 1 = 3
    BY <2>1
  <2>5. Executed("mov_fp", CpuAt("aarch64", "stub", 2, s, "caller", "base_fp"))
          = CpuAt("aarch64", "stub", 2 + 1, s, "caller", "stub_frame")
    BY OpMoves
  <2>6. cpu' = CpuAt("aarch64", "stub", 3, t, "caller", "stub_frame")
    BY <2>3, <2>4, <2>5, Zenon
  <2> QED
    BY <2>1, <2>3, <2>6 DEF ForcedStates, CallsNoted
<1>14. CASE cpu =
             CpuAt("aarch64", "stub", 3, <<"base_fp", "caller", "base">>, "caller", "stub_frame")
  <2>1. PICK s, t : s = <<"base_fp", "caller", "base">> /\ t = <<"base_fp", "caller", "base">>
    OBVIOUS
  <2>2. cpu = CpuAt("aarch64", "stub", 3, s, "caller", "stub_frame")
    BY <1>14, <2>1
  <2>3. /\ cpu' = Executed("mov_lr_fake", CpuAt("aarch64", "stub", 3, s, "caller", "stub_frame"))
        /\ dlcalls' = dlcalls
    BY <2>2, Instructions, InStub
  <2>4. s = t /\ 3 + 1 = 4
    BY <2>1
  <2>5. Executed("mov_lr_fake", CpuAt("aarch64", "stub", 3, s, "caller", "stub_frame"))
          = CpuAt("aarch64", "stub", 3 + 1, s, "fake", "stub_frame")
    BY OpMoves
  <2>6. cpu' = CpuAt("aarch64", "stub", 4, t, "fake", "stub_frame")
    BY <2>3, <2>4, <2>5, Zenon
  <2> QED
    BY <2>1, <2>3, <2>6 DEF ForcedStates, CallsNoted
<1>15. CASE cpu =
             CpuAt("aarch64", "stub", 4, <<"base_fp", "caller", "base">>, "fake", "stub_frame")
  <2>1. PICK s, t : s = <<"base_fp", "caller", "base">> /\ t = <<"base_fp", "caller", "base">>
    OBVIOUS
  <2>2. cpu = CpuAt("aarch64", "stub", 4, s, "fake", "stub_frame")
    BY <1>15, <2>1
  <2>3. /\ cpu' = Executed("jmp_called", CpuAt("aarch64", "stub", 4, s, "fake", "stub_frame"))
        /\ dlcalls' = dlcalls
    BY <2>2, Instructions, InStub
  <2>4. s = t
    BY <2>1
  <2>5. cpu' = CpuAt("aarch64", "linker", 1, t, "fake", "stub_frame")
    BY <2>3, <2>4, OpJmp
  <2> QED
    BY <2>1, <2>3, <2>5 DEF ForcedStates, CallsNoted
<1>16. CASE cpu =
             CpuAt("aarch64", "linker", 1, <<"base_fp", "caller", "base">>, "fake", "stub_frame")
  <2>1. PICK s, t : s = <<"base_fp", "caller", "base">> /\ t = <<"base_fp", "caller", "base">>
    OBVIOUS
  <2>2. cpu = CpuAt("aarch64", "linker", 1, s, "fake", "stub_frame")
    BY <1>16, <2>1
  <2>3. s = t
    BY <2>1
  <2>4. cpu' = CpuAt("aarch64", "back", 1, t, "fake", "stub_frame")
    BY <2>2, <2>3, LinkerByLr, Places
  <2>5. dlcalls' = Append(dlcalls, [saw |-> "fake", sdk |-> sdk])
    BY <2>2, LinkerByLr
  <2> QED
    BY <2>1, <2>4, <2>5 DEF ForcedStates, CallsNoted
<1>17. CASE cpu =
             CpuAt("aarch64", "back", 1, <<"base_fp", "caller", "base">>, "fake", "stub_frame")
  <2>1. PICK s, t : s = <<"base_fp", "caller", "base">> /\ t = <<"base">>
    OBVIOUS
  <2>2. cpu = CpuAt("aarch64", "back", 1, s, "fake", "stub_frame")
    BY <1>17, <2>1
  <2>3. /\ cpu' = Executed("ldp_fp_lr", CpuAt("aarch64", "back", 1, s, "fake", "stub_frame"))
        /\ dlcalls' = dlcalls
    BY <2>2, Instructions, InBack
  <2>4. SubSeq(s, 3, Len(s)) = t /\ s[1] = "base_fp" /\ s[2] = "caller"
    BY <2>1, Sub333
  <2>5. Executed("ldp_fp_lr", CpuAt("aarch64", "back", 1, s, "fake", "stub_frame"))
          = CpuAt("aarch64", "back", 1 + 1, SubSeq(s, 3, Len(s)), s[2], s[1])
    BY OpLdp
  <2>6. 1 + 1 = 2
    OBVIOUS
  <2>7. cpu' = CpuAt("aarch64", "back", 2, t, "caller", "base_fp")
    BY <2>3, <2>4, <2>5, <2>6, Zenon
  <2> QED
    BY <2>1, <2>3, <2>7 DEF ForcedStates, CallsNoted
<1>18. CASE cpu = CpuAt("aarch64", "back", 2, <<"base">>, "caller", "base_fp")
  <2>1. PICK s, t : s = <<"base">> /\ t = <<"base">>
    OBVIOUS
  <2>2. cpu = CpuAt("aarch64", "back", 2, s, "caller", "base_fp")
    BY <1>18, <2>1
  <2>3. /\ cpu' = Executed("bx_lr", CpuAt("aarch64", "back", 2, s, "caller", "base_fp"))
        /\ dlcalls' = dlcalls
    BY <2>2, Instructions, InBack
  <2>4. s = t
    BY <2>1
  <2>5. cpu' = CpuAt("aarch64", "caller", 1, t, "caller", "base_fp")
    BY <2>3, <2>4, OpBx, Places
  <2> QED
    BY <2>1, <2>3, <2>5 DEF Idles, CallsNoted
<1>19. CASE cpu = CpuAt("arm", "stub", 1, <<"base">>, "caller", "base_fp")
  <2>1. PICK s, t : s = <<"base">> /\ t = <<"caller", "base">>
    OBVIOUS
  <2>2. cpu = CpuAt("arm", "stub", 1, s, "caller", "base_fp")
    BY <1>19, <2>1
  <2>3. /\ cpu' = Executed("str_lr", CpuAt("arm", "stub", 1, s, "caller", "base_fp"))
        /\ dlcalls' = dlcalls
    BY <2>2, Instructions, InStub
  <2>4. <<"caller">> \o s = t
    BY <2>1, Concat11
  <2>5. Executed("str_lr", CpuAt("arm", "stub", 1, s, "caller", "base_fp"))
          = CpuAt("arm", "stub", 1 + 1, <<"caller">> \o s, "caller", "base_fp")
    BY OpStr
  <2>6. 1 + 1 = 2
    OBVIOUS
  <2>7. cpu' = CpuAt("arm", "stub", 2, t, "caller", "base_fp")
    BY <2>3, <2>4, <2>5, <2>6, Zenon
  <2> QED
    BY <2>1, <2>3, <2>7 DEF ForcedStates, CallsNoted
<1>20. CASE cpu = CpuAt("arm", "stub", 2, <<"caller", "base">>, "caller", "base_fp")
  <2>1. PICK s, t : s = <<"caller", "base">> /\ t = <<"caller", "base">>
    OBVIOUS
  <2>2. cpu = CpuAt("arm", "stub", 2, s, "caller", "base_fp")
    BY <1>20, <2>1
  <2>3. /\ cpu' = Executed("mov_lr_fake", CpuAt("arm", "stub", 2, s, "caller", "base_fp"))
        /\ dlcalls' = dlcalls
    BY <2>2, Instructions, InStub
  <2>4. s = t /\ 2 + 1 = 3
    BY <2>1
  <2>5. Executed("mov_lr_fake", CpuAt("arm", "stub", 2, s, "caller", "base_fp"))
          = CpuAt("arm", "stub", 2 + 1, s, "fake", "base_fp")
    BY OpMoves
  <2>6. cpu' = CpuAt("arm", "stub", 3, t, "fake", "base_fp")
    BY <2>3, <2>4, <2>5, Zenon
  <2> QED
    BY <2>1, <2>3, <2>6 DEF ForcedStates, CallsNoted
<1>21. CASE cpu = CpuAt("arm", "stub", 3, <<"caller", "base">>, "fake", "base_fp")
  <2>1. PICK s, t : s = <<"caller", "base">> /\ t = <<"caller", "base">>
    OBVIOUS
  <2>2. cpu = CpuAt("arm", "stub", 3, s, "fake", "base_fp")
    BY <1>21, <2>1
  <2>3. /\ cpu' = Executed("jmp_called", CpuAt("arm", "stub", 3, s, "fake", "base_fp"))
        /\ dlcalls' = dlcalls
    BY <2>2, Instructions, InStub
  <2>4. s = t
    BY <2>1
  <2>5. cpu' = CpuAt("arm", "linker", 1, t, "fake", "base_fp")
    BY <2>3, <2>4, OpJmp
  <2> QED
    BY <2>1, <2>3, <2>5 DEF ForcedStates, CallsNoted
<1>22. CASE cpu = CpuAt("arm", "linker", 1, <<"caller", "base">>, "fake", "base_fp")
  <2>1. PICK s, t : s = <<"caller", "base">> /\ t = <<"caller", "base">>
    OBVIOUS
  <2>2. cpu = CpuAt("arm", "linker", 1, s, "fake", "base_fp")
    BY <1>22, <2>1
  <2>3. s = t
    BY <2>1
  <2>4. cpu' = CpuAt("arm", "back", 1, t, "fake", "base_fp")
    BY <2>2, <2>3, LinkerByLr, Places
  <2>5. dlcalls' = Append(dlcalls, [saw |-> "fake", sdk |-> sdk])
    BY <2>2, LinkerByLr
  <2> QED
    BY <2>1, <2>4, <2>5 DEF ForcedStates, CallsNoted
<1>23. CASE cpu = CpuAt("arm", "back", 1, <<"caller", "base">>, "fake", "base_fp")
  <2>1. PICK s, t : s = <<"caller", "base">> /\ t = <<"base">>
    OBVIOUS
  <2>2. cpu = CpuAt("arm", "back", 1, s, "fake", "base_fp")
    BY <1>23, <2>1
  <2>3. /\ cpu' = Executed("ret", CpuAt("arm", "back", 1, s, "fake", "base_fp"))
        /\ dlcalls' = dlcalls
    BY <2>2, Instructions, InBack
  <2>4. Tail(s) = t /\ s[1] = "caller"
    BY <2>1
  <2>5. Executed("ret", CpuAt("arm", "back", 1, s, "fake", "base_fp"))
          = CpuAt("arm", Place(s[1]), 1, Tail(s), "fake", "base_fp")
    BY OpRet
  <2>6. cpu' = CpuAt("arm", "caller", 1, t, "fake", "base_fp")
    BY <2>3, <2>4, <2>5, Places
  <2> QED
    BY <2>1, <2>3, <2>6 DEF Idles, CallsNoted
<1> QED
  BY <1>1, <1>2, <1>3, <1>4, <1>5, <1>6, <1>7, <1>8, <1>9, <1>10, <1>11, <1>12, <1>13,
     <1>14, <1>15, <1>16, <1>17, <1>18, <1>19, <1>20, <1>21, <1>22, <1>23, Zenon DEF ForcedStates

\* The same for a call made directly.
LEMMA PlainSteps ==
    ASSUME sdk \in Nat, ~(sdk >= 24), cpu \in PlainStates, DlStep
    PROVE  cpu' \in PlainStates \cup Idles /\ CallsNoted
<1>1. CASE cpu = CpuOn("i386", "linker", 1, <<"caller", "p1", "p2", "base">>)
  <2>1. PICK s, t : s = <<"caller", "p1", "p2", "base">> /\ t = <<"p1", "p2", "base">>
    OBVIOUS
  <2>2. cpu = CpuAt("i386", "linker", 1, s, "base_lr", "base_fp")
    BY <1>1, <2>1 DEF CpuOn
  <2>3. Tail(s) = t /\ s[1] = "caller"
    BY <2>1
  <2>4. cpu' = CpuAt("i386", "caller", 1, t, "base_lr", "base_fp")
    BY <2>2, <2>3, LinkerByStack, Places
  <2>5. dlcalls' = Append(dlcalls, [saw |-> "caller", sdk |-> sdk])
    BY <2>2, <2>3, LinkerByStack
  <2> QED
    BY <2>1, <2>4, <2>5 DEF PlainStates, CpuOn, CallsNoted
<1>2. CASE cpu = CpuOn("i386", "caller", 1, <<"p1", "p2", "base">>)
  <2>1. PICK s, t : s = <<"p1", "p2", "base">> /\ t = <<"base">>
    OBVIOUS
  <2>2. cpu = CpuAt("i386", "caller", 1, s, "base_lr", "base_fp")
    BY <1>2, <2>1 DEF CpuOn
  <2>3. SubSeq(s, 3, Len(s)) = t /\ s # <<"base">>
    BY <2>1, Sub333
  <2>4. cpu' = CpuAt("i386", "caller", 1, t, "base_lr", "base_fp") /\ dlcalls' = dlcalls
    BY <2>2, <2>3, DropStep
  <2> QED
    BY <2>1, <2>4 DEF Idles, CpuOn, CallsNoted
<1>3. CASE cpu = CpuOn("x86_64", "linker", 1, <<"caller", "base">>)
  <2>1. PICK s, t : s = <<"caller", "base">> /\ t = <<"base">>
    OBVIOUS
  <2>2. cpu = CpuAt("x86_64", "linker", 1, s, "base_lr", "base_fp")
    BY <1>3, <2>1 DEF CpuOn
  <2>3. Tail(s) = t /\ s[1] = "caller"
    BY <2>1
  <2>4. cpu' = CpuAt("x86_64", "caller", 1, t, "base_lr", "base_fp")
    BY <2>2, <2>3, LinkerByStack, Places
  <2>5. dlcalls' = Append(dlcalls, [saw |-> "caller", sdk |-> sdk])
    BY <2>2, <2>3, LinkerByStack
  <2> QED
    BY <2>1, <2>4, <2>5 DEF Idles, CpuOn, CallsNoted
<1>4. CASE cpu = CpuAt("aarch64", "linker", 1, <<"base">>, "caller", "base_fp")
  <2>1. PICK s, t : s = <<"base">> /\ t = <<"base">>
    OBVIOUS
  <2>2. cpu = CpuAt("aarch64", "linker", 1, s, "caller", "base_fp")
    BY <1>4, <2>1
  <2>3. s = t
    BY <2>1
  <2>4. cpu' = CpuAt("aarch64", "caller", 1, t, "caller", "base_fp")
    BY <2>2, <2>3, LinkerByLr, Places
  <2>5. dlcalls' = Append(dlcalls, [saw |-> "caller", sdk |-> sdk])
    BY <2>2, LinkerByLr
  <2> QED
    BY <2>1, <2>4, <2>5 DEF Idles, CallsNoted
<1>5. CASE cpu = CpuAt("arm", "linker", 1, <<"base">>, "caller", "base_fp")
  <2>1. PICK s, t : s = <<"base">> /\ t = <<"base">>
    OBVIOUS
  <2>2. cpu = CpuAt("arm", "linker", 1, s, "caller", "base_fp")
    BY <1>5, <2>1
  <2>3. s = t
    BY <2>1
  <2>4. cpu' = CpuAt("arm", "caller", 1, t, "caller", "base_fp")
    BY <2>2, <2>3, LinkerByLr, Places
  <2>5. dlcalls' = Append(dlcalls, [saw |-> "caller", sdk |-> sdk])
    BY <2>2, LinkerByLr
  <2> QED
    BY <2>1, <2>4, <2>5 DEF Idles, CallsNoted
<1> QED
  BY <1>1, <1>2, <1>3, <1>4, <1>5 DEF PlainStates

\* What a call of the caller puts on the stack.
CallStack(a, forced) ==
    CASE a = "i386" /\ forced -> <<"caller", "p1", "p2", "fake", "called", "base">>
      [] a = "i386" /\ ~forced -> <<"caller", "p1", "p2", "base">>
      [] a = "x86_64" -> <<"caller", "base">>
      [] OTHER -> <<"base">>

\* The caller's step.
LEMMA CallStep ==
    ASSUME NEW a, NEW lr, cpu = CpuAt(a, "caller", 1, <<"base">>, lr, "base_fp"), DlStep
    PROVE  /\ dlcalls' = dlcalls
           /\ cpu' = CpuAt(a, IF sdk >= 24 THEN "stub" ELSE "linker", 1, CallStack(a, sdk >= 24),
                        IF a \in ByStack THEN lr ELSE "caller", "base_fp")
<1>1. cpu.at = "caller" /\ cpu.arch = a /\ cpu.stack = <<"base">> /\ cpu.lr = lr
  BY CpuFields
<1>2. Call
  BY <1>1 DEF DlStep, Execute, LinkerReturns, Drop
<1> DEFINE pushed == (IF a \in ByStack THEN <<"caller">> ELSE <<>>)
                       \o (IF a = "i386" THEN Args(sdk >= 24) ELSE <<>>) \o <<"base">>
<1>3. PICK t, u, to : /\ t = pushed /\ u = (IF a \in ByStack THEN lr ELSE "caller")
                      /\ to = (IF sdk >= 24 THEN "stub" ELSE "linker")
  OBVIOUS
<1>4. cpu' = [cpu EXCEPT !.at = to, !.i = 1, !.stack = t, !.lr = u] /\ dlcalls' = dlcalls
  BY <1>1, <1>2, <1>3 DEF Call
<1>5. [cpu EXCEPT !.at = to] = CpuAt(a, to, 1, <<"base">>, lr, "base_fp")
  BY DEF CpuAt
<1>6. [CpuAt(a, to, 1, <<"base">>, lr, "base_fp") EXCEPT !.i = 1]
          = CpuAt(a, to, 1, <<"base">>, lr, "base_fp")
  BY DEF CpuAt
<1>7. [CpuAt(a, to, 1, <<"base">>, lr, "base_fp") EXCEPT !.stack = t]
          = CpuAt(a, to, 1, t, lr, "base_fp")
  BY DEF CpuAt
<1>8. [CpuAt(a, to, 1, t, lr, "base_fp") EXCEPT !.lr = u] = CpuAt(a, to, 1, t, u, "base_fp")
  BY DEF CpuAt
<1>9. cpu' = CpuAt(a, to, 1, t, u, "base_fp")
  BY <1>4, <1>5, <1>6, <1>7, <1>8
<1>10. pushed = CallStack(a, sdk >= 24)
  <2>1. CASE a = "i386"
    <3>1. CASE sdk >= 24
      <4>1. pushed = <<"caller">> \o <<"p1", "p2", "fake", "called">> \o <<"base">>
        BY <2>1, <3>1 DEF ByStack, Args
      <4>2. <<"caller">> \o <<"p1", "p2", "fake", "called">>
          = <<"caller", "p1", "p2", "fake", "called">>
        BY Concat14
      <4>3. <<"caller", "p1", "p2", "fake", "called">> \o <<"base">>
          = <<"caller", "p1", "p2", "fake", "called", "base">>
        BY Concat51
      <4> QED
        BY <2>1, <3>1, <4>1, <4>2, <4>3, Zenon DEF CallStack
    <3>2. CASE ~(sdk >= 24)
      <4>1. pushed = <<"caller">> \o <<"p1", "p2">> \o <<"base">>
        BY <2>1, <3>2 DEF ByStack, Args
      <4>2. <<"caller">> \o <<"p1", "p2">> = <<"caller", "p1", "p2">>
        BY Concat12
      <4>3. <<"caller", "p1", "p2">> \o <<"base">> = <<"caller", "p1", "p2", "base">>
        BY Concat31
      <4> QED
        BY <2>1, <3>2, <4>1, <4>2, <4>3, Zenon DEF CallStack
    <3> QED
      BY <3>1, <3>2
  <2>2. CASE a = "x86_64"
    <3>1. pushed = <<"caller">> \o <<>> \o <<"base">>
      BY <2>2 DEF ByStack
    <3>2. <<"caller">> \o <<>> = <<"caller">>
      OBVIOUS
    <3>3. <<"caller">> \o <<"base">> = <<"caller", "base">>
      BY Concat11
    <3> QED
      BY <2>2, <3>1, <3>2, <3>3 DEF CallStack
  <2>3. CASE a \notin {"i386", "x86_64"}
    <3>1. pushed = <<>> \o <<>> \o <<"base">>
      BY <2>3 DEF ByStack
    <3>2. <<>> \o <<>> \o <<"base">> = <<"base">>
      OBVIOUS
    <3> QED
      BY <2>3, <3>1, <3>2 DEF CallStack
  <2> QED
    BY <2>1, <2>2, <2>3
<1> QED
  BY <1>3, <1>4, <1>9, <1>10

\* A call starts in the stub or in the linker.
LEMMA IdleSteps ==
    ASSUME cpu \in Idles, DlStep
    PROVE  /\ sdk >= 24 => cpu' \in ForcedStates
           /\ ~(sdk >= 24) => cpu' \in PlainStates
           /\ CallsNoted
<1>1. PICK a \in {"i386", "x86_64", "aarch64", "arm"}, lr \in {"base_lr", "caller", "fake"} :
        /\ cpu = CpuAt(a, "caller", 1, <<"base">>, lr, "base_fp")
        /\ a \in {"i386", "x86_64"} => lr = "base_lr"
  BY DEF Idles, CpuOn
<1>2. PICK s, v, to : /\ s = CallStack(a, sdk >= 24)
                      /\ v = (IF a \in ByStack THEN lr ELSE "caller")
                      /\ to = (IF sdk >= 24 THEN "stub" ELSE "linker")
  OBVIOUS
<1>3. dlcalls' = dlcalls /\ cpu' = CpuAt(a, to, 1, s, v, "base_fp")
  BY <1>1, <1>2, CallStep
<1>4. v = IF a \in {"i386", "x86_64"} THEN "base_lr" ELSE "caller"
  BY <1>1, <1>2 DEF ByStack
<1>5. CASE sdk >= 24
  <2>1. to = "stub" /\ s = CASE a = "i386" -> <<"caller", "p1", "p2", "fake", "called", "base">>
                             [] a = "x86_64" -> <<"caller", "base">>
                             [] OTHER -> <<"base">>
    BY <1>2, <1>5 DEF CallStack
  <2>2. cpu' \in ForcedStates
    BY <1>1, <1>3, <1>4, <2>1 DEF ForcedStates, CpuOn
  <2> QED
    BY <1>3, <1>5, <2>2 DEF CallsNoted
<1>6. CASE ~(sdk >= 24)
  <2>1. to = "linker" /\ s = CASE a = "i386" -> <<"caller", "p1", "p2", "base">>
                               [] a = "x86_64" -> <<"caller", "base">>
                               [] OTHER -> <<"base">>
    BY <1>2, <1>6 DEF CallStack
  <2>2. cpu' \in PlainStates
    BY <1>1, <1>3, <1>4, <2>1 DEF PlainStates, CpuOn
  <2> QED
    BY <1>3, <1>6, <2>2 DEF CallsNoted
<1> QED
  BY <1>5, <1>6

Sightings == [saw : {"caller", "fake"}, sdk : Nat]

SawInv ==
    /\ dlcalls \in Seq(Sightings)
    /\ \A i \in 1 .. Len(dlcalls) : dlcalls[i].sdk >= 24 => dlcalls[i].saw = "fake"

PatchInv ==
    /\ fatal \in [offset : Nat, pages : {0, 1, 2}]
    /\ sdk >= 24 => fatal.offset + PatchBytes <= fatal.pages * Page

CpuInv ==
    \/ cpu \in Idles
    \/ sdk >= 24 /\ cpu \in ForcedStates
    \/ ~(sdk >= 24) /\ cpu \in PlainStates

(* The processor is between two calls or at one of the points that the calls of  *)
(* its architecture pass, with the stack, lr and frame pointer of that point.    *)
DlInv ==
    /\ level \in {23, 24} /\ sdk \in {0, level}
    /\ CpuInv /\ SawInv /\ PatchInv

\* The record of calls stays as it is described.
LEMMA SawStep ==
    ASSUME SawInv, sdk \in Nat, CallsNoted PROVE SawInv'
<1>1. CASE dlcalls' = dlcalls
  BY <1>1 DEF SawInv
<1>2. CASE dlcalls' # dlcalls
  <2>0. PICK saw \in {"caller", "fake"} : /\ dlcalls' = Append(dlcalls, [saw |-> saw, sdk |-> sdk])
                                          /\ sdk >= 24 => saw = "fake"
    BY <1>2, Zenon DEF CallsNoted
  <2>1. PICK r : r = [saw |-> saw, sdk |-> sdk]
    OBVIOUS
  <2>2. r \in Sightings /\ (r.sdk >= 24 => r.saw = "fake")
    BY <2>0, <2>1 DEF Sightings
  <2>3. dlcalls' = Append(dlcalls, r)
    BY <2>0, <2>1
  <2>4. dlcalls' \in Seq(Sightings) /\ Len(dlcalls') = Len(dlcalls) + 1
    BY <2>2, <2>3 DEF SawInv
  <2>5. ASSUME NEW i \in 1 .. Len(dlcalls') PROVE dlcalls'[i].sdk >= 24 => dlcalls'[i].saw = "fake"
    <3>1. CASE i = Len(dlcalls) + 1
      BY <2>2, <2>3, <3>1 DEF SawInv
    <3>2. CASE i # Len(dlcalls) + 1
      <4>1. i \in 1 .. Len(dlcalls) /\ dlcalls'[i] = dlcalls[i]
        BY <2>2, <2>3, <2>4, <3>2 DEF SawInv
      <4> QED
        BY <4>1 DEF SawInv
    <3> QED
      BY <3>1, <3>2
  <2> QED
    BY <2>4, <2>5 DEF SawInv
<1> QED
  BY <1>1, <1>2

\* Before ndk_init nothing was called.
LEMMA DlInitInv == DlInit => DlInv
<1> SUFFICES ASSUME DlInit PROVE DlInv
  OBVIOUS
<1>1. PICK a \in {"i386", "x86_64", "aarch64", "arm"} : cpu = Idle(a)
  BY DlBounds DEF DlInit
<1>2. CpuInv
  BY <1>1 DEF CpuInv, Idles, CpuOn, CpuAt, Idle
<1>3. SawInv
  BY DEF DlInit, SawInv
<1>4. fatal = [offset |-> 0, pages |-> 0] /\ sdk = 0 /\ level \in {23, 24}
  BY DEF DlInit
<1>5. PatchInv
  BY <1>4 DEF PatchInv
<1> QED
  BY <1>2, <1>3, <1>4, <1>5 DEF DlInv

\* The invariant is inductive.
LEMMA DlStepInv == DlInv /\ [DlNext]_dlVars => DlInv'
<1> SUFFICES ASSUME DlInv, [DlNext]_dlVars PROVE DlInv'
  OBVIOUS
<1>0. sdk \in Nat /\ level \in {23, 24} /\ sdk \in {0, level}
  BY DEF DlInv
<1>1. ASSUME NEW offset \in 0 .. Page - 1, ndk_init(offset) PROVE DlInv'
  <2>1. sdk' = level /\ level' = level /\ cpu' = cpu /\ dlcalls' = dlcalls
    BY <1>1 DEF ndk_init
  <2>2. cpu \in Idles
    <3>1. cpu.at = "caller" /\ cpu.stack = <<"base">>
      BY <1>1 DEF ndk_init
    <3>2. cpu \notin ForcedStates /\ cpu \notin PlainStates
      BY <3>1 DEF ForcedStates, PlainStates, CpuOn, CpuAt
    <3> QED
      BY <3>2 DEF DlInv, CpuInv
  <2>3. CASE level >= 24
    <3>1. PICK p : p = (IF offset + PatchBytes >= Page THEN 2 ELSE 1)
      OBVIOUS
    <3>2. fatal' = [offset |-> offset, pages |-> p]
      BY <1>1, <2>3, <3>1 DEF ndk_init
    <3>3. p \in {1, 2} /\ offset \in Nat /\ offset + 8 <= p * Page
      BY <3>1, DlBounds DEF PatchBytes
    <3> QED
      BY <1>0, <2>1, <2>2, <3>2, <3>3 DEF DlInv, CpuInv, SawInv, PatchInv, PatchBytes
  <2>4. CASE ~(level >= 24)
    BY <1>0, <1>1, <2>1, <2>2, <2>4 DEF ndk_init, DlInv, CpuInv, SawInv, PatchInv
  <2> QED
    BY <2>3, <2>4
<1>2. CASE DlStep
  <2>1. sdk' = sdk /\ level' = level /\ fatal' = fatal
    BY <1>2 DEF DlStep, Call, Execute, LinkerReturns, Drop
  <2>2. CpuInv' /\ CallsNoted
    BY <1>0, <1>2, <2>1, IdleSteps, ForcedSteps, PlainSteps DEF DlInv, CpuInv
  <2>3. SawInv'
    BY <1>0, <2>2, SawStep DEF DlInv
  <2> QED
    BY <2>1, <2>2, <2>3 DEF DlInv, PatchInv
<1>3. CASE UNCHANGED dlVars
  BY <1>3 DEF dlVars, DlInv, CpuInv, SawInv, PatchInv
<1> QED
  BY <1>1, <1>2, <1>3 DEF DlNext, DlStep

\* What the states say about the code that is executed.
LEMMA PointsSound ==
    ASSUME CpuInv
    PROVE  /\ cpu.at \in {"caller", "stub", "linker", "back"}
           /\ cpu.at \in {"stub", "back"} => cpu.i <= Len(Code)
           /\ cpu.at = "caller" => /\ cpu.fp = "base_fp"
                                   /\ cpu.stack[Len(cpu.stack)] = "base"
                                   /\ cpu.arch # "i386" => cpu.stack = <<"base">>
                                   /\ Len(cpu.stack) \in {1, 3, 5}
<1>0. ASSUME NEW s, s \in {<<"base">>, <<"p1", "p2", "base">>,
                             <<"p1", "p2", "caller", "called", "base">>}
      PROVE  s[Len(s)] = "base" /\ Len(s) \in {1, 3, 5}
  <2>1. CASE s = <<"base">>
    BY <2>1
  <2>2. CASE s = <<"p1", "p2", "base">>
    BY <2>2
  <2>3. CASE s = <<"p1", "p2", "caller", "called", "base">>
    BY <2>3
  <2> QED
    BY <1>0, <2>1, <2>2, <2>3
<1>1. CASE cpu \in Idles
  <2>1. cpu.at = "caller" /\ cpu.fp = "base_fp" /\ cpu.stack = <<"base">>
    BY <1>1 DEF Idles, CpuOn, CpuAt
  <2> QED
    BY <1>0, <2>1
<1>2. CASE cpu \in ForcedStates
  <2>1. cpu.at \in {"caller", "stub", "linker", "back"} /\ (cpu.at = "caller" => cpu.fp = "base_fp")
    BY <1>2 DEF ForcedStates, CpuOn, CpuAt
  <2>2. ASSUME cpu.at = "stub"
        PROVE  /\ cpu.arch \in {"i386", "x86_64", "aarch64", "arm"}
               /\ cpu.arch \in {"i386", "arm"} => cpu.i \in 1 .. 3
               /\ cpu.arch = "x86_64" => cpu.i \in 1 .. 2
               /\ cpu.arch = "aarch64" => cpu.i \in 1 .. 4
    BY <1>2, <2>2 DEF ForcedStates, CpuOn, CpuAt
  <2>3. ASSUME cpu.at = "back"
        PROVE  /\ cpu.arch \in {"i386", "x86_64", "aarch64", "arm"}
               /\ cpu.arch \in {"i386", "aarch64"} => cpu.i \in 1 .. 2
               /\ cpu.arch \in {"x86_64", "arm"} => cpu.i = 1
    BY <1>2, <2>3 DEF ForcedStates, CpuOn, CpuAt
  <2>4. ASSUME cpu.at = "caller"
        PROVE  cpu.arch = "i386" /\ cpu.stack = <<"p1", "p2", "caller", "called", "base">>
    BY <1>2, <2>4 DEF ForcedStates, CpuOn, CpuAt
  <2>5. ASSUME cpu.at = "stub" PROVE cpu.i <= Len(Code)
    <3>1. Code = Stub[cpu.arch]
      BY <2>5 DEF Code
    <3>2. /\ cpu.arch = "i386" => Len(Code) = 3
          /\ cpu.arch = "arm" => Len(Code) = 3
          /\ cpu.arch = "x86_64" => Len(Code) = 2
          /\ cpu.arch = "aarch64" => Len(Code) = 4
      BY <3>1, CodeLengths, Zenon
    <3>3. PICK n, i : n = Len(Code) /\ i = cpu.i
      OBVIOUS
    <3>4. i <= n
      BY <2>2, <2>5, <3>2, <3>3
    <3> QED
      BY <3>3, <3>4
  <2>6. ASSUME cpu.at = "back" PROVE cpu.i <= Len(Code)
    <3>1. Code = Back[cpu.arch]
      BY <2>6 DEF Code
    <3>2. /\ cpu.arch = "i386" => Len(Code) = 2
          /\ cpu.arch = "arm" => Len(Code) = 1
          /\ cpu.arch = "x86_64" => Len(Code) = 1
          /\ cpu.arch = "aarch64" => Len(Code) = 2
      BY <3>1, CodeLengths, Zenon
    <3>3. PICK n, i : n = Len(Code) /\ i = cpu.i
      OBVIOUS
    <3>4. i <= n
      BY <2>3, <2>6, <3>2, <3>3
    <3> QED
      BY <3>3, <3>4
  <2>7. cpu.at = "caller" => cpu.stack[Len(cpu.stack)] = "base" /\ Len(cpu.stack) \in {1, 3, 5}
    BY <1>0, <2>4
  <2> QED
    BY <2>1, <2>4, <2>5, <2>6, <2>7
<1>3. CASE cpu \in PlainStates
  <2>1. cpu.at \in {"caller", "linker"} /\ (cpu.at = "caller" => cpu.fp = "base_fp")
    BY <1>3 DEF PlainStates, CpuOn, CpuAt
  <2>2. ASSUME cpu.at = "caller" PROVE cpu.arch = "i386" /\ cpu.stack = <<"p1", "p2", "base">>
    BY <1>3, <2>2 DEF PlainStates, CpuOn, CpuAt
  <2> QED
    BY <1>0, <2>1, <2>2
<1> QED
  BY <1>1, <1>2, <1>3 DEF CpuInv

(* On every architecture, wherever FatalError lies in its page and whatever the  *)
(* API level: a call comes back to its caller with the stack and the frame       *)
(* pointer as they were, the linker sees a caller inside the runtime whenever    *)
(* the stub is used, and the patch stays on writable pages.                      *)
THEOREM ForcedCalls == DlSpec => []ForcedCallSound
<1>1. DlInv => ForcedCallSound
  <2> SUFFICES ASSUME DlInv PROVE ForcedCallSound
    OBVIOUS
  <2>1. DOMAIN dlcalls = 1 .. Len(dlcalls)
    BY DEF DlInv, SawInv
  <2>2. \A i \in DOMAIN dlcalls : dlcalls[i].sdk >= 24 => dlcalls[i].saw = "fake"
    BY <2>1 DEF DlInv, SawInv
  <2> QED
    BY <2>2, PointsSound DEF DlInv, PatchInv, ForcedCallSound
<1> QED
  BY <1>1, DlInitInv, DlStepInv, PTL DEF DlSpec

-----------------------------------------------------------------------------
(* SysWrappers: what the functions around the system calls do, for any      *)
(* number of signals, word size and width of the older arguments.           *)

\* Quotient and remainder give the number back.
LEMMA Divided ==
  ASSUME NEW a \in Int, NEW b \in Int, b > 0
  PROVE  a \div b \in Int /\ a % b \in 0 .. b - 1 /\ a = b * (a \div b) + (a % b)
<1>1. a = b * (a \div b) + (a % b)
  BY Z3
<1>2. a \div b \in Int /\ a % b \in 0 .. b - 1
  BY Z3
<1> QED
  BY <1>1, <1>2

\* A number has one quotient and one remainder.
LEMMA DividedOnce ==
  ASSUME NEW b \in Int, b > 0, NEW q \in Int, NEW r \in 0 .. b - 1,
         NEW v \in Int, NEW s \in 0 .. b - 1, b * q + r = b * v + s
  PROVE  q = v /\ r = s
<1>1. CASE q = v
  BY <1>1
<1>2. CASE q < v
  <2>1. b * q + b <= b * v
    <3>1. q + 1 <= v
      BY <1>2
    <3>2. b * (q + 1) <= b * v
      BY <3>1
    <3> QED
      BY <3>2
  <2> QED
    BY <2>1
<1>3. CASE v < q
  <2>1. b * v + b <= b * q
    <3>1. v + 1 <= q
      BY <1>3
    <3>2. b * (v + 1) <= b * q
      BY <3>1
    <3> QED
      BY <3>2
  <2> QED
    BY <2>1
<1> QED
  BY <1>1, <1>2, <1>3

\* The words of a set hold exactly NSig bits.
LEMMA WordsFit ==
  /\ SetWords \in Nat \ {0} /\ SetWords * WordBits = NSig /\ WordBits <= NSig
<1> DEFINE k == NSig \div WordBits
<1>1. NSig \in Int /\ WordBits \in Int /\ WordBits > 0 /\ NSig > 0 /\ NSig % WordBits = 0
  BY WrapBounds
<1>2. k \in Int /\ NSig = WordBits * k + (NSig % WordBits)
  BY <1>1, Divided
<1> HIDE DEF k
<1>3. NSig = WordBits * k
  BY <1>1, <1>2
<1>4. k > 0
  <2> SUFFICES ASSUME k <= 0 PROVE FALSE
    BY <1>2
  <2>1. WordBits * k <= 0
    BY <1>1, <1>2
  <2> QED
    BY <1>1, <1>3, <2>1
<1>5. SetWords = k
  <2> DEFINE n == NSig + WordBits - 1
  <2>1. n \in Int /\ n = WordBits * k + (WordBits - 1)
    BY <1>1, <1>2, <1>3
  <2>2. n \div WordBits \in Int /\ n % WordBits \in 0 .. WordBits - 1
        /\ n = WordBits * (n \div WordBits) + (n % WordBits)
    BY <1>1, <2>1, Divided
  <2>3. WordBits - 1 \in 0 .. WordBits - 1
    BY <1>1
  <2> DEFINE q == n \div WordBits
             r == n % WordBits
  <2> HIDE DEF n, q, r
  <2>4. q \in Int /\ r \in 0 .. WordBits - 1 /\ WordBits * q + r = WordBits * k + (WordBits - 1)
    BY <2>1, <2>2 DEF q, r
  <2>5. q = k
    BY <1>1, <1>2, <2>3, <2>4, DividedOnce
  <2> QED
    BY <2>5 DEF SetWords, q, n
<1>6. WordBits <= WordBits * k
  BY <1>1, <1>2, <1>4
<1> QED
  BY <1>1, <1>2, <1>3, <1>4, <1>5, <1>6

\* Where a signal is kept.
LEMMA Placed ==
  ASSUME NEW g \in Signals
  PROVE  /\ WordOf(g) \in 0 .. SetWords - 1 /\ BitOf(g) \in 0 .. WordBits - 1
         /\ g = WordBits * WordOf(g) + BitOf(g) + 1
<1>1. g - 1 \in Int /\ WordBits \in Int /\ WordBits > 0 /\ g \in 1 .. NSig /\ NSig \in Int
  BY WrapBounds DEF Signals
<1>2. /\ WordOf(g) \in Int /\ BitOf(g) \in 0 .. WordBits - 1
      /\ g - 1 = WordBits * WordOf(g) + BitOf(g)
  BY <1>1, Divided DEF WordOf, BitOf
<1> DEFINE w == WordOf(g)
           r == BitOf(g)
<1> HIDE DEF w, r
<1>3. w \in Int /\ r \in 0 .. WordBits - 1 /\ g - 1 = WordBits * w + r
  BY <1>2 DEF w, r
<1>4. w >= 0
  <2> SUFFICES ASSUME w <= -1 PROVE FALSE
    BY <1>3
  <2>1. WordBits * w <= WordBits * (-1)
    BY <1>1, <1>3
  <2> QED
    BY <1>1, <1>3, <2>1
<1>5. w < SetWords
  <2> SUFFICES ASSUME w >= SetWords PROVE FALSE
    BY <1>3, WordsFit
  <2>1. SetWords * WordBits = NSig /\ SetWords \in Int
    BY WordsFit
  <2>2. WordBits * w >= WordBits * SetWords
    BY <1>1, <1>3, <2>1
  <2> QED
    BY <1>1, <1>3, <2>1, <2>2
<1> QED
  BY <1>1, <1>3, <1>4, <1>5, WordsFit DEF w, r

\* No two signals share a place.
LEMMA PlacedApart ==
  ASSUME NEW g \in Signals, NEW h \in Signals, WordOf(g) = WordOf(h), BitOf(g) = BitOf(h)
  PROVE  g = h
<1>1. g = WordBits * WordOf(g) + BitOf(g) + 1 /\ h = WordBits * WordOf(h) + BitOf(h) + 1
  BY Placed
<1> QED
  BY <1>1

\* The first word is word 0.
LEMMA FirstPlaced ==
  ASSUME NEW g \in Signals
  PROVE  g \in FirstWord <=> WordOf(g) = 0
<1> DEFINE w == WordOf(g)
           r == BitOf(g)
<1>1. w \in Int /\ w >= 0 /\ r \in 0 .. WordBits - 1 /\ g = WordBits * w + r + 1
  BY Placed, WordsFit
<1>2. WordBits \in Int /\ WordBits > 0
  BY WrapBounds
<1> HIDE DEF w, r
<1>3. CASE w = 0
  BY <1>1, <1>2, <1>3 DEF FirstWord, w
<1>4. CASE w >= 1
  <2>1. WordBits * w >= WordBits
    BY <1>1, <1>2, <1>4
  <2> QED
    BY <1>1, <1>2, <1>4, <2>1 DEF FirstWord, w
<1> QED
  BY <1>1, <1>3, <1>4

\* What the kernel reads from a set is what was stored in it.
LEMMA StoredRead ==
  ASSUME NEW gs \in SUBSET Signals
  PROVE  Stored(gs) \in SigSets /\ Members(Stored(gs)) = gs
<1>1. \A g \in Signals : WordOf(g) \in 0 .. SetWords - 1 /\ BitOf(g) \in 0 .. WordBits - 1
  BY Placed
<1>2. Stored(gs) \in SigSets
  BY <1>1 DEF Stored, SigSets
<1>3. ASSUME NEW g \in Signals
      PROVE  BitOf(g) \in Stored(gs)[WordOf(g)] <=> g \in gs
  <2>1. Stored(gs)[WordOf(g)] = {BitOf(x) : x \in {h \in gs : WordOf(h) = WordOf(g)}}
    BY <1>1, Zenon DEF Stored
  <2>2. \A h \in gs : WordOf(h) = WordOf(g) /\ BitOf(h) = BitOf(g) => h = g
    BY PlacedApart
  <2> QED
    BY <2>1, <2>2, Zenon
<1> QED
  BY <1>2, <1>3 DEF Members

\* The empty set, the full set, and a set cut to its first word.
LEMMA SetsRead ==
  /\ EmptySet \in SigSets /\ Members(EmptySet) = {}
  /\ FullSet \in SigSets /\ Members(FullSet) = Signals
  /\ \A s \in SigSets : Members(s) \in SUBSET Signals
<1>1. \A g \in Signals : WordOf(g) \in 0 .. SetWords - 1 /\ BitOf(g) \in 0 .. WordBits - 1
  BY Placed
<1>2. EmptySet \in SigSets /\ FullSet \in SigSets
  BY DEF EmptySet, FullSet, SigSets
<1>3. Members(EmptySet) = {}
  BY <1>1 DEF EmptySet, Members
<1>4. Members(FullSet) = Signals
  BY <1>1 DEF FullSet, Members
<1> QED
  BY <1>2, <1>3, <1>4 DEF Members

\* A set laid over another in the first word has there the members of the one and
\* elsewhere those of the other.
LEMMA FirstReplaced ==
  ASSUME NEW s \in SigSets, NEW m \in SigSets
  PROVE  /\ [s EXCEPT ![0] = m[0]] \in SigSets
         /\ Lower(Members([s EXCEPT ![0] = m[0]])) = Lower(Members(m))
         /\ Members([s EXCEPT ![0] = m[0]]) = Lower(Members(m)) \cup (Members(s) \ FirstWord)
         /\ Members([EmptySet EXCEPT ![0] = m[0]]) = Lower(Members(m))
<1>0. 0 \in 0 .. SetWords - 1
  BY WordsFit
<1>1. \A g \in Signals : WordOf(g) \in 0 .. SetWords - 1 /\ (g \in FirstWord <=> WordOf(g) = 0)
  BY Placed, FirstPlaced
<1> DEFINE t == [s EXCEPT ![0] = m[0]]
           e == [EmptySet EXCEPT ![0] = m[0]]
<1>2. t \in SigSets /\ t[0] = m[0] /\ \A w \in 0 .. SetWords - 1 : w # 0 => t[w] = s[w]
  BY <1>0 DEF SigSets
<1>3. /\ e[0] = m[0] /\ \A w \in 0 .. SetWords - 1 : w # 0 => e[w] = {}
  BY <1>0 DEF EmptySet
<1> HIDE DEF t, e
<1>4. Lower(Members(t)) = Lower(Members(m))
  <2>1. \A g \in Signals : g \in FirstWord => t[WordOf(g)] = m[WordOf(g)]
    BY <1>1, <1>2
  <2> QED
    BY <2>1 DEF Lower, Members
<1>5. Members(e) = Lower(Members(m))
  <2>1. \A g \in Signals : g \in FirstWord => e[WordOf(g)] = m[WordOf(g)]
    BY <1>1, <1>3
  <2>2. \A g \in Signals : g \notin FirstWord => e[WordOf(g)] = {}
    BY <1>1, <1>3
  <2> QED
    BY <2>1, <2>2 DEF Lower, Members
<1>6. Members(t) = Lower(Members(m)) \cup (Members(s) \ FirstWord)
  <2>1. \A g \in Signals : g \in FirstWord => t[WordOf(g)] = m[WordOf(g)]
    BY <1>1, <1>2
  <2>2. \A g \in Signals : g \notin FirstWord => t[WordOf(g)] = s[WordOf(g)]
    BY <1>1, <1>2
  <2> QED
    BY <2>1, <2>2 DEF Lower, Members
<1> QED
  BY <1>2, <1>4, <1>5, <1>6 DEF t, e

\* Adding and removing a signal changes that signal.
LEMMA SetChanged ==
  ASSUME NEW s \in SigSets, NEW g \in Signals
  PROVE  /\ sigaddset(s, g) \in SigSets /\ Members(sigaddset(s, g)) = Members(s) \cup {g}
         /\ sigdelset(s, g) \in SigSets /\ Members(sigdelset(s, g)) = Members(s) \ {g}
         /\ sigismember(s, g) \in {0, 1} /\ ((sigismember(s, g) = 1) = (g \in Members(s)))
<1>1. \A h \in Signals : WordOf(h) \in 0 .. SetWords - 1 /\ BitOf(h) \in 0 .. WordBits - 1
  BY Placed
<1>2. \A h \in Signals : WordOf(h) = WordOf(g) /\ BitOf(h) = BitOf(g) => h = g
  BY PlacedApart
<1> DEFINE a == sigaddset(s, g)
           d == sigdelset(s, g)
<1>3. /\ a \in SigSets /\ a[WordOf(g)] = s[WordOf(g)] \cup {BitOf(g)}
      /\ \A w \in 0 .. SetWords - 1 : w # WordOf(g) => a[w] = s[w]
  BY <1>1 DEF sigaddset, SigSets
<1>4. /\ d \in SigSets /\ d[WordOf(g)] = s[WordOf(g)] \ {BitOf(g)}
      /\ \A w \in 0 .. SetWords - 1 : w # WordOf(g) => d[w] = s[w]
  BY <1>1 DEF sigdelset, SigSets
<1> HIDE DEF a, d
<1>5. ASSUME NEW h \in Signals
      PROVE  /\ BitOf(h) \in a[WordOf(h)] <=> BitOf(h) \in s[WordOf(h)] \/ h = g
             /\ BitOf(h) \in d[WordOf(h)] <=> BitOf(h) \in s[WordOf(h)] /\ h # g
  <2>1. CASE WordOf(h) = WordOf(g)
    BY <1>2, <1>3, <1>4, <2>1, Zenon
  <2>2. CASE WordOf(h) # WordOf(g)
    BY <1>1, <1>3, <1>4, <2>2, Zenon
  <2> QED
    BY <2>1, <2>2
<1>6. Members(a) = Members(s) \cup {g} /\ Members(d) = Members(s) \ {g}
  BY <1>5 DEF Members
<1>7. sigismember(s, g) \in {0, 1} /\ ((sigismember(s, g) = 1) = (g \in Members(s)))
  BY DEF sigismember, Members
<1> QED
  BY <1>3, <1>4, <1>6, <1>7 DEF a, d

ActionSet == [handler : {"old", "new"}, siginfo : BOOLEAN,
              restorer : {"none", "user", "restore_rt", "restore"}, mask : SigSets]

\* What the kernel keeps: only MIPS and PowerPC are big-endian, a kernel with 64-bit
\* registers is never an old one, and an old one has no user id that does not fit 16
\* bits and knows no signal behind the first word.
OsOK(o) ==
  /\ o \in [rt : BOOLEAN, arch : WrapArches, big : BOOLEAN,
            mask : SUBSET Signals, pending : SUBSET Signals, uid : Nat, action : ActionSet]
  /\ o.big => o.arch \in {"mips", "n32", "mips64", "ppc"}
  /\ o.arch \in WideRegisters => o.rt
  /\ ~o.rt => o.uid < Half /\ Members(o.action.mask) \subseteq FirstWord

LibcOK(l) == l \in [set : SigSets, old : SigSets, errno : Nat]

WrapInv == OsOK(os) /\ LibcOK(libc) /\ WrappersExact

\* A number is refused exactly when it is no signal.
LEMMA BadNumbers ==
  ASSUME NEW g \in Int
  PROVE  BadSignal(g) <=> g \notin Signals
<1>1. SetWords * WordBits = NSig /\ NSig \in Int
  BY WordsFit, WrapBounds
<1> QED
  BY <1>1 DEF BadSignal, Signals

\* The functions on sets do what they say.
LEMMA OnSetKeeps ==
  ASSUME OsOK(os), LibcOK(libc), NEW signum \in Int,
         NEW op \in {"sigaddset", "sigdelset", "sigismember", "sigemptyset", "sigfillset"},
         OnSet(op, signum)
  PROVE  WrapInv'
<1> DEFINE checked == op \in {"sigaddset", "sigdelset", "sigismember"}
           bad == checked /\ BadSignal(signum)
           s == CASE op = "sigemptyset" -> EmptySet
                  [] op = "sigfillset" -> FullSet
                  [] op = "sigaddset" /\ ~bad -> sigaddset(libc.set, signum)
                  [] op = "sigdelset" /\ ~bad -> sigdelset(libc.set, signum)
                  [] OTHER -> libc.set
           rc == IF bad THEN -1 ELSE IF op = "sigismember" THEN sigismember(libc.set, signum) ELSE 0
<1>1. /\ libc' = [libc EXCEPT !.set = s, !.errno = IF bad THEN Invalid ELSE @]
      /\ lastCall' = [op |-> op, signum |-> signum, was |-> libc.set, rc |-> rc]
      /\ os' = os
  BY DEF OnSet
<1>2. libc.set \in SigSets /\ libc.errno \in Nat /\ Invalid \in Nat
  BY DEF LibcOK, Invalid
<1>3. s \in SigSets
  <2>1. EmptySet \in SigSets /\ FullSet \in SigSets
    BY SetsRead
  <2>2. ASSUME ~bad, checked
        PROVE  sigaddset(libc.set, signum) \in SigSets /\ sigdelset(libc.set, signum) \in SigSets
    BY <1>2, <2>2, BadNumbers, SetChanged
  <2> QED
    BY <1>2, <2>1, <2>2
<1>4. /\ op = "sigemptyset" => s = EmptySet
      /\ op = "sigfillset" => s = FullSet
      /\ bad => s = libc.set
      /\ ~bad /\ op = "sigaddset" => s = sigaddset(libc.set, signum)
      /\ ~bad /\ op = "sigdelset" => s = sigdelset(libc.set, signum)
      /\ op = "sigismember" => s = libc.set
  OBVIOUS
<1>5. checked => (bad <=> signum \notin Signals)
  BY BadNumbers
<1>6. /\ bad => rc = -1
      /\ ~bad => rc = IF op = "sigismember" THEN sigismember(libc.set, signum) ELSE 0
  OBVIOUS
<1> HIDE DEF s, rc
<1>7. /\ libc' \in [set : SigSets, old : SigSets, errno : Nat] /\ libc'.set = s
      /\ bad => libc'.errno = Invalid
  BY <1>1, <1>2, <1>3 DEF LibcOK
<1>8. lastCall'.op = op /\ lastCall'.signum = signum /\ lastCall'.was = libc.set /\ lastCall'.rc = rc
  BY <1>1
<1>9. SetsExact(lastCall)'
  <2>1. CASE op = "sigemptyset"
    BY <1>4, <1>7, <1>8, <2>1, SetsRead DEF SetsExact
  <2>2. CASE op = "sigfillset"
    BY <1>4, <1>7, <1>8, <2>2, SetsRead DEF SetsExact
  <2>3. CASE bad
    BY <1>4, <1>5, <1>6, <1>7, <1>8, <2>3 DEF SetsExact
  <2>4. CASE ~bad /\ op = "sigaddset"
    BY <1>2, <1>4, <1>5, <1>6, <1>7, <1>8, <2>4, SetChanged DEF SetsExact
  <2>5. CASE ~bad /\ op = "sigdelset"
    BY <1>2, <1>4, <1>5, <1>6, <1>7, <1>8, <2>5, SetChanged DEF SetsExact
  <2>6. CASE ~bad /\ op = "sigismember"
    <3>1. signum \in Signals
      BY <1>5, <2>6
    <3>2. sigismember(libc.set, signum) \in {0, 1} /\ ((sigismember(libc.set, signum) = 1) = (signum \in Members(libc.set)))
      BY <1>2, <3>1, SetChanged
    <3>3. rc = sigismember(libc.set, signum) /\ libc'.set = libc.set
      BY <1>4, <1>6, <1>7, <2>6
    <3>4. rc >= 0
      BY <3>2, <3>3
    <3>5. (lastCall'.rc = 1) = (lastCall'.signum \in Members(lastCall'.was))
      BY <1>8, <3>2, <3>3
    <3> QED
      BY <1>8, <2>6, <3>1, <3>3, <3>4, <3>5, Zenon DEF SetsExact
  <2> QED
    BY <2>1, <2>2, <2>3, <2>4, <2>5, <2>6
<1>10. MasksExact(lastCall)' /\ ActionsExact(lastCall)' /\ IdsExact(lastCall)' /\ ArgumentsExact(lastCall)'
  BY <1>8 DEF MasksExact, ActionsExact, IdsExact, ArgumentsExact
<1> QED
  BY <1>1, <1>7, <1>9, <1>10 DEF WrapInv, WrappersExact, OsOK, LibcOK

\* What either call of the kernel answers.
LEMMA KernelMasks ==
  ASSUME OsOK(os), LibcOK(libc), NEW rt \in BOOLEAN,
         NEW how \in {"block", "unblock", "set", "null", "bad"}
  PROVE  LET k == KernelMask(rt, how, libc.set)
             seen == IF rt THEN Signals ELSE FirstWord
         IN  /\ k.mask \in SUBSET Signals
             /\ rt /\ ~os.rt => k.err = ENOSYS
             /\ ~(rt /\ ~os.rt) /\ how = "bad" => k.err = Invalid /\ k.mask = os.mask
             /\ ~(rt /\ ~os.rt) /\ how # "bad" =>
                  /\ k.err = 0 /\ k.old = os.mask \cap seen
                  /\ k.mask \cap seen = IF how = "null" THEN os.mask \cap seen
                                        ELSE Masked(how, os.mask \cap seen, Members(libc.set) \cap seen)
                  /\ k.mask \ seen = os.mask \ seen
<1> DEFINE k == KernelMask(rt, how, libc.set)
           seen == IF rt THEN Signals ELSE FirstWord
           gs == Members(libc.set) \cap seen
           new == IF how = "null" THEN os.mask
                  ELSE Masked(how, os.mask \cap seen, gs) \cup (os.mask \ seen)
<1>1. os.mask \in SUBSET Signals /\ Members(libc.set) \in SUBSET Signals
  BY SetsRead DEF OsOK, LibcOK
<1>2. k = IF rt /\ ~os.rt THEN [err |-> ENOSYS, mask |-> os.mask, old |-> {}]
          ELSE IF how \notin {"block", "unblock", "set", "null"} THEN [err |-> Invalid, mask |-> os.mask, old |-> {}]
          ELSE [err |-> 0, old |-> os.mask \cap seen, mask |-> new]
  BY DEF KernelMask
<1>3. Masked(how, os.mask \cap seen, gs) \in SUBSET (Signals \cap seen) \/ how \in {"null", "bad"}
  BY <1>1 DEF Masked
<1> HIDE DEF k, seen, gs
<1>4. /\ new \in SUBSET Signals \/ how = "bad"
      /\ how # "bad" => /\ new \cap seen = IF how = "null" THEN os.mask \cap seen
                                            ELSE Masked(how, os.mask \cap seen, gs)
                        /\ new \ seen = os.mask \ seen
  BY <1>1, <1>3
<1> HIDE DEF new
<1>5. CASE rt /\ ~os.rt
  BY <1>1, <1>2, <1>5 DEF k, seen, gs
<1>6. CASE ~(rt /\ ~os.rt) /\ how = "bad"
  <2>1. k = [err |-> Invalid, mask |-> os.mask, old |-> {}]
    BY <1>2, <1>6
  <2> QED
    BY <1>1, <1>6, <2>1 DEF k
<1>7. CASE ~(rt /\ ~os.rt) /\ how # "bad"
  <2>1. k = [err |-> 0, old |-> os.mask \cap seen, mask |-> new]
    BY <1>2, <1>7
  <2>2. k.err = 0 /\ k.old = os.mask \cap seen /\ k.mask = new
    BY <2>1
  <2> QED
    BY <1>4, <1>7, <2>2 DEF k, seen, gs
<1> QED
  BY <1>5, <1>6, <1>7

\* sigprocmask, with its second attempt on an old kernel.
LEMMA ProcmaskKeeps ==
  ASSUME OsOK(os), LibcOK(libc), NEW how \in {"block", "unblock", "set", "null", "bad"},
         sigprocmask(how)
  PROVE  WrapInv'
<1> DEFINE first == KernelMask(TRUE, how, libc.set)
           second == KernelMask(FALSE, how, libc.set)
           again == first.err = ENOSYS
           last == IF again THEN second ELSE first
           errno == IF last.err # 0 THEN last.err ELSE IF again THEN libc.errno ELSE libc.errno
           emptied == IF again THEN EmptySet ELSE libc.old
           old == IF last.err # 0 THEN emptied ELSE Stored(last.old)
           seen == IF os.rt THEN Signals ELSE FirstWord
<1>1. /\ os' = [os EXCEPT !.mask = last.mask]
      /\ libc' = [libc EXCEPT !.errno = errno, !.old = old]
      /\ lastCall' = [op |-> "sigprocmask", how |-> how, was |-> os.mask, errnoWas |-> libc.errno,
                      rc |-> IF last.err # 0 THEN -1 ELSE 0]
  BY DEF sigprocmask
<1>2. /\ os.mask \in SUBSET Signals /\ libc.set \in SigSets /\ libc.old \in SigSets /\ libc.errno \in Nat
      /\ EmptySet \in SigSets /\ Members(libc.set) \in SUBSET Signals /\ os.rt \in BOOLEAN
  BY SetsRead DEF OsOK, LibcOK
<1>3. /\ last.mask \in SUBSET Signals
      /\ how = "bad" => last.err = Invalid /\ last.mask = os.mask
      /\ how # "bad" =>
           /\ last.err = 0 /\ last.old = os.mask \cap seen
           /\ last.mask \cap seen = IF how = "null" THEN os.mask \cap seen
                                    ELSE Masked(how, os.mask \cap seen, Members(libc.set) \cap seen)
           /\ last.mask \ seen = os.mask \ seen
  <2>1. CASE os.rt
    <3>1. /\ first.mask \in SUBSET Signals
          /\ how = "bad" => first.err = Invalid /\ first.mask = os.mask
          /\ how # "bad" =>
               /\ first.err = 0 /\ first.old = os.mask \cap Signals
               /\ first.mask \cap Signals = IF how = "null" THEN os.mask \cap Signals
                                            ELSE Masked(how, os.mask \cap Signals, Members(libc.set) \cap Signals)
               /\ first.mask \ Signals = os.mask \ Signals
      BY <2>1, KernelMasks
    <3> HIDE DEF first
    <3>2. first.err # ENOSYS
      BY <3>1 DEF ENOSYS, Invalid
    <3> QED
      BY <2>1, <3>1, <3>2
  <2>2. CASE ~os.rt
    <3>1. first.err = ENOSYS
      BY <2>2, KernelMasks
    <3>2. /\ second.mask \in SUBSET Signals
          /\ how = "bad" => second.err = Invalid /\ second.mask = os.mask
          /\ how # "bad" =>
               /\ second.err = 0 /\ second.old = os.mask \cap FirstWord
               /\ second.mask \cap FirstWord = IF how = "null" THEN os.mask \cap FirstWord
                                            ELSE Masked(how, os.mask \cap FirstWord, Members(libc.set) \cap FirstWord)
               /\ second.mask \ FirstWord = os.mask \ FirstWord
      BY <2>2, KernelMasks
    <3> HIDE DEF first, second
    <3> QED
      BY <2>2, <3>1, <3>2
  <2> QED
    BY <1>2, <2>1, <2>2
<1> HIDE DEF last, again
<1>4. how # "bad" => old = Stored(os.mask \cap seen) /\ errno = libc.errno
  BY <1>3
<1>5. old \in SigSets /\ errno \in Nat /\ (how = "bad" => errno = Invalid)
  <2>1. Stored(os.mask \cap seen) \in SigSets
    BY <1>2, StoredRead
  <2>2. Invalid \in Nat /\ Invalid # 0
    BY DEF Invalid
  <2> QED
    BY <1>2, <1>3, <1>4, <2>1, <2>2
<1>6. how # "bad" => Members(old) = os.mask \cap seen
  <2>1. Members(Stored(os.mask \cap seen)) = os.mask \cap seen
    BY <1>2, StoredRead
  <2> QED
    BY <1>4, <2>1
<1> HIDE DEF errno, old
<1>7. /\ os'.mask = last.mask /\ os'.rt = os.rt /\ libc'.set = libc.set /\ libc'.old = old
      /\ libc'.errno = errno
  BY <1>1 DEF OsOK, LibcOK
<1>8. OsOK(os)' /\ LibcOK(libc)'
  BY <1>1, <1>3, <1>5 DEF OsOK, LibcOK
<1>9. /\ lastCall'.op = "sigprocmask" /\ lastCall'.how = how /\ lastCall'.was = os.mask
      /\ lastCall'.errnoWas = libc.errno /\ lastCall'.rc = IF last.err # 0 THEN -1 ELSE 0
  BY <1>1
<1>10. Known(os.mask) = os.mask \cap seen /\ Known(Members(libc.set)) = Members(libc.set) \cap seen
  BY <1>2 DEF Known, Lower
<1>11. /\ Known(os.mask)' = last.mask \cap seen /\ os'.mask \ (Known(os.mask)') = last.mask \ seen
       /\ Known(Members(libc.set))' = Members(libc.set) \cap seen
       /\ \A gs \in SUBSET Signals : Known(gs)' = gs \cap seen
  BY <1>2, <1>3, <1>7 DEF Known, Lower
<1>12. MasksExact(lastCall)'
  <2>1. CASE how = "bad"
    <3>1. lastCall'.rc = -1 /\ lastCall'.op = "sigprocmask" /\ -1 # 0
      BY <1>3, <1>9, <2>1 DEF Invalid
    <3> QED
      BY <1>3, <1>5, <1>7, <1>9, <2>1, <3>1 DEF MasksExact
  <2>2. CASE how # "bad"
    <3>1. lastCall'.rc = 0
      BY <1>3, <1>9, <2>2
    <3>2. Known(lastCall.was)' = os.mask \cap seen
      BY <1>2, <1>9, <1>11 DEF Known
    <3>3. Members(libc.old)' = Known(lastCall.was)' /\ libc'.errno = lastCall'.errnoWas
      BY <1>4, <1>6, <1>7, <1>9, <2>2, <3>2
    <3>4. Known(os.mask)' = IF lastCall'.how = "null" THEN Known(lastCall.was)'
                            ELSE Masked(lastCall'.how, Known(lastCall.was)', Known(Members(libc.set))')
      BY <1>3, <1>9, <1>11, <2>2, <3>2
    <3>5. (os.mask \ Known(os.mask))' = (lastCall.was \ Known(lastCall.was))'
      <4>1. os.mask \ (os.mask \cap seen) = os.mask \ seen
        OBVIOUS
      <4> QED
        BY <1>3, <1>9, <1>11, <2>2, <3>2, <4>1
    <3> QED
      BY <1>9, <3>1, <3>3, <3>4, <3>5 DEF MasksExact
  <2> QED
    BY <2>1, <2>2
<1>13. SetsExact(lastCall)' /\ ActionsExact(lastCall)' /\ IdsExact(lastCall)' /\ ArgumentsExact(lastCall)'
  BY <1>9 DEF SetsExact, ActionsExact, IdsExact, ArgumentsExact
<1> QED
  BY <1>8, <1>12, <1>13 DEF WrapInv, WrappersExact

\* sigpending and sigsuspend.
LEMMA WaitsKeep ==
  ASSUME OsOK(os), LibcOK(libc), sigpending \/ sigsuspend
  PROVE  WrapInv'
<1>1. /\ os.pending \in SUBSET Signals /\ libc.set \in SigSets /\ libc.old \in SigSets
      /\ libc.errno \in Nat /\ os.rt \in BOOLEAN
      /\ EmptySet \in SigSets
  BY SetsRead DEF OsOK, LibcOK
<1>2. CASE sigpending
  <2> DEFINE narrow == [EmptySet EXCEPT ![0] = Stored(os.pending \cap FirstWord)[0]]
             old == IF os.rt THEN Stored(os.pending) ELSE narrow
  <2>1. /\ libc' = [libc EXCEPT !.old = old] /\ os' = os
        /\ lastCall' = [op |-> "sigpending", errnoWas |-> libc.errno]
    BY <1>2 DEF sigpending
  <2>2. Stored(os.pending) \in SigSets /\ Members(Stored(os.pending)) = os.pending
    BY <1>1, StoredRead
  <2>3. /\ Stored(os.pending \cap FirstWord) \in SigSets
        /\ Members(Stored(os.pending \cap FirstWord)) = os.pending \cap FirstWord
    BY <1>1, StoredRead
  <2>4. narrow \in SigSets /\ Members(narrow) = os.pending \cap FirstWord
    <3>1. /\ narrow \in SigSets
          /\ Members(narrow) = Lower(Members(Stored(os.pending \cap FirstWord)))
      BY <1>1, <2>3, FirstReplaced
    <3> QED
      BY <2>3, <3>1 DEF Lower
  <2> HIDE DEF narrow
  <2>5. old \in SigSets /\ Members(old) = Known(os.pending)
    BY <2>2, <2>4 DEF Known, Lower
  <2> HIDE DEF old
  <2>6. libc'.old = old /\ libc'.errno = libc.errno
    BY <2>1 DEF LibcOK
  <2>7. LibcOK(libc)' /\ OsOK(os)'
    BY <2>1, <2>5 DEF LibcOK, OsOK
  <2>8. lastCall'.op = "sigpending" /\ lastCall'.errnoWas = libc.errno
    BY <2>1
  <2>9. Known(os.pending)' = Known(os.pending)
    BY <2>1 DEF Known
  <2>10. MasksExact(lastCall)'
    BY <2>5, <2>6, <2>8, <2>9 DEF MasksExact
  <2>11. SetsExact(lastCall)' /\ ActionsExact(lastCall)' /\ IdsExact(lastCall)' /\ ArgumentsExact(lastCall)'
    BY <2>8 DEF SetsExact, ActionsExact, IdsExact, ArgumentsExact
  <2> QED
    BY <2>7, <2>10, <2>11 DEF WrapInv, WrappersExact
<1>3. CASE sigsuspend
  <2>1. /\ libc' = [libc EXCEPT !.errno = 4] /\ os' = os
        /\ lastCall' = [op |-> "sigsuspend", during |-> Known(Members(libc.set))]
    BY <1>3 DEF sigsuspend, Known, Lower
  <2>2. LibcOK(libc)' /\ OsOK(os)' /\ libc'.set = libc.set
    BY <2>1 DEF LibcOK, OsOK
  <2>3. lastCall'.op = "sigsuspend" /\ lastCall'.during = Known(Members(libc.set))
    BY <2>1
  <2>4. Known(Members(libc.set))' = Known(Members(libc.set))
    BY <2>1, <2>2 DEF Known
  <2>5. MasksExact(lastCall)'
    BY <2>3, <2>4 DEF MasksExact
  <2>6. SetsExact(lastCall)' /\ ActionsExact(lastCall)' /\ IdsExact(lastCall)' /\ ArgumentsExact(lastCall)'
    BY <2>3 DEF SetsExact, ActionsExact, IdsExact, ArgumentsExact
  <2> QED
    BY <2>2, <2>5, <2>6 DEF WrapInv, WrappersExact
<1> QED
  BY <1>2, <1>3

\* The restorer that is added.
LEMMA Restored ==
  ASSUME OsOK(os), NEW act \in ActionSet, act.restorer \in {"none", "user"}
  PROVE  LET a == WithRestorer(act)
         IN  /\ a \in ActionSet /\ a.handler = act.handler /\ a.mask = act.mask
             /\ a.siginfo = act.siginfo
             /\ act.restorer = "user" => a.restorer = "user"
             /\ act.restorer = "none" /\ os.arch \in {"i386", "x86_64"} =>
                  a.restorer = IF os.arch = "x86_64" \/ act.siginfo THEN "restore_rt" ELSE "restore"
<1> DEFINE a == WithRestorer(act)
<1>1. CASE act.restorer = "user"
  <2>1. a = act
    BY <1>1 DEF WithRestorer
  <2> QED
    BY <1>1, <2>1
<1>2. CASE act.restorer = "none" /\ os.arch = "x86_64"
  <2>1. a = [act EXCEPT !.restorer = "restore_rt"]
    BY <1>2 DEF WithRestorer
  <2> QED
    BY <1>2, <2>1 DEF ActionSet
<1>3. CASE act.restorer = "none" /\ os.arch = "i386"
  <2>1. a = [act EXCEPT !.restorer = IF act.siginfo THEN "restore_rt" ELSE "restore"]
    BY <1>3 DEF WithRestorer
  <2> QED
    BY <1>3, <2>1 DEF ActionSet
<1>4. CASE act.restorer = "none" /\ os.arch \notin {"i386", "x86_64"}
  <2>1. a = act
    BY <1>4 DEF WithRestorer
  <2> QED
    BY <1>4, <2>1
<1> QED
  BY <1>1, <1>2, <1>3, <1>4

\* sigaction, with the older call on an old kernel.
LEMMA ActionKeeps ==
  ASSUME OsOK(os), LibcOK(libc), NEW null \in BOOLEAN, NEW act \in ActionSet,
         act.restorer \in {"none", "user"}, sigaction(act, null)
  PROVE  WrapInv'
<1> DEFINE narrow == [EmptySet EXCEPT ![0] = act.mask[0]]
           installed == IF null THEN os.action
                        ELSE IF os.rt THEN WithRestorer(act)
                        ELSE [act EXCEPT !.mask = narrow]
           under == IF null THEN EmptySet ELSE act.mask
           over == [under EXCEPT ![0] = os.action.mask[0]]
           old == IF os.rt THEN os.action ELSE [os.action EXCEPT !.mask = over]
<1>1. os.rt \/ os.arch = "x86_64" <=> os.rt
  BY DEF OsOK, WideRegisters
<1>2. /\ os' = [os EXCEPT !.action = installed] /\ libc' = libc
      /\ lastCall' = [op |-> "sigaction", was |-> os.action, old |-> old, given |-> act, null |-> null]
  BY <1>1 DEF sigaction
<1>3. /\ os.action \in ActionSet /\ os.action.mask \in SigSets /\ act.mask \in SigSets
      /\ EmptySet \in SigSets /\ under \in SigSets /\ os.rt \in BOOLEAN
  BY SetsRead DEF OsOK, ActionSet
<1> HIDE DEF under
<1>4. narrow \in SigSets /\ Members(narrow) = Lower(Members(act.mask))
  BY <1>3, FirstReplaced
<1>5. over \in SigSets /\ Members(over) = Lower(Members(os.action.mask)) \cup (Members(under) \ FirstWord)
  BY <1>3, FirstReplaced
<1>14. Members(under) \ FirstWord = IF null THEN {} ELSE Members(act.mask) \ FirstWord
  BY SetsRead DEF under
<1> HIDE DEF narrow, over
<1>6. old.handler = os.action.handler /\ old.siginfo = os.action.siginfo
      /\ Members(old.mask) = Members(os.action.mask)
                               \cup (IF os.rt \/ null THEN {} ELSE Members(act.mask) \ FirstWord)
  <2>1. CASE os.rt
    <3>1. old = os.action
      BY <2>1
    <3> QED
      BY <2>1, <3>1
  <2>2. CASE ~os.rt
    <3>1. old = [os.action EXCEPT !.mask = over]
      BY <2>2
    <3>2. old.handler = os.action.handler /\ old.siginfo = os.action.siginfo /\ old.mask = over
      BY <1>3, <3>1 DEF ActionSet
    <3>3. Lower(Members(os.action.mask)) = Members(os.action.mask)
      BY <2>2 DEF OsOK, Lower
    <3> QED
      BY <1>5, <1>14, <2>2, <3>2, <3>3
  <2> QED
    BY <1>3, <2>1, <2>2
<1> HIDE DEF old
<1>7. /\ installed \in ActionSet
      /\ null => installed = os.action
      /\ ~null => /\ installed.handler = act.handler
                  /\ Members(installed.mask) = Known(Members(act.mask))
                  /\ act.restorer = "user" => installed.restorer = "user"
                  /\ os.arch \in {"i386", "x86_64"} /\ os.rt /\ installed.restorer # "user" =>
                       installed.restorer = IF os.arch = "x86_64" \/ installed.siginfo
                                            THEN "restore_rt" ELSE "restore"
  <2>1. CASE null
    BY <1>3, <2>1
  <2>2. CASE ~null /\ os.rt
    <3>1. installed = WithRestorer(act) /\ Known(Members(act.mask)) = Members(act.mask)
      BY <2>2 DEF Known
    <3> HIDE DEF installed
    <3>2. /\ installed \in ActionSet /\ installed.handler = act.handler /\ installed.mask = act.mask
          /\ installed.siginfo = act.siginfo
          /\ act.restorer = "user" => installed.restorer = "user"
          /\ act.restorer = "none" /\ os.arch \in {"i386", "x86_64"} =>
               installed.restorer = IF os.arch = "x86_64" \/ act.siginfo THEN "restore_rt" ELSE "restore"
      BY <3>1, Restored
    <3> QED
      BY <2>2, <3>1, <3>2
  <2>3. CASE ~null /\ ~os.rt
    <3>1. installed = [act EXCEPT !.mask = narrow] /\ Known(Members(act.mask)) = Lower(Members(act.mask))
      BY <2>3 DEF Known
    <3> HIDE DEF installed
    <3>2. /\ installed \in ActionSet /\ installed.handler = act.handler /\ installed.mask = narrow
          /\ installed.restorer = act.restorer
      BY <1>4, <3>1 DEF ActionSet
    <3> QED
      BY <1>4, <2>3, <3>1, <3>2
  <2> QED
    BY <1>3, <2>1, <2>2, <2>3
<1> HIDE DEF installed
<1>8. OsOK(os)' /\ LibcOK(libc)'
  <2>1. ~os.rt => Members(installed.mask) \subseteq FirstWord
    BY <1>7 DEF OsOK, Known, Lower
  <2> QED
    BY <1>2, <1>7, <2>1 DEF OsOK, LibcOK
<1>9. os'.action = installed /\ os'.arch = os.arch /\ os'.rt = os.rt
  BY <1>2 DEF OsOK
<1>10. /\ lastCall'.op = "sigaction" /\ lastCall'.was = os.action /\ lastCall'.old = old
       /\ lastCall'.given = act /\ lastCall'.null = null
  BY <1>2
<1>11. Known(Members(lastCall.given.mask))' = Known(Members(act.mask))
  BY <1>9, <1>10 DEF Known
<1>12. ActionsExact(lastCall)'
  BY <1>6, <1>7, <1>9, <1>10, <1>11 DEF ActionsExact
<1>13. SetsExact(lastCall)' /\ MasksExact(lastCall)' /\ IdsExact(lastCall)' /\ ArgumentsExact(lastCall)'
  BY <1>10 DEF SetsExact, MasksExact, IdsExact, ArgumentsExact
<1> QED
  BY <1>8, <1>12, <1>13 DEF WrapInv, WrappersExact

\* The calls on user ids.
LEMMA IdsKeep ==
  ASSUME OsOK(os), LibcOK(libc),
         \/ \E null \in BOOLEAN : getresuid32(null)
         \/ \E id \in UserIds : setresuid32(id)
  PROVE  WrapInv'
<1>1. /\ os.uid \in Nat /\ libc.errno \in Nat /\ os.rt \in BOOLEAN /\ Half \in Nat /\ Half >= 2
      /\ ~os.rt => os.uid < Half
      /\ ENOSYS \in Nat /\ EFAULT \in Nat /\ EFAULT # 0 /\ Invalid # 0
  BY WrapBounds DEF OsOK, LibcOK, ENOSYS, EFAULT, Invalid
<1>2. ASSUME NEW n \in Nat, n < Half PROVE n % Half = n
  <2>1. /\ n \div Half \in Int /\ n % Half \in 0 .. Half - 1
        /\ n = Half * (n \div Half) + (n % Half)
    BY <1>1, Divided
  <2>2. PICK q \in Int : q = n \div Half
    BY <2>1
  <2>3. PICK r \in 0 .. Half - 1 : r = n % Half
    BY <2>1
  <2>4. Half * q + r = Half * 0 + n /\ n \in 0 .. Half - 1 /\ Half \in Int /\ Half > 0
    BY <1>1, <1>2, <2>1, <2>2, <2>3
  <2>5. r = n
    BY <2>4, DividedOnce
  <2> QED
    BY <2>3, <2>5
<1>3. ASSUME NEW null \in BOOLEAN, getresuid32(null) PROVE WrapInv'
  <2> DEFINE out == IF ~os.rt THEN 0 + (os.uid % Half) ELSE os.uid
  <2>1. /\ libc' = [libc EXCEPT !.errno = IF ~os.rt THEN ENOSYS ELSE IF null THEN EFAULT ELSE @]
        /\ lastCall' = [op |-> "getresuid32", was |-> os.uid, out |-> out,
                        rc |-> IF ~null THEN 0 ELSE IF ~os.rt THEN EFAULT ELSE -1]
        /\ os' = os
    BY <1>3 DEF getresuid32
  <2>2. out = os.uid
    BY <1>1, <1>2
  <2> HIDE DEF out
  <2>3. lastCall'.op = "getresuid32" /\ lastCall'.was = os.uid /\ lastCall'.out = os.uid
    BY <2>1, <2>2
  <2>4. OsOK(os)' /\ LibcOK(libc)'
    BY <1>1, <2>1 DEF OsOK, LibcOK
  <2>5. IdsExact(lastCall)'
    BY <2>3 DEF IdsExact
  <2>6. SetsExact(lastCall)' /\ MasksExact(lastCall)' /\ ActionsExact(lastCall)' /\ ArgumentsExact(lastCall)'
    BY <2>3 DEF SetsExact, MasksExact, ActionsExact, ArgumentsExact
  <2> QED
    BY <2>4, <2>5, <2>6 DEF WrapInv, WrappersExact
<1>4. ASSUME NEW id \in UserIds, setresuid32(id) PROVE WrapInv'
  <2> DEFINE uid == IF os.rt THEN id ELSE IF id >= Half THEN os.uid ELSE id % Half
             rc == IF ~os.rt /\ id >= Half THEN Invalid ELSE 0
  <2>1. /\ os' = [os EXCEPT !.uid = uid]
        /\ libc' = [libc EXCEPT !.errno = IF ~os.rt THEN ENOSYS ELSE @]
        /\ lastCall' = [op |-> "setresuid32", was |-> os.uid, id |-> id, rc |-> rc]
    BY <1>4 DEF setresuid32
  <2>2. id \in Nat
    BY <1>1 DEF UserIds
  <2>3. uid = (IF rc = 0 THEN id ELSE os.uid) /\ (~os.rt => uid < Half) /\ uid \in Nat
    BY <1>1, <1>2, <2>2
  <2> HIDE DEF uid, rc
  <2>4. /\ lastCall'.op = "setresuid32" /\ lastCall'.was = os.uid /\ lastCall'.id = id
        /\ lastCall'.rc = rc
    BY <2>1
  <2>5. OsOK(os)' /\ LibcOK(libc)' /\ os'.uid = uid
    BY <1>1, <2>1, <2>3 DEF OsOK, LibcOK
  <2>6. IdsExact(lastCall)'
    BY <2>3, <2>4, <2>5 DEF IdsExact
  <2>7. SetsExact(lastCall)' /\ MasksExact(lastCall)' /\ ActionsExact(lastCall)' /\ ArgumentsExact(lastCall)'
    BY <2>4 DEF SetsExact, MasksExact, ActionsExact, ArgumentsExact
  <2> QED
    BY <2>5, <2>6, <2>7 DEF WrapInv, WrappersExact
<1> QED
  BY <1>3, <1>4

\* The halves of an offset, in the order of the registers.
LEMMA HalvesJoin ==
  ASSUME OsOK(os), NEW off \in Int
  PROVE  /\ off % Half \in Int /\ off \div Half \in Int
         /\ (off \div Half) * Half + (off % Half) = off
         /\ \E a, b \in Int : /\ Halves(off) = <<a, b>>
                              /\ IF os.big THEN a * Half + b = off ELSE b * Half + a = off
<1>1. /\ off \div Half \in Int /\ off % Half \in 0 .. Half - 1 /\ Half \in Int
      /\ off = Half * (off \div Half) + (off % Half)
  BY Divided, WrapBounds
<1>2. PICK q \in Int : q = off \div Half
  BY <1>1
<1>3. PICK r \in Int : r = off % Half
  BY <1>1
<1>4. q * Half + r = off
  BY <1>1, <1>2, <1>3
<1>5. Halves(off) = IF os.big THEN <<q, r>> ELSE <<r, q>>
  BY <1>2, <1>3 DEF Halves
<1>6. \E a, b \in Int : /\ Halves(off) = <<a, b>>
                        /\ IF os.big THEN a * Half + b = off ELSE b * Half + a = off
  <2>1. CASE os.big
    BY <1>4, <1>5, <2>1, Zenon
  <2>2. CASE ~os.big
    BY <1>4, <1>5, <2>2, Zenon
  <2> QED
    BY <2>1, <2>2
<1> QED
  BY <1>2, <1>3, <1>4, <1>6

Pair(a, b) == IF os.big THEN a * Half + b ELSE b * Half + a

\* The kernel reads a pair of registers, on ARM and MIPS one that starts at an
\* even register, or a single one.
LEMMA KernelPair ==
  ASSUME NEW args, NEW i \in {2, 3, 4, 5}
  PROVE  /\ os.arch \in {"arm", "mips"} /\ i % 2 = 0 /\ i + 1 \in DOMAIN args /\ i + 1 + 1 \in DOMAIN args =>
              KernelReads(args, i) = Pair(args[i + 1], args[i + 1 + 1])
         /\ os.arch = "i386" /\ i \in DOMAIN args /\ i + 1 \in DOMAIN args =>
              KernelReads(args, i) = Pair(args[i], args[i + 1])
         /\ os.arch \in {"x86_64", "mips64"} /\ i \in DOMAIN args => KernelReads(args, i) = args[i]
BY DEF KernelReads, WideRegisters, PairsRegisters, Pair

\* Three arguments, the padding of ARM and MIPS, and the offset.
LEMMA PreadRead ==
  ASSUME OsOK(os), NEW off \in Int, os.arch \notin {"aarch64", "n32", "ppc"}
  PROVE  KernelReads(pread64(off), 4) = off /\ KernelReads(readahead(off), 2) = off
<1>1. PICK a, b \in Int : Halves(off) = <<a, b>> /\ Pair(a, b) = off
  BY HalvesJoin DEF Pair
<1>2. CASE os.arch \in {"x86_64", "mips64"}
  <2>1. pread64(off) = <<0, 0, 0>> \o <<off>> /\ readahead(off) = <<0>> \o <<off>> \o <<0>>
    BY <1>2 DEF pread64, readahead, Narrow
  <2>2. (<<0, 0, 0>> \o <<off>>)[4] = off /\ (<<0>> \o <<off>> \o <<0>>)[2] = off
    OBVIOUS
  <2>3. pread64(off)[4] = off /\ readahead(off)[2] = off
    BY <2>1, <2>2
  <2>4. 4 \in DOMAIN pread64(off) /\ 2 \in DOMAIN readahead(off)
    BY <2>1
  <2> QED
    BY <1>2, <2>3, <2>4, KernelPair
<1>3. CASE os.arch \in {"arm", "mips"}
  <2>1. /\ pread64(off) = <<0, 0, 0>> \o (<<0>> \o <<a, b>>)
        /\ readahead(off) = <<0>> \o (<<0>> \o <<a, b>>) \o <<0>>
    BY <1>1, <1>3 DEF pread64, readahead, Narrow, LLARG_PAD
  <2>2. (<<0, 0, 0>> \o (<<0>> \o <<a, b>>))[5] = a /\ (<<0, 0, 0>> \o (<<0>> \o <<a, b>>))[6] = b
    OBVIOUS
  <2>3. /\ (<<0>> \o (<<0>> \o <<a, b>>) \o <<0>>)[3] = a
        /\ (<<0>> \o (<<0>> \o <<a, b>>) \o <<0>>)[4] = b
    OBVIOUS
  <2>4. /\ pread64(off)[5] = a /\ pread64(off)[6] = b
        /\ readahead(off)[3] = a /\ readahead(off)[4] = b
    BY <2>1, <2>2, <2>3, Zenon
  <2>5. 4 % 2 = 0 /\ 2 % 2 = 0 /\ 4 + 1 = 5 /\ 5 + 1 = 6 /\ 2 + 1 = 3 /\ 3 + 1 = 4
    OBVIOUS
  <2>7. /\ DOMAIN pread64(off) = 1 .. 6 /\ DOMAIN readahead(off) = 1 .. 5
        /\ 5 \in 1 .. 6 /\ 6 \in 1 .. 6 /\ 3 \in 1 .. 5 /\ 4 \in 1 .. 5
    BY <2>1
  <2>6. /\ KernelReads(pread64(off), 4) = Pair(pread64(off)[4 + 1], pread64(off)[4 + 1 + 1])
        /\ KernelReads(readahead(off), 2) = Pair(readahead(off)[2 + 1], readahead(off)[2 + 1 + 1])
    BY <1>3, <2>5, <2>7, KernelPair, Zenon
  <2> QED
    BY <1>1, <2>4, <2>5, <2>6, Zenon
<1>4. CASE os.arch = "i386"
  <2>1. /\ pread64(off) = <<0, 0, 0>> \o (<<>> \o <<a, b>>)
        /\ readahead(off) = <<0>> \o (<<>> \o <<a, b>>) \o <<0>>
    BY <1>1, <1>4 DEF pread64, readahead, Narrow, LLARG_PAD
  <2>2. (<<0, 0, 0>> \o (<<>> \o <<a, b>>))[4] = a /\ (<<0, 0, 0>> \o (<<>> \o <<a, b>>))[5] = b
    OBVIOUS
  <2>3. /\ (<<0>> \o (<<>> \o <<a, b>>) \o <<0>>)[2] = a
        /\ (<<0>> \o (<<>> \o <<a, b>>) \o <<0>>)[3] = b
    OBVIOUS
  <2>4. /\ pread64(off)[4] = a /\ pread64(off)[5] = b
        /\ readahead(off)[2] = a /\ readahead(off)[3] = b
    BY <2>1, <2>2, <2>3, Zenon
  <2>5. 4 + 1 = 5 /\ 2 + 1 = 3
    OBVIOUS
  <2>7. /\ DOMAIN pread64(off) = 1 .. 5 /\ DOMAIN readahead(off) = 1 .. 4
        /\ 4 \in 1 .. 5 /\ 5 \in 1 .. 5 /\ 2 \in 1 .. 4 /\ 3 \in 1 .. 4
    BY <2>1
  <2>6. /\ KernelReads(pread64(off), 4) = Pair(pread64(off)[4], pread64(off)[4 + 1])
        /\ KernelReads(readahead(off), 2) = Pair(readahead(off)[2], readahead(off)[2 + 1])
    BY <1>4, <2>5, <2>7, KernelPair, Zenon
  <2> QED
    BY <1>1, <2>4, <2>5, <2>6, Zenon
<1> QED
  BY <1>2, <1>3, <1>4 DEF OsOK, WrapArches

\* fadvise64 and fallocate where they take halves.
LEMMA AdviseRead ==
  ASSUME OsOK(os), NEW off \in Int, NEW len \in Int
  PROVE  /\ os.arch = "i386" =>
              /\ KernelReads(fadvise64(off, len), 2) = off /\ KernelReads(fallocate(off, len), 3) = off
              /\ KernelReads(fadvise64(off, len), 4) = len /\ KernelReads(fallocate(off, len), 5) = len
         /\ os.arch = "x86_64" => KernelReads(fadvise64(off, len), 2) = off
<1>1. CASE os.arch = "i386"
  <2>0. ~os.big /\ 2 + 1 = 3 /\ 4 + 1 = 5 /\ 3 + 1 = 4 /\ 5 + 1 = 6
    BY <1>1 DEF OsOK
  <2>1. PICK q, r \in Int : q = off \div Half /\ r = off % Half /\ q * Half + r = off
    BY HalvesJoin
  <2>2. PICK v, w \in Int : v = len \div Half /\ w = len % Half /\ v * Half + w = len
    BY HalvesJoin
  <2>3. Pair(r, q) = off /\ Pair(w, v) = len
    BY <2>0, <2>1, <2>2 DEF Pair
  <2>4. fadvise64(off, len) = <<0, r, q, w, v, 0>>
    BY <1>1, <2>1, <2>2 DEF fadvise64, Narrow
  <2>5. /\ fadvise64(off, len)[2] = r /\ fadvise64(off, len)[3] = q
        /\ fadvise64(off, len)[4] = w /\ fadvise64(off, len)[5] = v
    BY <2>4
  <2>12. /\ DOMAIN fadvise64(off, len) = 1 .. 6
         /\ 2 \in 1 .. 6 /\ 3 \in 1 .. 6 /\ 4 \in 1 .. 6 /\ 5 \in 1 .. 6 /\ 6 \in 1 .. 6
    BY <2>4
  <2>6. /\ KernelReads(fadvise64(off, len), 2) = Pair(fadvise64(off, len)[2], fadvise64(off, len)[2 + 1])
        /\ KernelReads(fadvise64(off, len), 4) = Pair(fadvise64(off, len)[4], fadvise64(off, len)[4 + 1])
    BY <1>1, <2>0, <2>12, KernelPair, Zenon
  <2>7. Halves(off) = <<r, q>> /\ Halves(len) = <<w, v>>
    BY <2>0, <2>1, <2>2 DEF Halves
  <2>8. fallocate(off, len) = <<0, 0>> \o <<r, q>> \o <<w, v>>
    BY <2>7, Zenon DEF fallocate
  <2>9. /\ (<<0, 0>> \o <<r, q>> \o <<w, v>>)[3] = r /\ (<<0, 0>> \o <<r, q>> \o <<w, v>>)[4] = q
        /\ (<<0, 0>> \o <<r, q>> \o <<w, v>>)[5] = w /\ (<<0, 0>> \o <<r, q>> \o <<w, v>>)[6] = v
    OBVIOUS
  <2>10. /\ fallocate(off, len)[3] = r /\ fallocate(off, len)[4] = q
         /\ fallocate(off, len)[5] = w /\ fallocate(off, len)[6] = v
    BY <2>8, <2>9, Zenon
  <2>13. DOMAIN fallocate(off, len) = 1 .. 6
    BY <2>8
  <2>11. /\ KernelReads(fallocate(off, len), 3) = Pair(fallocate(off, len)[3], fallocate(off, len)[3 + 1])
         /\ KernelReads(fallocate(off, len), 5) = Pair(fallocate(off, len)[5], fallocate(off, len)[5 + 1])
    BY <1>1, <2>0, <2>12, <2>13, KernelPair, Zenon
  <2> QED
    BY <1>1, <2>0, <2>3, <2>5, <2>6, <2>10, <2>11, Zenon
<1>2. CASE os.arch = "x86_64"
  <2>1. fadvise64(off, len) = <<0, off, len, 0>>
    BY <1>2 DEF fadvise64, Narrow
  <2>2. fadvise64(off, len)[2] = off /\ 2 \in DOMAIN fadvise64(off, len)
    BY <2>1
  <2> QED
    BY <1>2, <2>2, KernelPair
<1> QED
  BY <1>1, <1>2

\* The calls that rearrange their arguments.
LEMMA SplitsKeep ==
  ASSUME OsOK(os), LibcOK(libc), NEW off \in Int, NEW len \in Int, Splits(off, len)
  PROVE  WrapInv'
<1> DEFINE more == IF os.arch = "i386"
                   THEN {KernelReads(fadvise64(off, len), 2), KernelReads(fallocate(off, len), 3)}
                   ELSE IF os.arch = "x86_64" THEN {KernelReads(fadvise64(off, len), 2)} ELSE {}
           read == {KernelReads(pread64(off), 4), KernelReads(readahead(off), 2)} \cup more
           readLen == IF os.arch = "i386"
                      THEN {KernelReads(fadvise64(off, len), 4), KernelReads(fallocate(off, len), 5)}
                      ELSE {}
<1>1. /\ lastCall' = [op |-> "offset", off |-> off, len |-> len, read |-> read, readLen |-> readLen]
      /\ os' = os /\ libc' = libc
  BY DEF Splits
<1>2. more \subseteq {off} /\ readLen \subseteq {len}
  BY AdviseRead
<1> HIDE DEF more
<1>3. os.arch \notin {"aarch64", "n32", "ppc"} => read \subseteq {off}
  BY <1>2, PreadRead
<1> HIDE DEF read, readLen
<1>4. /\ lastCall'.op = "offset" /\ lastCall'.off = off /\ lastCall'.len = len
      /\ lastCall'.read = read /\ lastCall'.readLen = readLen
  BY <1>1
<1>5. ArgumentsExact(lastCall)'
  <2>1. os'.arch \notin {"aarch64", "n32", "ppc"} => lastCall'.read \subseteq {lastCall'.off}
    BY <1>1, <1>3, <1>4
  <2>2. lastCall'.readLen \subseteq {lastCall'.len}
    BY <1>2, <1>4
  <2> QED
    BY <1>4, <2>1, <2>2 DEF ArgumentsExact
<1>6. SetsExact(lastCall)' /\ MasksExact(lastCall)' /\ ActionsExact(lastCall)' /\ IdsExact(lastCall)'
  BY <1>4 DEF SetsExact, MasksExact, ActionsExact, IdsExact
<1> QED
  BY <1>1, <1>5, <1>6 DEF WrapInv, WrappersExact, OsOK, LibcOK

\* poll on aarch64, and ptrace_detach.
LEMMA PollKeeps ==
  ASSUME OsOK(os), LibcOK(libc),
         \/ \E timeout \in {-1, 0, 1, 999, 1000, 1001} : poll(timeout)
         \/ \E fails \in BOOLEAN : ptrace_detach(fails)
  PROVE  WrapInv'
<1>1. ASSUME NEW timeout \in {-1, 0, 1, 999, 1000, 1001}, poll(timeout) PROVE WrapInv'
  <2> DEFINE sec == timeout \div 1000
             nsec == (timeout % 1000) * 1000000
  <2>1. /\ lastCall' = [op |-> "poll", timeout |-> timeout, null |-> timeout < 0,
                        sec |-> sec, nsec |-> nsec]
        /\ os' = os /\ libc' = libc
    BY <1>1 DEF poll
  <2>2. sec * 1000 + nsec \div 1000000 = timeout /\ nsec < 1000000000
    <3>1. PICK t \in Int : t = timeout
      OBVIOUS
    <3>2. t = 1000 * (t \div 1000) + (t % 1000) /\ t \div 1000 \in Int /\ t % 1000 \in 0 .. 999
      OBVIOUS
    <3>3. PICK r \in 0 .. 999 : r = t % 1000
      BY <3>2
    <3>4. (r * 1000000) \div 1000000 = r /\ r * 1000000 < 1000000000
      BY <3>3
    <3> QED
      BY <3>1, <3>2, <3>3, <3>4
  <2> HIDE DEF sec, nsec
  <2>3. /\ lastCall'.op = "poll" /\ lastCall'.timeout = timeout /\ lastCall'.null = (timeout < 0)
        /\ lastCall'.sec = sec /\ lastCall'.nsec = nsec
    BY <2>1
  <2>4. ArgumentsExact(lastCall)'
    BY <2>2, <2>3 DEF ArgumentsExact
  <2>5. SetsExact(lastCall)' /\ MasksExact(lastCall)' /\ ActionsExact(lastCall)' /\ IdsExact(lastCall)'
    BY <2>3 DEF SetsExact, MasksExact, ActionsExact, IdsExact
  <2> QED
    BY <2>1, <2>4, <2>5 DEF WrapInv, WrappersExact, OsOK, LibcOK
<1>2. ASSUME NEW fails \in BOOLEAN, ptrace_detach(fails) PROVE WrapInv'
  <2> DEFINE err == IF fails THEN 3 ELSE libc.errno
             killed == (IF os.rt THEN err ELSE ENOSYS) = ENOSYS
             woken == (IF os.rt THEN {"thread"} ELSE {}) \cup (IF killed THEN {"process"} ELSE {})
  <2>1. /\ libc' = [libc EXCEPT !.errno = err] /\ os' = os
        /\ lastCall' = [op |-> "ptrace_detach", rc |-> IF fails THEN -1 ELSE 0, errnoWas |-> libc.errno,
                        woken |-> woken]
    BY <1>2 DEF ptrace_detach
  <2>2. woken # {} /\ (os.rt => "thread" \in woken) /\ err \in Nat /\ (~fails => err = libc.errno)
    BY DEF LibcOK
  <2> HIDE DEF err, woken
  <2>3. /\ lastCall'.op = "ptrace_detach" /\ lastCall'.errnoWas = libc.errno /\ lastCall'.woken = woken
        /\ lastCall'.rc = IF fails THEN -1 ELSE 0
    BY <2>1
  <2>4. OsOK(os)' /\ LibcOK(libc)' /\ libc'.errno = err
    BY <2>1, <2>2 DEF OsOK, LibcOK
  <2>5. ArgumentsExact(lastCall)'
    BY <2>1, <2>2, <2>3, <2>4 DEF ArgumentsExact
  <2>6. SetsExact(lastCall)' /\ MasksExact(lastCall)' /\ ActionsExact(lastCall)' /\ IdsExact(lastCall)'
    BY <2>3 DEF SetsExact, MasksExact, ActionsExact, IdsExact
  <2> QED
    BY <2>4, <2>5, <2>6 DEF WrapInv, WrappersExact
<1> QED
  BY <1>1, <1>2

\* The wrappers start from a kernel and a C library of the kinds described.
LEMMA WrapStarts == WrapInit => WrapInv
<1> SUFFICES ASSUME WrapInit PROVE WrapInv
  OBVIOUS
<1>1. EmptySet \in SigSets /\ FullSet \in SigSets
  BY SetsRead
<1>2. {{}, {NSig}} \subseteq SUBSET Signals /\ {1, NSig} \in SUBSET Signals /\ 1 < Half
  BY WrapBounds DEF Signals
<1>3. [handler |-> "old", siginfo |-> FALSE, restorer |-> "none", mask |-> EmptySet] \in ActionSet
  BY <1>1 DEF ActionSet
<1>4. OsOK(os)
  <2>1. /\ os \in [rt : BOOLEAN, arch : WrapArches, big : BOOLEAN, mask : {{}, {NSig}},
                   pending : {{1, NSig}}, uid : {1},
                   action : {[handler |-> "old", siginfo |-> FALSE, restorer |-> "none", mask |-> EmptySet]}]
        /\ os.big => os.arch \in {"mips", "n32", "mips64", "ppc"}
        /\ os.arch \in WideRegisters => os.rt
    BY DEF WrapInit
  <2>3. Members(os.action.mask) = {}
    BY <2>1, SetsRead
  <2>2. os.mask \in SUBSET Signals /\ os.pending \in SUBSET Signals /\ os.uid = 1 /\ os.action \in ActionSet
    BY <1>2, <1>3, <2>1
  <2> QED
    BY <1>2, <2>1, <2>2, <2>3 DEF OsOK
<1>5. LibcOK(libc)
  BY <1>1 DEF WrapInit, LibcOK, Stale
<1>6. lastCall.op = "none"
  BY DEF WrapInit
<1>7. WrappersExact
  BY <1>6 DEF WrappersExact, SetsExact, MasksExact, ActionsExact, IdsExact, ArgumentsExact
<1> QED
  BY <1>4, <1>5, <1>7 DEF WrapInv

\* Every call leaves what was described and does what its name says.
LEMMA WrapInductive == WrapSpec => []WrapInv
<1>1. WrapInv /\ [WrapNext]_wrapVars => WrapInv'
  <2> SUFFICES ASSUME WrapInv, [WrapNext]_wrapVars PROVE WrapInv'
    OBVIOUS
  <2> USE DEF WrapInv
  <2>1. CASE UNCHANGED wrapVars
    <3>1. os' = os /\ libc' = libc /\ lastCall' = lastCall
      BY <2>1 DEF wrapVars
    <3>2. OsOK(os)' /\ LibcOK(libc)'
      BY <3>1 DEF OsOK, LibcOK
    <3>3. WrappersExact'
      BY <3>1 DEF WrappersExact, SetsExact, MasksExact, ActionsExact, IdsExact, ArgumentsExact, Known
    <3> QED
      BY <3>2, <3>3
  <2>2. ASSUME NEW op \in {"sigaddset", "sigdelset", "sigismember"}, NEW signum \in 0 .. NSig + 1,
               OnSet(op, signum)
        PROVE  WrapInv'
    <3>1. signum \in Int
      BY WrapBounds
    <3> QED
      BY <2>2, <3>1, OnSetKeeps
  <2>3. ASSUME NEW op \in {"sigemptyset", "sigfillset"}, OnSet(op, 0) PROVE WrapInv'
    BY <2>3, OnSetKeeps
  <2>4. ASSUME NEW how \in {"block", "unblock", "set", "null", "bad"}, sigprocmask(how) PROVE WrapInv'
    BY <2>4, ProcmaskKeeps
  <2>5. CASE sigpending \/ sigsuspend
    BY <2>5, WaitsKeep
  <2>6. ASSUME NEW h \in {"new"}, NEW info \in BOOLEAN, NEW r \in {"none", "user"}, NEW null \in BOOLEAN,
               sigaction([handler |-> h, siginfo |-> info, restorer |-> r, mask |-> libc.set], null)
        PROVE  WrapInv'
    <3> DEFINE act == [handler |-> h, siginfo |-> info, restorer |-> r, mask |-> libc.set]
    <3>1. act \in ActionSet /\ act.restorer \in {"none", "user"}
      BY DEF ActionSet, LibcOK
    <3> HIDE DEF act
    <3>2. sigaction(act, null)
      BY <2>6 DEF act
    <3> QED
      BY <3>1, <3>2, ActionKeeps
  <2>7. CASE \/ \E null \in BOOLEAN : getresuid32(null)
             \/ \E id \in UserIds : setresuid32(id)
    BY <2>7, IdsKeep
  <2>8. ASSUME NEW off \in Offsets, Splits(off, Half * Half - 1 - off) PROVE WrapInv'
    <3>1. off \in Int /\ Half * Half - 1 - off \in Int
      BY WrapBounds DEF Offsets
    <3> QED
      BY <2>8, <3>1, SplitsKeep
  <2>9. CASE \/ \E timeout \in {-1, 0, 1, 999, 1000, 1001} : poll(timeout)
             \/ \E fails \in BOOLEAN : ptrace_detach(fails)
    BY <2>9, PollKeeps
  <2> HIDE DEF WrapInv
  <2>10. CASE WrapNext
    <3>1. CASE \E op \in {"sigaddset", "sigdelset", "sigismember"}, signum \in 0 .. NSig + 1 : OnSet(op, signum)
      BY <2>2, <3>1
    <3>2. CASE \E op \in {"sigemptyset", "sigfillset"} : OnSet(op, 0)
      BY <2>3, <3>2
    <3>3. CASE \E how \in {"block", "unblock", "set", "null", "bad"} : sigprocmask(how)
      BY <2>4, <3>3
    <3>4. CASE \E h \in {"new"}, info \in BOOLEAN, r \in {"none", "user"}, null \in BOOLEAN :
                 sigaction([handler |-> h, siginfo |-> info, restorer |-> r, mask |-> libc.set], null)
      BY <2>6, <3>4
    <3>5. CASE \E off \in Offsets : Splits(off, Half * Half - 1 - off)
      BY <2>8, <3>5
    <3> QED
      BY <2>10, <2>5, <2>7, <2>9, <3>1, <3>2, <3>3, <3>4, <3>5 DEF WrapNext
  <2> QED
    BY <2>1, <2>10
<1> QED
  BY <1>1, WrapStarts, PTL DEF WrapSpec

\* For any number of signals in whole words and any width of the older arguments:
\* a wrapper of a system call does what its name says on an old kernel as on a new,
\* the calls that split an offset on i386, x86-64, ARM and two ABIs of MIPS.
THEOREM WrappersRight == WrapSpec => []WrappersExact
<1>1. WrapInv => WrappersExact
  BY DEF WrapInv
<1> QED
  BY <1>1, WrapInductive, PTL

-----------------------------------------------------------------------------
(* md5.cpp, map_md5.cpp *)

\* The quotient and the remainder, from any way of dividing.
LEMMA DividesTo ==
  ASSUME NEW b \in Int, b > 0, NEW q \in Int, NEW r \in 0 .. b - 1, NEW x \in Int, x = b * q + r
  PROVE  x \div b = q /\ x % b = r
<1>1. PICK a \in Int, c \in Int : a = x \div b /\ c = x % b
  BY Divided
<1>2. c \in 0 .. b - 1 /\ x = b * a + c
  BY <1>1, Divided
<1>3. b * a + c = b * q + r
  BY <1>2
<1>4. a = q /\ c = r
  BY <1>2, <1>3, DividedOnce
<1> QED
  BY <1>1, <1>4

\* x is q times b and the rest r.
CutInto(x, b, q, r) == x \in Int /\ b \in Int /\ b > 0 /\ q \in Int /\ r \in 0 .. b - 1 /\ x = b * q + r

\* The same, for a way of dividing that is named.
LEMMA CutTo ==
  ASSUME NEW x, NEW b, NEW q, NEW r, CutInto(x, b, q, r)
  PROVE  x \div b = q /\ x % b = r
BY DividesTo DEF CutInto

\* A remainder may be taken before adding.
LEMMA RestAdded ==
  ASSUME NEW b \in Int, b > 0, NEW x \in Int, NEW y \in Int
  PROVE  ((x % b) + y) % b = (x + y) % b
<1>1. PICK a \in Int, c \in Int : a = x \div b /\ c = x % b
  BY Divided
<1>2. x = b * a + c
  BY <1>1, Divided
<1>3. PICK s \in Int : s = c + y
  BY <1>1
<1>4. PICK d \in Int, e \in Int : d = s \div b /\ e = s % b
  BY Divided
<1>5. e \in 0 .. b - 1 /\ s = b * d + e
  BY <1>4, Divided
<1>6. PICK z \in Int : z = a + d
  BY <1>1, <1>4
<1>7. PICK t \in Int : t = x + y
  OBVIOUS
<1>8. t = b * z + e
  <2>1. b * z = b * a + b * d
    BY <1>6, <1>1, <1>4
  <2> QED
    BY <2>1, <1>2, <1>3, <1>5, <1>7
<1>9. t % b = e
  BY <1>5, <1>8, DividesTo
<1> QED
  BY <1>1, <1>3, <1>4, <1>7, <1>9

\* The whole blocks of a message.
Blocks(s) == [k \in 1 .. Len(s) \div Block |-> SubSeq(s, (k - 1) * Block + 1, k * Block)]

\* The type of the digest object.
ObjectOK(m) ==
    /\ m = [state |-> m.state, count |-> m.count, buffer |-> m.buffer, finished |-> m.finished]
    /\ m.count[1] \in Nat /\ m.count[2] \in Nat
    /\ m.buffer \in [1 .. Block -> Int]

\* A word counts the bits of a whole number of blocks.
LEMMA WordBlocks ==
  ASSUME Md5Sizes
  PROVE  /\ Word \div (8 * Block) \in Nat \ {0} /\ Word = 8 * (Block * (Word \div (8 * Block)))
         /\ Word \div 8 = Block * (Word \div (8 * Block))
<1> DEFINE k == Word \div (8 * Block)
<1>0. Block \in Nat /\ Block > 1 /\ Word \in Nat /\ Word > 0 /\ Word % (8 * Block) = 0
  BY DEF Md5Sizes
<1>1. 8 * Block \in Int /\ 8 * Block > 0
  BY <1>0
<1>2. k \in Int /\ Word = (8 * Block) * k
  BY <1>0, <1>1, Divided
<1> HIDE DEF k
<1>3. (8 * Block) * k = 8 * (Block * k)
  BY <1>0, <1>2
<1>4. k > 0
  <2>1. SUFFICES ASSUME k <= 0 PROVE FALSE
    BY <1>2
  <2>2. (8 * Block) * k <= 0
    BY <2>1, <1>1, <1>2
  <2> QED
    BY <2>2, <1>2, <1>0
<1>5. Block * k \in Int
  BY <1>0, <1>2
<1>6. Word \div 8 = Block * k
  BY <1>2, <1>3, <1>5
<1> QED
  BY <1>2, <1>3, <1>4, <1>6 DEF k

\* The number of bits gives back the number of bytes in the buffer.
LEMMA IndexRead ==
  ASSUME Md5Sizes, NEW L \in Nat
  PROVE  (((8 * L) % Word) \div 8) % Block = L % Block
<1> DEFINE k == Word \div (8 * Block)
           q == (8 * L) \div Word
           r == (8 * L) % Word
           v == L \div Block
           u == L % Block
<1>0. Block \in Nat /\ Block > 1 /\ Word \in Nat /\ Word > 0
  BY DEF Md5Sizes
<1>1. k \in Nat /\ Word = 8 * (Block * k)
  BY WordBlocks
<1>2. q \in Int /\ r \in 0 .. Word - 1 /\ 8 * L = Word * q + r
  BY <1>0, Divided
<1>3. v \in Int /\ u \in 0 .. Block - 1 /\ L = Block * v + u
  BY <1>0, Divided
<1> HIDE DEF k, q, r, v, u
<1>4. PICK w \in Int : w = (Block * k) * q
  BY <1>0, <1>1, <1>2
<1>5. Word * q = 8 * w
  <2>1. Word * q = (8 * (Block * k)) * q
    BY <1>1
  <2>2. (8 * (Block * k)) * q = 8 * ((Block * k) * q)
    BY <1>0, <1>1, <1>2
  <2> QED
    BY <2>1, <2>2, <1>4
<1>6. r = 8 * (L - w)
  BY <1>2, <1>4, <1>5
<1>7. r \div 8 = L - w
  BY <1>6, <1>4, <1>2
<1>8. L - w = Block * (v - k * q) + u
  <2>1. w = Block * (k * q)
    BY <1>4, <1>0, <1>1, <1>2
  <2>2. Block * (v - k * q) = Block * v - Block * (k * q)
    BY <1>0, <1>1, <1>2, <1>3
  <2> QED
    BY <2>1, <2>2, <1>3, <1>4, <1>0, <1>1, <1>2
<1>9. PICK z \in Int : z = v - k * q
  BY <1>1, <1>2, <1>3
<1>10. L - w = Block * z + u
  BY <1>8, <1>9
<1>11. (L - w) % Block = u
  <2>1. PICK x \in Int : x = L - w
    BY <1>4
  <2>2. x = Block * z + u
    BY <2>1, <1>10
  <2>3. x % Block = u
    BY <2>2, <1>0, <1>3, DividesTo
  <2> QED
    BY <2>1, <2>3
<1> QED
  BY <1>7, <1>11 DEF r, u

\* The count goes on with the carry found by comparison.
LEMMA CountAdded ==
  ASSUME Md5Sizes, NEW L \in Nat, NEW n \in 0 .. Word - 1, NEW c,
         c[1] = (8 * L) % Word, c[2] = ((8 * L) \div Word) % Word
  PROVE  /\ AddCount(c, n)[1] = (8 * (L + n)) % Word
         /\ AddCount(c, n)[2] = ((8 * (L + n)) \div Word) % Word
         /\ AddCount(c, n)[1] \in Nat /\ AddCount(c, n)[2] \in Nat
<1> DEFINE h == Word \div 8
           q == (8 * L) \div Word
           r == (8 * L) % Word
           v == n \div h
           u == n % h
           o == IF r + 8 * u >= Word THEN 1 ELSE 0
<1>0. Word \in Nat /\ Word > 0 /\ Block \in Nat
  BY DEF Md5Sizes
<1>1. h \in Int /\ h > 0 /\ Word = 8 * h
  <2>1. Word \div (8 * Block) \in Int /\ Word = 8 * (Block * (Word \div (8 * Block))) /\ h = Block * (Word \div (8 * Block))
    BY WordBlocks
  <2>2. Block * (Word \div (8 * Block)) \in Int
    BY <2>1, <1>0
  <2> QED
    BY <2>1, <2>2, <1>0
<1>2. q \in Int /\ r \in 0 .. Word - 1 /\ 8 * L = Word * q + r
  BY <1>0, Divided
<1>3. v \in Int /\ u \in 0 .. h - 1 /\ n = h * v + u
  BY <1>1, Divided
<1> HIDE DEF h, q, r, v, u
<1>4. 8 * n = Word * v + 8 * u /\ 8 * u \in 0 .. Word - 1
  <2>1. 8 * n = 8 * (h * v) + 8 * u
    BY <1>1, <1>3
  <2>2. Word * v = 8 * (h * v)
    BY <1>1, <1>3
  <2> QED
    BY <2>1, <2>2, <1>1, <1>3
<1>5. (8 * n) \div Word = v /\ (8 * n) % Word = 8 * u
  <2>1. PICK x \in Int, y \in 0 .. Word - 1 : x = 8 * n /\ y = 8 * u
    BY <1>4
  <2>2. x = Word * v + y
    BY <2>1, <1>4
  <2>3. x \div Word = v /\ x % Word = y
    BY <2>2, <1>0, <1>3, DividesTo
  <2> QED
    BY <2>1, <2>3
<1>6. o \in {0, 1} /\ r + 8 * u - Word * o \in 0 .. Word - 1
  BY <1>0, <1>2, <1>4, <1>3
<1> HIDE DEF o
<1>7. 8 * (L + n) = Word * (q + v + o) + (r + 8 * u - Word * o)
  <2>1. Word * (q + v + o) = Word * q + Word * v + Word * o
    BY <1>0, <1>2, <1>3, <1>6
  <2> QED
    BY <2>1, <1>0, <1>2, <1>3, <1>4, <1>6
<1>8. (8 * (L + n)) \div Word = q + v + o /\ (8 * (L + n)) % Word = r + 8 * u - Word * o
  <2>1. PICK x \in Int, z \in Int, y \in 0 .. Word - 1 :
            x = 8 * (L + n) /\ z = q + v + o /\ y = r + 8 * u - Word * o
    BY <1>2, <1>3, <1>6
  <2>2. x = Word * z + y
    BY <2>1, <1>7
  <2>3. x \div Word = z /\ x % Word = y
    BY <2>2, <1>0, DividesTo
  <2> QED
    BY <2>1, <2>3
<1>9. (r + 8 * u) % Word = r + 8 * u - Word * o
  <2>1. PICK x \in Int, y \in 0 .. Word - 1 : x = r + 8 * u /\ y = r + 8 * u - Word * o
    BY <1>2, <1>3, <1>6
  <2>2. x = Word * o + y
    BY <2>1, <1>0, <1>2, <1>3, <1>6
  <2>3. x % Word = y
    BY <2>2, <1>0, <1>6, DividesTo
  <2> QED
    BY <2>1, <2>3
<1>10. n % Word = n
  BY <1>0
<1>11. ((r + 8 * u) % Word < 8 * u) <=> (o = 1)
  BY <1>9, <1>0, <1>2, <1>3, <1>4, <1>6 DEF o
<1>12. AddCount(c, n)[1] = (r + 8 * u) % Word
  BY <1>5 DEF AddCount, r
<1>13. AddCount(c, n)[2] = ((q % Word) + o + v) % Word
  <2>1. AddCount(c, n)[2] =
          (c[2] + (IF (c[1] + ((n * 8) % Word)) % Word < (n * 8) % Word THEN 1 ELSE 0)
                + ((n % Word) \div (Word \div 8))) % Word
    BY DEF AddCount
  <2>2. (n * 8) % Word = 8 * u /\ c[1] = r /\ c[2] = q % Word
    BY <1>5 DEF r, q
  <2>3. (n % Word) \div (Word \div 8) = v
    BY <1>10 DEF v, h
  <2>4. (IF (r + 8 * u) % Word < 8 * u THEN 1 ELSE 0) = o
    BY <1>11, <1>6
  <2> QED
    BY <2>1, <2>2, <2>3, <2>4
<1>14. ((q % Word) + o + v) % Word = (q + v + o) % Word
  <2>1. PICK y \in Int : y = o + v
    BY <1>3, <1>6
  <2>2. ((q % Word) + y) % Word = (q + y) % Word
    <3>1. Word \in Int /\ Word > 0 /\ q \in Int /\ y \in Int
      BY <2>1, <1>0, <1>2
    <3> QED
      BY <3>1, RestAdded, Zenon
  <2>3. q % Word \in Int
    BY <1>0, <1>2, Divided
  <2>4. (q % Word) + y = (q % Word) + o + v /\ q + y = q + v + o
    BY <2>1, <2>3, <1>2, <1>3, <1>6
  <2> QED
    BY <2>2, <2>4
<1>15. AddCount(c, n)[1] = (8 * (L + n)) % Word
  BY <1>12, <1>9, <1>8
<1>16. AddCount(c, n)[2] = ((8 * (L + n)) \div Word) % Word
  BY <1>13, <1>14, <1>8
<1>17. (8 * (L + n)) % Word \in Nat /\ (8 * (L + n)) \div Word \in Int
  BY <1>8, <1>6, <1>2, <1>3
<1>18. ((8 * (L + n)) \div Word) % Word \in Nat
  BY <1>17, <1>0
<1> QED
  BY <1>15, <1>16, <1>17, <1>18

\* Bytes and blocks of two messages one after the other.
LEMMA Joined ==
  ASSUME NEW s \in Seq(Int), NEW x \in Seq(Int)
  PROVE  /\ s \o x \in Seq(Int) /\ Len(s \o x) = Len(s) + Len(x)
         /\ \A i \in 1 .. Len(s) : (s \o x)[i] = s[i]
         /\ \A i \in 1 .. Len(x) : (s \o x)[Len(s) + i] = x[i]
OBVIOUS

\* A block of a message, byte by byte.
LEMMA BlockBytes ==
  ASSUME Block \in Nat, Block > 1, NEW s \in Seq(Int), NEW a \in Nat, a + Block <= Len(s)
  PROVE  /\ SubSeq(s, a + 1, a + Block) \in [1 .. Block -> Int]
         /\ \A i \in 1 .. Block : SubSeq(s, a + 1, a + Block)[i] = s[a + i]
<1>1. /\ SubSeq(s, a + 1, a + Block) \in Seq(Int)
      /\ Len(SubSeq(s, a + 1, a + Block)) = Block
      /\ \A i \in 1 .. Block : SubSeq(s, a + 1, a + Block)[i] = s[a + i]
  <2>1. PICK b \in Int, c \in Int : b = a + 1 /\ c = a + Block
    OBVIOUS
  <2>2. \A i \in b .. c : s[i] \in Int
    BY <2>1
  <2>3. /\ SubSeq(s, b, c) \in Seq(Int)
        /\ Len(SubSeq(s, b, c)) = IF b <= c THEN c - b + 1 ELSE 0
        /\ \A i \in 1 .. c - b + 1 : SubSeq(s, b, c)[i] = s[b + i - 1]
    BY <2>2, SubSeqProperties
  <2>4. b <= c /\ c - b + 1 = Block /\ \A i \in 1 .. Block : b + i - 1 = a + i
    BY <2>1
  <2> QED
    BY <2>1, <2>3, <2>4
<1>2. SubSeq(s, a + 1, a + Block) \in [1 .. Len(SubSeq(s, a + 1, a + Block)) -> Int]
  BY <1>1, LenProperties
<1> QED
  BY <1>1, <1>2

\* What the blocks of a message are.
LEMMA BlocksOf ==
  ASSUME Block \in Nat, Block > 1, NEW s \in Seq(Int), NEW q \in Nat, NEW r \in 0 .. Block - 1,
         Len(s) = Block * q + r
  PROVE  /\ Blocks(s) \in Seq([1 .. Block -> Int]) /\ Len(Blocks(s)) = q
         /\ \A k \in 1 .. q : \A i \in 1 .. Block : Blocks(s)[k][i] = s[(k - 1) * Block + i]
<1>1. Len(s) \div Block = q
  <2>1. PICK l \in Int : l = Len(s)
    OBVIOUS
  <2> QED
    BY <2>1, DividesTo
<1>2. q * Block <= Len(s)
  OBVIOUS
<1>3. ASSUME NEW k \in 1 .. q
      PROVE  /\ SubSeq(s, (k - 1) * Block + 1, k * Block) \in [1 .. Block -> Int]
             /\ \A i \in 1 .. Block : SubSeq(s, (k - 1) * Block + 1, k * Block)[i] = s[(k - 1) * Block + i]
  <2>1. PICK a \in Nat : a = (k - 1) * Block
    <3>1. k - 1 \in Nat
      OBVIOUS
    <3> QED
      BY <3>1
  <2>2. k * Block = a + Block
    BY <2>1
  <2>3. a + Block <= Len(s)
    <3>1. k * Block <= q * Block
      OBVIOUS
    <3> QED
      BY <3>1, <2>2, <1>2, <2>1
  <2>4. /\ SubSeq(s, a + 1, a + Block) \in [1 .. Block -> Int]
        /\ \A i \in 1 .. Block : SubSeq(s, a + 1, a + Block)[i] = s[a + i]
    BY <2>1, <2>3, BlockBytes
  <2> QED
    BY <2>4, <2>1, <2>2
<1>4. Blocks(s) = [k \in 1 .. q |-> SubSeq(s, (k - 1) * Block + 1, k * Block)]
  BY <1>1 DEF Blocks
<1>5. Blocks(s) \in [1 .. q -> [1 .. Block -> Int]]
  BY <1>3, <1>4
<1>6. Blocks(s) \in Seq([1 .. Block -> Int]) /\ Len(Blocks(s)) = q
  BY <1>5
<1>7. \A k \in 1 .. q : Blocks(s)[k] = SubSeq(s, (k - 1) * Block + 1, k * Block)
  BY <1>4
<1> QED
  BY <1>3, <1>6, <1>7

\* A sequence of q blocks that agrees with the message byte by byte is its blocks.
LEMMA BlocksSame ==
  ASSUME Block \in Nat, Block > 1, NEW s \in Seq(Int), NEW q \in Nat, NEW r \in 0 .. Block - 1,
         Len(s) = Block * q + r, NEW t \in Seq([1 .. Block -> Int]), Len(t) = q,
         \A k \in 1 .. q : \A i \in 1 .. Block : t[k][i] = s[(k - 1) * Block + i]
  PROVE  t = Blocks(s)
<1>1. /\ Blocks(s) \in Seq([1 .. Block -> Int]) /\ Len(Blocks(s)) = q
      /\ \A k \in 1 .. q : \A i \in 1 .. Block : Blocks(s)[k][i] = s[(k - 1) * Block + i]
  BY BlocksOf
<1>2. ASSUME NEW k \in 1 .. q PROVE t[k] = Blocks(s)[k]
  <2> DEFINE f == t[k]
             g == Blocks(s)[k]
  <2>1. f \in [1 .. Block -> Int] /\ g \in [1 .. Block -> Int]
    <3>1. k \in 1 .. Len(t) /\ k \in 1 .. Len(Blocks(s))
      BY <1>1
    <3> QED
      BY <3>1, <1>1, ElementOfSeq
  <2>2. \A i \in 1 .. Block : f[i] = g[i]
    BY <1>1
  <2> HIDE DEF f, g
  <2>3. f = g
    BY <2>1, <2>2
  <2> QED
    BY <2>3 DEF f, g
<1> QED
  BY <1>1, <1>2, SeqEqual

\* memcpy into the buffer.
LEMMA PutRead ==
  ASSUME Block \in Nat, Block > 1, NEW b \in [1 .. Block -> Int], NEW x \in Seq(Int),
         NEW k \in Nat, k + Len(x) <= Block
  PROVE  /\ Put(b, k, x) \in [1 .. Block -> Int]
         /\ \A i \in 1 .. k : Put(b, k, x)[i] = b[i]
         /\ \A i \in 1 .. Len(x) : Put(b, k, x)[k + i] = x[i]
<1>1. Len(x) \in Nat
  OBVIOUS
<1>2. ASSUME NEW i \in 1 .. Block
      PROVE  (IF i \in k + 1 .. k + Len(x) THEN x[i - k] ELSE b[i]) \in Int
  <2>1. CASE i \in k + 1 .. k + Len(x)
    <3>1. i - k \in 1 .. Len(x)
      BY <2>1, <1>1
    <3> QED
      BY <3>1, <2>1
  <2> QED
    BY <2>1
<1>3. Put(b, k, x) \in [1 .. Block -> Int]
  BY <1>2 DEF Put
<1>4. \A i \in 1 .. Block : Put(b, k, x)[i] = IF i \in k + 1 .. k + Len(x) THEN x[i - k] ELSE b[i]
  BY DEF Put
<1>5. ASSUME NEW i \in 1 .. k PROVE Put(b, k, x)[i] = b[i]
  <2>1. i \in 1 .. Block /\ i \notin k + 1 .. k + Len(x)
    BY <1>1
  <2> QED
    BY <2>1, <1>4
<1>6. ASSUME NEW i \in 1 .. Len(x) PROVE Put(b, k, x)[k + i] = x[i]
  <2>1. PICK j \in 1 .. Block : j = k + i
    BY <1>1
  <2>2. j \in k + 1 .. k + Len(x) /\ j - k = i
    BY <2>1, <1>1
  <2>3. Put(b, k, x)[j] = x[i]
    BY <2>2, <1>4
  <2> QED
    BY <2>1, <2>3
<1> QED
  BY <1>3, <1>5, <1>6

\* The index is in the buffer.
LEMMA IndexInside ==
  ASSUME Md5Sizes, NEW m, m.count[1] \in Nat
  PROVE  Index(m) \in 0 .. Block - 1
<1>1. PICK c \in Nat : c = m.count[1]
  OBVIOUS
<1>2. PICK d \in Int : d = c \div 8
  BY <1>1
<1>3. d % Block \in 0 .. Block - 1
  BY <1>2, Divided DEF Md5Sizes
<1> QED
  BY <1>1, <1>2, <1>3 DEF Index

\* update with less than what fills the buffer.
LEMMA UpdateKeeps ==
  ASSUME Md5Sizes, NEW m, ObjectOK(m), NEW x \in Seq(Int), Len(x) < Block - Index(m)
  PROVE  /\ update(m, x).state = m.state
         /\ update(m, x).count = AddCount(m.count, Len(x))
         /\ update(m, x).buffer = Put(m.buffer, Index(m), x)
         /\ update(m, x).finished = FALSE
         /\ update(m, x) = [state |-> update(m, x).state, count |-> update(m, x).count,
                            buffer |-> update(m, x).buffer, finished |-> update(m, x).finished]
<1>0. Block \in Nat /\ Block > 1
  BY DEF Md5Sizes
<1>1. Index(m) \in 0 .. Block - 1
  BY IndexInside DEF ObjectOK
<1>2. ~(Len(x) >= Block - Index(m))
  BY <1>0, <1>1
<1>3. update(m, x) = [[m EXCEPT !.finished = FALSE, !.count = AddCount(@, Len(x))]
                        EXCEPT !.buffer = Put(@, Index(m), x)]
  BY <1>2 DEF update
<1>4. m = [state |-> m.state, count |-> m.count, buffer |-> m.buffer, finished |-> m.finished]
  BY DEF ObjectOK
<1> QED
  BY <1>3, <1>4

\* Quotients of natural numbers.
LEMMA QuotientNat ==
  ASSUME NEW a \in Nat, NEW b \in Nat, b > 0
  PROVE  a \div b \in Nat
<1>1. PICK q \in Int, r \in Int : q = a \div b /\ r = a % b
  BY Divided
<1>2. r \in 0 .. b - 1 /\ a = b * q + r
  BY <1>1, Divided
<1>3. ~(q <= -1)
  <2>1. SUFFICES ASSUME q <= -1 PROVE FALSE
    OBVIOUS
  <2>2. b * q <= b * (-1)
    BY <2>1, <1>1
  <2>3. b * (-1) = -b
    OBVIOUS
  <2> QED
    BY <2>2, <2>3, <1>1, <1>2
<1> QED
  BY <1>1, <1>3

\* The object stands for s, whose length is L: q blocks and r bytes.
StandsWith(m, s, L, q, r) ==
    /\ L \in Nat /\ q \in Nat /\ r \in 0 .. Block - 1
    /\ Len(s) = L /\ L = Block * q + r
    /\ m.state = Blocks(s) /\ m.buffer \in [1 .. Block -> Int]
    /\ \A i \in 1 .. r : m.buffer[i] = s[q * Block + i]

\* Bytes that do not fill the buffer: no block is whole.
LEMMA StandsKept ==
  ASSUME Block \in Nat, Block > 1, NEW m, NEW s \in Seq(Int), NEW L, NEW q, NEW r, StandsWith(m, s, L, q, r),
         NEW x \in Seq(Int), NEW n \in Nat, n = Len(x), n < Block - r,
         NEW u, u.state = m.state, u.buffer = Put(m.buffer, r, x)
  PROVE  StandsWith(u, s \o x, L + n, q, r + n)
<1> DEFINE y == s \o x
<1>1. L \in Nat /\ q \in Nat /\ r \in 0 .. Block - 1 /\ L = Block * q + r /\ Len(s) = L
  BY DEF StandsWith
<1>2. /\ y \in Seq(Int) /\ Len(y) = L + n
      /\ \A i \in 1 .. L : y[i] = s[i]
      /\ \A i \in 1 .. n : y[L + i] = x[i]
  <2>1. /\ s \o x \in Seq(Int) /\ Len(s \o x) = Len(s) + Len(x)
        /\ \A i \in 1 .. Len(s) : (s \o x)[i] = s[i]
        /\ \A i \in 1 .. Len(x) : (s \o x)[Len(s) + i] = x[i]
    BY Joined
  <2>2. Len(s) = L /\ Len(x) = n
    BY <1>1
  <2> QED
    BY <2>1, <2>2, Zenon
<1>3. /\ m.state = Blocks(s) /\ m.buffer \in [1 .. Block -> Int]
      /\ \A i \in 1 .. r : m.buffer[i] = s[q * Block + i]
  BY DEF StandsWith
<1>4. L \in Nat /\ q \in Nat
  BY <1>1
<1> HIDE DEF y
<1>6. L + n = Block * q + (r + n) /\ r + n \in 0 .. Block - 1 /\ L + n \in Nat
  BY <1>1
<1>7. /\ Blocks(s) \in Seq([1 .. Block -> Int]) /\ Len(Blocks(s)) = q
      /\ \A k \in 1 .. q : \A i \in 1 .. Block : Blocks(s)[k][i] = s[(k - 1) * Block + i]
  <2>1. Len(s) = Block * q + r /\ q \in Nat /\ r \in 0 .. Block - 1
    BY <1>1
  <2> QED
    BY <2>1, BlocksOf, Zenon
<1>8. ASSUME NEW k \in 1 .. q, NEW i \in 1 .. Block
      PROVE  Blocks(s)[k][i] = y[(k - 1) * Block + i]
  <2>1. PICK a \in Nat : a = (k - 1) * Block
    <3>1. k - 1 \in Nat
      BY <1>1
    <3> QED
      BY <3>1
  <2>2. a + Block <= L
    <3>1. PICK c \in Nat, d \in Nat : c = k * Block /\ d = q * Block
      BY <1>1
    <3>2. c = a + Block
      BY <3>1, <2>1, <1>1
    <3>3. c <= d /\ d <= L
      BY <3>1, <1>1
    <3> QED
      BY <3>2, <3>3, <3>1, <1>4
  <2>3. a + i \in 1 .. L
    BY <2>2, <1>4
  <2> QED
    BY <2>1, <2>3, <1>2, <1>7
<1>9. Blocks(s) = Blocks(y)
  <2>1. PICK e \in 0 .. Block - 1 : e = r + n
    BY <1>6
  <2>2. Len(y) = Block * q + e
    BY <2>1, <1>2, <1>6
  <2> QED
    BY <2>1, <2>2, <1>1, <1>2, <1>7, <1>8, BlocksSame
<1>10. /\ u.buffer \in [1 .. Block -> Int]
       /\ \A i \in 1 .. r : u.buffer[i] = m.buffer[i]
       /\ \A i \in 1 .. n : u.buffer[r + i] = x[i]
  <2>1. r \in Nat /\ r + Len(x) <= Block
    BY <1>1
  <2>2. /\ Put(m.buffer, r, x) \in [1 .. Block -> Int]
        /\ \A i \in 1 .. r : Put(m.buffer, r, x)[i] = m.buffer[i]
        /\ \A i \in 1 .. Len(x) : Put(m.buffer, r, x)[r + i] = x[i]
    BY <2>1, <1>3, PutRead
  <2> QED
    BY <2>2
<1>11. ASSUME NEW i \in 1 .. r + n PROVE u.buffer[i] = y[q * Block + i]
  <2>1. PICK Q \in Nat : Q = q * Block
    BY <1>1
  <2>2. L = Q + r
    BY <2>1, <1>1
  <2>3. L \in Nat /\ r \in Nat
    BY <1>1
  <2>4. CASE i <= r
    <3>1. i \in 1 .. r /\ Q + i \in 1 .. L
      BY <2>2, <2>3, <2>4
    <3> QED
      BY <3>1, <2>1, <1>2, <1>3, <1>10
  <2>5. CASE i > r
    <3>1. PICK j \in 1 .. n : i = r + j
      <4>1. i - r \in 1 .. n /\ i = r + (i - r)
        BY <2>3, <2>5
      <4> QED
        BY <4>1
    <3>2. Q + i = L + j
      BY <2>2, <2>3, <3>1
    <3> QED
      BY <3>1, <3>2, <2>1, <1>2, <1>10
  <2> QED
    BY <2>3, <2>4, <2>5
<1> QED
  BY <1>1, <1>2, <1>3, <1>6, <1>9, <1>10, <1>11 DEF StandsWith, y

\* Three parts of a sequence, the middle one a single element.
LEMMA ThreeJoined ==
  ASSUME NEW S, NEW f \in Seq(S), NEW b \in S, NEW g \in Seq(S), NEW z, z = f \o (<<b>> \o g)
  PROVE  /\ z \in Seq(S) /\ Len(z) = Len(f) + Len(g) + 1
         /\ \A k \in 1 .. Len(f) : z[k] = f[k]
         /\ z[Len(f) + 1] = b
         /\ \A k \in 1 .. Len(g) : z[Len(f) + 1 + k] = g[k]
<1>1. PICK h : h = <<b>> \o g
  OBVIOUS
<1>2. /\ h \in Seq(S) /\ Len(h) = Len(g) + 1 /\ h[1] = b
      /\ \A k \in 1 .. Len(g) : h[1 + k] = g[k]
  BY <1>1
<1>3. z = f \o h
  BY <1>1
<1>4. z \in Seq(S) /\ Len(z) = Len(f) + Len(h)
  BY <1>2, <1>3
<1>5. \A k \in 1 .. Len(f) : z[k] = f[k]
  BY <1>2, <1>3
<1>6. \A k \in 1 .. Len(h) : z[Len(f) + k] = h[k]
  BY <1>2, <1>3
<1>7. z[Len(f) + 1] = b
  <2>1. 1 \in 1 .. Len(h)
    BY <1>2
  <2> QED
    BY <2>1, <1>6, <1>2
<1>8. ASSUME NEW k \in 1 .. Len(g) PROVE z[Len(f) + 1 + k] = g[k]
  <2>1. 1 + k \in 1 .. Len(h) /\ Len(f) + 1 + k = Len(f) + (1 + k)
    BY <1>2
  <2>2. z[Len(f) + (1 + k)] = h[1 + k]
    BY <2>1, <1>6
  <2> QED
    BY <2>1, <2>2, <1>2
<1> QED
  BY <1>2, <1>4, <1>5, <1>7, <1>8

\* n bytes x, p of which fill the buffer that has r, with w blocks and t bytes after.
FilledBy(x, n, r, p, w, t) ==
    /\ n \in Nat /\ n = Len(x) /\ r \in 0 .. Block - 1 /\ p = Block - r
    /\ w \in Nat /\ t \in 0 .. Block - 1 /\ n = p + Block * w + t

\* The object u that update makes of m then.
FilledObject(u, m, x, n, r, p, w) ==
    LET first == Put(m.buffer, r, SubSeq(x, 1, p))
    IN  /\ u.state = m.state \o (<<first>> \o
              [k \in 1 .. w |-> SubSeq(x, p + (k - 1) * Block + 1, p + k * Block)])
        /\ u.buffer = Put(first, 0, SubSeq(x, p + w * Block + 1, n))

\* update with what fills the buffer, and more.
LEMMA UpdateFills ==
  ASSUME Md5Sizes, NEW m, ObjectOK(m), NEW x \in Seq(Int), NEW r, r = Index(m),
         NEW p, NEW w, NEW t, FilledBy(x, Len(x), r, p, w, t)
  PROVE  /\ FilledObject(update(m, x), m, x, Len(x), r, p, w)
         /\ update(m, x).count = AddCount(m.count, Len(x))
         /\ update(m, x).finished = FALSE
         /\ update(m, x) = [state |-> update(m, x).state, count |-> update(m, x).count,
                            buffer |-> update(m, x).buffer, finished |-> update(m, x).finished]
<1> DEFINE first == Put(m.buffer, r, SubSeq(x, 1, p))
           blocks == [k \in 1 .. w |-> SubSeq(x, p + (k - 1) * Block + 1, p + k * Block)]
<1>1. Len(x) >= Block - r /\ p = Block - r /\ w = (Len(x) - p) \div Block
  <2>1. /\ Block \in Int /\ Block > 0 /\ r \in Int /\ p = Block - r
        /\ w \in Nat /\ t \in 0 .. Block - 1 /\ Len(x) = p + Block * w + t
    BY DEF FilledBy, Md5Sizes
  <2>2. PICK a \in Nat : a = Block * w + t
    BY <2>1
  <2>3. a \div Block = w
    <3>1. CutInto(a, Block, w, t)
      BY <2>1, <2>2 DEF CutInto
    <3> QED
      BY <3>1, CutTo
  <2>4. Len(x) = p + a /\ p \in Int /\ p = Block - r
    BY <2>1, <2>2, SMTT(40)
  <2>5. Len(x) - p = a /\ Len(x) >= p
    BY <2>4
  <2> QED
    BY <2>3, <2>4, <2>5
<1>2. update(m, x) = [[m EXCEPT !.finished = FALSE, !.count = AddCount(@, Len(x))]
                        EXCEPT !.state = transform(@, <<first>> \o blocks),
                               !.buffer = Put(first, 0, SubSeq(x, p + w * Block + 1, Len(x)))]
  BY <1>1, Zenon DEF update
<1>3. m = [state |-> m.state, count |-> m.count, buffer |-> m.buffer, finished |-> m.finished]
  BY DEF ObjectOK
<1> HIDE DEF first, blocks
<1>4. /\ update(m, x).state = m.state \o (<<first>> \o blocks)
      /\ update(m, x).count = AddCount(m.count, Len(x))
      /\ update(m, x).buffer = Put(first, 0, SubSeq(x, p + w * Block + 1, Len(x)))
      /\ update(m, x).finished = FALSE
      /\ update(m, x) = [state |-> update(m, x).state, count |-> update(m, x).count,
                         buffer |-> update(m, x).buffer, finished |-> update(m, x).finished]
  BY <1>2, <1>3 DEF transform
<1>5. FilledObject(update(m, x), m, x, Len(x), r, p, w)
  BY <1>4, Zenon DEF FilledObject, first, blocks
<1> QED
  BY <1>4, <1>5

\* Bytes that fill the buffer: it is a block, whole blocks of the bytes follow,
\* and the rest is in the buffer.
LEMMA StandsFilled ==
  ASSUME Block \in Nat, Block > 1, NEW m, NEW s \in Seq(Int), NEW L, NEW q, NEW r, StandsWith(m, s, L, q, r),
         NEW x \in Seq(Int), NEW n, NEW p, NEW w, NEW t, FilledBy(x, n, r, p, w, t),
         NEW u, FilledObject(u, m, x, n, r, p, w)
  PROVE  StandsWith(u, s \o x, L + n, q + w + 1, t)
<1> DEFINE y == s \o x
           first == Put(m.buffer, r, SubSeq(x, 1, p))
           blocks == [k \in 1 .. w |-> SubSeq(x, p + (k - 1) * Block + 1, p + k * Block)]
<1>1. L \in Nat /\ q \in Nat /\ r \in 0 .. Block - 1 /\ L = Block * q + r /\ Len(s) = L
  BY DEF StandsWith
<1>a. /\ n \in Nat /\ n = Len(x) /\ p = Block - r /\ p \in 1 .. Block
      /\ w \in Nat /\ t \in 0 .. Block - 1
  BY DEF FilledBy
<1>b. first = Put(m.buffer, r, SubSeq(x, 1, p))
  OBVIOUS
<1>c. u.state = m.state \o (<<first>> \o blocks)
  BY DEF FilledObject
<1>d. u.buffer = Put(first, 0, SubSeq(x, p + w * Block + 1, n))
  BY DEF FilledObject
<1>e. blocks = [k \in 1 .. w |-> SubSeq(x, p + (k - 1) * Block + 1, p + k * Block)]
  OBVIOUS
<1>2. /\ y \in Seq(Int) /\ Len(y) = L + n
      /\ \A i \in 1 .. L : y[i] = s[i]
      /\ \A i \in 1 .. n : y[L + i] = x[i]
  <2>1. /\ s \o x \in Seq(Int) /\ Len(s \o x) = Len(s) + Len(x)
        /\ \A i \in 1 .. Len(s) : (s \o x)[i] = s[i]
        /\ \A i \in 1 .. Len(x) : (s \o x)[Len(s) + i] = x[i]
    BY Joined
  <2>2. Len(s) = L /\ Len(x) = n
    BY <1>1, <1>a
  <2> QED
    BY <2>1, <2>2, Zenon
<1>3. /\ m.state = Blocks(s) /\ m.buffer \in [1 .. Block -> Int]
      /\ \A i \in 1 .. r : m.buffer[i] = s[q * Block + i]
  BY DEF StandsWith
<1> HIDE DEF y, first, blocks
<1>4. PICK Q \in Nat, W \in Nat : Q = q * Block /\ W = w * Block
  BY <1>1, <1>a
<1>5. /\ L = Q + r /\ n = p + W + t /\ p + r = Block /\ L \in Nat /\ n \in Nat /\ q \in Nat
      /\ r \in 0 .. Block - 1 /\ p \in 1 .. Block /\ Q \in Nat /\ W \in Nat
      /\ w \in Nat /\ t \in 0 .. Block - 1
  <2>1. L = Q + r
    BY <1>1, <1>4
  <2>2. n = p + W + t
    BY <1>4 DEF FilledBy
  <2> QED
    BY <2>1, <2>2, <1>1, <1>4, <1>a
<1>6. /\ Blocks(s) \in Seq([1 .. Block -> Int]) /\ Len(Blocks(s)) = q
      /\ \A k \in 1 .. q : \A i \in 1 .. Block : Blocks(s)[k][i] = s[(k - 1) * Block + i]
  <2>1. Len(s) = Block * q + r /\ q \in Nat /\ r \in 0 .. Block - 1
    BY <1>1
  <2> QED
    BY <2>1, BlocksOf, Zenon
<1>7. /\ first \in [1 .. Block -> Int]
      /\ \A i \in 1 .. r : first[i] = m.buffer[i]
      /\ \A i \in 1 .. p : first[r + i] = x[i]
  <2>1. /\ SubSeq(x, 1, p) \in Seq(Int) /\ Len(SubSeq(x, 1, p)) = p
        /\ \A i \in 1 .. p : SubSeq(x, 1, p)[i] = x[i]
    <3>1. \A i \in 1 .. p : x[i] \in Int
      BY <1>5, <1>a
    <3>2. /\ SubSeq(x, 1, p) \in Seq(Int)
          /\ Len(SubSeq(x, 1, p)) = IF 1 <= p THEN p - 1 + 1 ELSE 0
          /\ \A i \in 1 .. p - 1 + 1 : SubSeq(x, 1, p)[i] = x[1 + i - 1]
      BY <3>1, <1>5, SubSeqProperties
    <3> QED
      BY <3>2, <1>5
  <2>2. r \in Nat /\ r + Len(SubSeq(x, 1, p)) <= Block
    BY <2>1, <1>5
  <2>3. /\ first \in [1 .. Block -> Int]
        /\ \A i \in 1 .. r : first[i] = m.buffer[i]
        /\ \A i \in 1 .. Len(SubSeq(x, 1, p)) : first[r + i] = SubSeq(x, 1, p)[i]
    <3>1. PICK a \in Seq(Int) : a = SubSeq(x, 1, p)
      BY <2>1
    <3>2. PICK f \in [1 .. Block -> Int] : f = m.buffer
      BY <1>3
    <3>3. r \in Nat /\ r + Len(a) <= Block
      BY <2>2, <3>1
    <3>4. /\ Put(f, r, a) \in [1 .. Block -> Int]
          /\ \A i \in 1 .. r : Put(f, r, a)[i] = f[i]
          /\ \A i \in 1 .. Len(a) : Put(f, r, a)[r + i] = a[i]
      BY <3>3, PutRead
    <3> QED
      BY <3>1, <3>2, <3>4, <1>b, Zenon
  <2> QED
    BY <2>1, <2>3
<1>8. ASSUME NEW i \in 1 .. Block PROVE first[i] = y[Q + i]
  <2>1. CASE i <= r
    <3>1. i \in 1 .. r /\ Q + i \in 1 .. L
      BY <2>1, <1>5
    <3> QED
      BY <3>1, <1>2, <1>3, <1>4, <1>7
  <2>2. CASE i > r
    <3>1. PICK j \in 1 .. p : i = r + j
      <4>1. i - r \in 1 .. p /\ i = r + (i - r)
        BY <2>2, <1>5
      <4> QED
        BY <4>1
    <3>2. Q + i = L + j /\ j \in 1 .. n
      BY <3>1, <1>5
    <3> QED
      BY <3>1, <3>2, <1>2, <1>7
  <2> QED
    BY <2>1, <2>2, <1>5, SMTT(40)
<1>9. ASSUME NEW k \in 1 .. w
      PROVE  /\ blocks[k] \in [1 .. Block -> Int]
             /\ \A i \in 1 .. Block : blocks[k][i] = y[(q + k) * Block + i]
  <2>1. PICK a \in Nat : a = (k - 1) * Block
    <3>1. k - 1 \in Nat
      BY <1>5
    <3> QED
      BY <3>1
  <2>2. k * Block = a + Block /\ a + Block <= W
    <3>1. PICK c \in Nat : c = k * Block
      BY <1>5
    <3>2. c = a + Block
      BY <3>1, <2>1, <1>5
    <3>3. c <= W
      BY <3>1, <1>4, <1>5
    <3> QED
      BY <3>1, <3>2, <3>3
  <2>3. PICK d \in Nat : d = p + a /\ d + Block <= n
    BY <2>2, <1>5
  <2>4. blocks[k] = SubSeq(x, p + (k - 1) * Block + 1, p + k * Block)
    BY <1>e
  <2>5. p + (k - 1) * Block + 1 = d + 1 /\ p + k * Block = d + Block
    BY <2>1, <2>2, <2>3, <1>5
  <2>6. blocks[k] = SubSeq(x, d + 1, d + Block)
    BY <2>4, <2>5
  <2>7. /\ SubSeq(x, d + 1, d + Block) \in [1 .. Block -> Int]
        /\ \A i \in 1 .. Block : SubSeq(x, d + 1, d + Block)[i] = x[d + i]
    BY <2>3, <1>a, BlockBytes
  <2>8. (q + k) * Block = L + d
    <3>1. (q + k) * Block = Q + k * Block
      BY <1>4, <1>5
    <3> QED
      BY <3>1, <2>2, <2>3, <1>5
  <2>9. ASSUME NEW i \in 1 .. Block PROVE x[d + i] = y[L + d + i]
    <3>1. PICK j \in 1 .. n : j = d + i
      BY <2>3, <1>5
    <3>2. L + d + i = L + j
      BY <3>1, <2>3, <1>5
    <3> QED
      BY <3>1, <3>2, <1>2
  <2> QED
    BY <2>6, <2>7, <2>8, <2>9
<1>10. PICK st \in Seq([1 .. Block -> Int]) :
         /\ st = u.state /\ Len(st) = q + w + 1
         /\ \A k \in 1 .. q : st[k] = Blocks(s)[k]
         /\ st[q + 1] = first
         /\ \A k \in 1 .. w : st[q + 1 + k] = blocks[k]
  <2>1. PICK B : B = [1 .. Block -> Int]
    OBVIOUS
  <2>2. PICK bs \in Seq(B), fs \in Seq(B), b \in B :
            bs = blocks /\ Len(bs) = w /\ fs = Blocks(s) /\ b = first
    <3>1. blocks \in [1 .. w -> B]
      BY <1>9, <1>e, <2>1
    <3>2. blocks \in Seq(B) /\ Len(blocks) = w
      BY <3>1, <1>5
    <3> QED
      BY <3>2, <1>6, <1>7, <2>1
  <2>3. Len(fs) = q
    BY <2>2, <1>6
  <2>4. PICK z : z = fs \o (<<b>> \o bs)
    OBVIOUS
  <2>5. /\ z \in Seq(B) /\ Len(z) = Len(fs) + Len(bs) + 1
        /\ \A k \in 1 .. Len(fs) : z[k] = fs[k]
        /\ z[Len(fs) + 1] = b
        /\ \A k \in 1 .. Len(bs) : z[Len(fs) + 1 + k] = bs[k]
    BY <2>4, ThreeJoined
  <2>6. /\ z \in Seq(B) /\ Len(z) = q + w + 1
        /\ \A k \in 1 .. q : z[k] = fs[k]
        /\ z[q + 1] = b
        /\ \A k \in 1 .. w : z[q + 1 + k] = bs[k]
    BY <2>2, <2>3, <2>5, Zenon
  <2>9. z = u.state
    BY <2>2, <2>4, <1>3, <1>c
  <2> QED
    BY <2>1, <2>2, <2>6, <2>9
<1>11. ASSUME NEW k \in 1 .. q + w + 1, NEW i \in 1 .. Block PROVE st[k][i] = y[(k - 1) * Block + i]
  <2>1. CASE k <= q
    <3>1. k \in 1 .. q
      BY <2>1, <1>5
    <3>2. PICK a \in Nat : a = (k - 1) * Block
      <4>1. k - 1 \in Nat
        BY <3>1, <1>5
      <4> QED
        BY <4>1
    <3>3. a + Block <= Q
      <4>1. PICK c \in Nat : c = k * Block
        BY <3>1, <1>5
      <4>2. c = a + Block
        BY <4>1, <3>1, <3>2, <1>5
      <4>3. c <= Q
        BY <4>1, <3>1, <1>4, <1>5
      <4> QED
        BY <4>2, <4>3
    <3>4. a + i \in 1 .. L
      BY <3>3, <1>5
    <3>5. st[k][i] = s[a + i]
      BY <3>1, <3>2, <1>6, <1>10
    <3> QED
      BY <3>2, <3>4, <3>5, <1>2
  <2>2. CASE k = q + 1
    <3>1. (k - 1) * Block = Q
      BY <2>2, <1>4, <1>5
    <3>2. st[k] = first
      BY <2>2, <1>10
    <3> QED
      BY <3>1, <3>2, <1>8
  <2>3. CASE k > q + 1
    <3>1. PICK j \in 1 .. w : k = q + 1 + j
      <4>1. k - q - 1 \in 1 .. w /\ k = q + 1 + (k - q - 1)
        BY <2>3, <1>5
      <4> QED
        BY <4>1
    <3>2. k - 1 = q + j
      BY <3>1, <1>5
    <3>3. st[k] = blocks[j]
      BY <3>1, <1>10
    <3>4. blocks[j][i] = y[(q + j) * Block + i]
      BY <3>1, <1>9
    <3> QED
      BY <3>2, <3>3, <3>4
  <2> QED
    BY <2>1, <2>2, <2>3, <1>5
<1>12. PICK q1 \in Nat : q1 = q + w + 1 /\ Len(y) = Block * q1 + t /\ q1 * Block = L + p + W
  <2>1. PICK q1 \in Nat : q1 = q + w + 1
    BY <1>5
  <2>2. q1 * Block = Q + W + Block
    BY <2>1, <1>4, <1>5
  <2>3. Block * q1 = q1 * Block
    BY <2>1
  <2> QED
    BY <2>1, <2>2, <2>3, <1>2, <1>5, SMTT(40)
<1>13. st = Blocks(y)
  <2>1. Len(y) = Block * q1 + t /\ t \in 0 .. Block - 1
    BY <1>5, <1>12
  <2>2. Len(st) = q1 /\ \A k \in 1 .. q1 : \A i \in 1 .. Block : st[k][i] = y[(k - 1) * Block + i]
    BY <1>10, <1>11, <1>12
  <2> QED
    BY <2>1, <2>2, <1>2, BlocksSame, Zenon
<1>14. /\ u.buffer \in [1 .. Block -> Int]
       /\ \A i \in 1 .. t : u.buffer[i] = x[p + W + i]
  <2> DEFINE rest == SubSeq(x, p + W + 1, n)
  <2>0. rest = SubSeq(x, p + w * Block + 1, n)
    BY <1>4
  <2>1. rest \in Seq(Int) /\ Len(rest) = t /\ \A i \in 1 .. t : rest[i] = x[p + W + i]
    <3>1. \A i \in p + W + 1 .. n : x[i] \in Int
      BY <1>5, <1>a
    <3>2. PICK a \in Int : a = p + W + 1
      BY <1>5
    <3>3. /\ SubSeq(x, a, n) \in Seq(Int)
          /\ Len(SubSeq(x, a, n)) = IF a <= n THEN n - a + 1 ELSE 0
          /\ \A i \in 1 .. n - a + 1 : SubSeq(x, a, n)[i] = x[a + i - 1]
      BY <3>1, <3>2, <1>5, SubSeqProperties
    <3>4. n - a + 1 = t /\ (a <= n \/ t = 0) /\ \A i \in 1 .. t : a + i - 1 = p + W + i
      BY <3>2, <1>5
    <3> QED
      BY <3>2, <3>3, <3>4
  <2> HIDE DEF rest
  <2>2. 0 \in Nat /\ 0 + Len(rest) <= Block
    BY <2>1, <1>5, SMTT(40)
  <2>3. /\ Put(first, 0, rest) \in [1 .. Block -> Int]
        /\ \A i \in 1 .. Len(rest) : Put(first, 0, rest)[0 + i] = rest[i]
    BY <2>1, <2>2, <1>7, PutRead
  <2>4. u.buffer = Put(first, 0, rest)
    BY <2>0, <1>d
  <2>5. ASSUME NEW i \in 1 .. t PROVE Put(first, 0, rest)[i] = x[p + W + i]
    <3>1. 0 + i = i
      BY <1>5
    <3> QED
      BY <3>1, <2>1, <2>3
  <2> QED
    BY <2>3, <2>4, <2>5
<1>15. ASSUME NEW i \in 1 .. t PROVE u.buffer[i] = y[q1 * Block + i]
  <2>1. PICK j \in 1 .. n : j = p + W + i
    BY <1>5
  <2>2. q1 * Block + i = L + j
    BY <2>1, <1>12, <1>5
  <2> QED
    BY <2>1, <2>2, <1>2, <1>14
<1>16. StandsWith(u, y, L + n, q1, t)
  <2>1. L + n \in Nat /\ L + n = Block * q1 + t
    BY <1>2, <1>5, <1>12, SMTT(40)
  <2> QED
    BY <2>1, <1>2, <1>5, <1>10, <1>12, <1>13, <1>14, <1>15 DEF StandsWith
<1> QED
  BY <1>16, <1>12 DEF y

\* The object represents the bytes of s: its whole blocks are compressed, the
\* rest is in the buffer, and their number of bits is in the two words.
Represents(m, s) ==
    /\ \E q, r : StandsWith(m, s, Len(s), q, r)
    /\ m.count[1] = (8 * Len(s)) % Word
    /\ m.count[2] = ((8 * Len(s)) \div Word) % Word

\* The two words of the count stay numbers.
LEMMA CountTyped ==
  ASSUME Md5Sizes, NEW c, c[1] \in Nat, c[2] \in Nat, NEW n \in Nat
  PROVE  AddCount(c, n)[1] \in Nat /\ AddCount(c, n)[2] \in Nat
<1>0. Word \in Nat /\ Word > 0
  BY DEF Md5Sizes
<1>1. PICK a \in Nat, b \in Nat : a = c[1] /\ b = c[2]
  OBVIOUS
<1>2. PICK d \in Int : d = (n * 8) % Word
  BY <1>0, Divided
<1>3. PICK e \in Int : e = (n % Word) \div (Word \div 8)
  <2>1. n % Word \in Int /\ n % Word >= 0
    BY <1>0, Divided
  <2>2. Word \div 8 \in Int /\ Word \div 8 > 0
    <3>1. Block \in Nat /\ Block > 1 /\ Word \div (8 * Block) \in Nat \ {0} /\ Word \div 8 = Block * (Word \div (8 * Block))
      BY WordBlocks DEF Md5Sizes
    <3>2. PICK k \in Nat : k > 0 /\ Word \div 8 = Block * k
      BY <3>1
    <3>3. Block * k \in Nat /\ Block * k > 0
      BY <3>1, <3>2
    <3> QED
      BY <3>2, <3>3
  <2> QED
    BY <2>1, <2>2, Divided
<1>4. (a + d) % Word \in Nat
  <2>1. PICK x \in Int : x = a + d
    BY <1>1, <1>2
  <2> QED
    BY <2>1, <1>0, Divided
<1>5. ASSUME NEW o \in {0, 1} PROVE (b + o + e) % Word \in Nat
  <2>1. PICK x \in Int : x = b + o + e
    BY <1>1, <1>3
  <2> QED
    BY <2>1, <1>0, Divided
<1>6. AddCount(c, n)[1] = (a + d) % Word
  BY <1>1, <1>2 DEF AddCount
<1>7. AddCount(c, n)[2] = (b + (IF (a + d) % Word < d THEN 1 ELSE 0) + e) % Word
  BY <1>1, <1>2, <1>3 DEF AddCount
<1> QED
  BY <1>4, <1>5, <1>6, <1>7

\* How much a chunk holds beyond what fills the buffer.
LEMMA Filling ==
  ASSUME Block \in Nat, Block > 1, NEW x \in Seq(Int), NEW r \in 0 .. Block - 1,
         NEW p, p = Block - r, Len(x) >= p
  PROVE  \E w, t : FilledBy(x, Len(x), r, p, w, t)
<1>1. PICK a \in Nat : a = Len(x) - p
  OBVIOUS
<1>2. PICK w \in Nat : w = a \div Block
  <2>1. Block > 0
    OBVIOUS
  <2>2. a \div Block \in Nat
    BY <2>1, QuotientNat
  <2> QED
    BY <2>2
<1>3. PICK t \in 0 .. Block - 1 : t = a % Block /\ a = Block * w + t
  <2>1. a % Block \in 0 .. Block - 1 /\ a = Block * (a \div Block) + (a % Block)
    BY Divided
  <2> QED
    BY <2>1, <1>2
<1>4. Len(x) = p + Block * w + t
  BY <1>1, <1>3, SMTT(40)
<1>5. FilledBy(x, Len(x), r, p, w, t)
  BY <1>4 DEF FilledBy
<1> QED
  BY <1>1, <1>2, <1>5

\* The first bytes and the last ones of a chunk.
LEMMA Parts ==
  ASSUME Block \in Nat, Block > 1, NEW x \in Seq(Int), NEW n, NEW r, NEW p, NEW w, NEW t, FilledBy(x, n, r, p, w, t)
  PROVE  /\ SubSeq(x, 1, p) \in Seq(Int) /\ Len(SubSeq(x, 1, p)) = p
         /\ SubSeq(x, p + w * Block + 1, n) \in Seq(Int) /\ Len(SubSeq(x, p + w * Block + 1, n)) = t
<1>1. /\ n = Len(x) /\ n \in Nat /\ p \in 1 .. Block /\ w \in Nat /\ t \in 0 .. Block - 1
  BY DEF FilledBy
<1>2. PICK W \in Nat : W = w * Block /\ n = p + W + t
  <2>1. PICK W \in Nat : W = w * Block
    BY <1>1
  <2>2. n = p + W + t
    BY <2>1, <1>1 DEF FilledBy
  <2> QED
    BY <2>1, <2>2
<1>3. PICK a \in Nat : a = p + W + 1 /\ a >= 1 /\ n - a + 1 = t /\ p <= n
  BY <1>1, <1>2
<1>4. SubSeq(x, 1, p) \in Seq(Int) /\ Len(SubSeq(x, 1, p)) = p
  <2>1. \A i \in 1 .. p : x[i] \in Int
    BY <1>1, <1>3
  <2>2. /\ SubSeq(x, 1, p) \in Seq(Int)
        /\ Len(SubSeq(x, 1, p)) = IF 1 <= p THEN p - 1 + 1 ELSE 0
    BY <2>1, <1>1, SubSeqProperties
  <2> QED
    BY <2>2, <1>1
<1>5. SubSeq(x, a, n) \in Seq(Int) /\ Len(SubSeq(x, a, n)) = t
  <2>1. \A i \in a .. n : x[i] \in Int
    BY <1>1, <1>3
  <2>2. /\ SubSeq(x, a, n) \in Seq(Int)
        /\ Len(SubSeq(x, a, n)) = IF a <= n THEN n - a + 1 ELSE 0
    BY <2>1, <1>1, <1>3, SubSeqProperties
  <2> QED
    BY <2>2, <1>1, <1>3
<1> QED
  BY <1>2, <1>3, <1>4, <1>5

\* update leaves an object of its type.
LEMMA UpdateTyped ==
  ASSUME Md5Sizes, NEW m, ObjectOK(m), NEW x \in Seq(Int)
  PROVE  ObjectOK(update(m, x)) /\ update(m, x).finished = FALSE
<1> DEFINE u == update(m, x)
<1>0. Block \in Nat /\ Block > 1
  BY DEF Md5Sizes
<1>1. PICK r \in 0 .. Block - 1 : r = Index(m)
  BY IndexInside DEF ObjectOK
<1>2. m.buffer \in [1 .. Block -> Int]
  BY DEF ObjectOK
<1>3. AddCount(m.count, Len(x))[1] \in Nat /\ AddCount(m.count, Len(x))[2] \in Nat
  BY CountTyped, SMTT(40) DEF ObjectOK
<1>4. CASE Len(x) < Block - r
  <2>1. /\ u.count = AddCount(m.count, Len(x)) /\ u.buffer = Put(m.buffer, r, x) /\ u.finished = FALSE
        /\ u = [state |-> u.state, count |-> u.count, buffer |-> u.buffer, finished |-> u.finished]
    BY <1>1, <1>4, UpdateKeeps
  <2>2. r \in Nat /\ r + Len(x) <= Block
    BY <1>0, <1>1, <1>4
  <2>3. Put(m.buffer, r, x) \in [1 .. Block -> Int]
    BY <2>2, <1>0, <1>2, PutRead
  <2> HIDE DEF u
  <2>4. ObjectOK(u) /\ u.finished = FALSE
    BY <2>1, <2>3, <1>3 DEF ObjectOK
  <2> QED
    BY <2>4 DEF u
<1>5. CASE ~(Len(x) < Block - r)
  <2>1. PICK p \in Int : p = Block - r /\ Len(x) >= p
    BY <1>0, <1>1, <1>5
  <2>2. PICK w, t : FilledBy(x, Len(x), r, p, w, t)
    BY <2>1, <1>0, <1>1, Filling
  <2>3. w \in Int /\ t \in 0 .. Block - 1
    BY <2>2 DEF FilledBy
  <2>4. /\ u.count = AddCount(m.count, Len(x)) /\ u.finished = FALSE
        /\ u.buffer = Put(Put(m.buffer, r, SubSeq(x, 1, p)), 0, SubSeq(x, p + w * Block + 1, Len(x)))
        /\ u = [state |-> u.state, count |-> u.count, buffer |-> u.buffer, finished |-> u.finished]
    <3>1. /\ FilledObject(u, m, x, Len(x), r, p, w)
          /\ u.count = AddCount(m.count, Len(x)) /\ u.finished = FALSE
          /\ u = [state |-> u.state, count |-> u.count, buffer |-> u.buffer, finished |-> u.finished]
      BY <2>2, <1>1, UpdateFills
    <3> QED
      BY <3>1, Zenon DEF FilledObject
  <2>5. /\ SubSeq(x, 1, p) \in Seq(Int) /\ Len(SubSeq(x, 1, p)) = p
        /\ SubSeq(x, p + w * Block + 1, Len(x)) \in Seq(Int)
        /\ Len(SubSeq(x, p + w * Block + 1, Len(x))) = t
    BY <2>2, <1>0, Parts
  <2>6. PICK a \in Seq(Int), b \in Seq(Int) :
           /\ a = SubSeq(x, 1, p) /\ Len(a) = p /\ Len(b) = t
           /\ u.buffer = Put(Put(m.buffer, r, a), 0, b)
    BY <2>4, <2>5, Zenon
  <2>9. Put(m.buffer, r, a) \in [1 .. Block -> Int]
    <3>1. r \in Nat /\ r + Len(a) <= Block
      BY <2>1, <2>6, <1>0, <1>1
    <3> QED
      BY <3>1, <2>6, <1>0, <1>2, PutRead
  <2>7. u.buffer \in [1 .. Block -> Int]
    <3>1. PICK f \in [1 .. Block -> Int] : f = Put(m.buffer, r, a)
      BY <2>9
    <3>2. 0 \in Nat /\ 0 + Len(b) <= Block
      BY <2>3, <2>6, <1>0
    <3>3. Put(f, 0, b) \in [1 .. Block -> Int]
      BY <3>2, <2>6, <1>0, PutRead
    <3> QED
      BY <3>1, <3>3, <2>6
  <2> HIDE DEF u
  <2>8. ObjectOK(u) /\ u.finished = FALSE
    BY <2>4, <2>7, <1>3 DEF ObjectOK
  <2> QED
    BY <2>8 DEF u
<1> QED
  BY <1>4, <1>5

\* update goes on with the bytes.
LEMMA UpdateRepresents ==
  ASSUME Md5Sizes, NEW m, ObjectOK(m), NEW s \in Seq(Int), Represents(m, s),
         NEW x \in Seq(Int), Len(x) < Word
  PROVE  Represents(update(m, x), s \o x)
<1> DEFINE u == update(m, x)
           y == s \o x
<1>0. Block \in Nat /\ Block > 1
  BY DEF Md5Sizes
<1>1. PICK q, r : StandsWith(m, s, Len(s), q, r)
  BY DEF Represents
<1>2. r \in 0 .. Block - 1 /\ Len(s) \in Nat /\ q \in Nat /\ Len(s) = Block * q + r
  BY <1>1 DEF StandsWith
<1>3. Index(m) = r
  <2>1. Len(s) % Block = r
    <3>1. CutInto(Len(s), Block, q, r)
      BY <1>0, <1>2 DEF CutInto
    <3> QED
      BY <3>1, CutTo
  <2>2. Index(m) = (((8 * Len(s)) % Word) \div 8) % Block
    BY DEF Index, Represents
  <2> QED
    BY <2>1, <2>2, <1>2, IndexRead
<1>4. Len(x) \in 0 .. Word - 1 /\ Len(y) = Len(s) + Len(x)
  <2>1. Word \in Nat
    BY DEF Md5Sizes
  <2> QED
    BY <2>1
<1>5. /\ AddCount(m.count, Len(x))[1] = (8 * (Len(s) + Len(x))) % Word
      /\ AddCount(m.count, Len(x))[2] = ((8 * (Len(s) + Len(x))) \div Word) % Word
  BY <1>2, <1>4, CountAdded DEF Represents
<1>6. (\E a, b : StandsWith(u, y, Len(s) + Len(x), a, b)) /\ u.count = AddCount(m.count, Len(x))
  <2>1. CASE Len(x) < Block - r
    <3>1. u.count = AddCount(m.count, Len(x)) /\ u.buffer = Put(m.buffer, r, x) /\ u.state = m.state
      BY <1>3, <2>1, UpdateKeeps
    <3> HIDE DEF u
    <3>2. PICK n \in Nat : n = Len(x)
      OBVIOUS
    <3>3. StandsWith(u, s \o x, Len(s) + n, q, r + n)
      BY <3>1, <3>2, <2>1, <1>0, <1>1, StandsKept
    <3> QED
      BY <3>1, <3>2, <3>3
  <2>2. CASE ~(Len(x) < Block - r)
    <3>1. PICK p \in Int : p = Block - r /\ Len(x) >= p
      BY <2>2, <1>0, <1>2
    <3>2. PICK w, t : FilledBy(x, Len(x), r, p, w, t)
      BY <3>1, <1>0, <1>2, Filling
    <3>3. w \in Int
      BY <3>2 DEF FilledBy
    <3>4. u.count = AddCount(m.count, Len(x)) /\ FilledObject(u, m, x, Len(x), r, p, w)
      BY <3>2, <1>3, UpdateFills, Zenon
    <3> HIDE DEF u
    <3>5. StandsWith(u, s \o x, Len(s) + Len(x), q + w + 1, t)
      BY <3>2, <3>4, <1>0, <1>1, StandsFilled
    <3> QED
      BY <3>4, <3>5
  <2> QED
    BY <2>1, <2>2
<1> HIDE DEF u, y
<1>7. Represents(u, y)
  BY <1>4, <1>5, <1>6 DEF Represents
<1> QED
  BY <1>7 DEF u, y

\* The length is a byte of its own.
LEMMA EncodeInt ==
  ASSUME Md5Sizes, NEW c, c[1] \in Nat, c[2] \in Nat
  PROVE  encode(c) \in Int
<1>1. PICK a \in Int, b \in Int : a = c[1] /\ b = c[2]
  OBVIOUS
<1>2. Word \in Int
  BY DEF Md5Sizes
<1>3. -2 - a - b * Word \in Int
  BY <1>1, <1>2
<1> QED
  BY <1>1, <1>3 DEF encode

\* The padding and the length are bytes, few enough for a chunk.
LEMMA PaddingBytes ==
  ASSUME Md5Sizes, NEW r \in 0 .. Block - 1, NEW n,
         n = IF r < Block - 1 THEN Block - 1 - r ELSE 2 * Block - 1 - r
  PROVE  /\ n \in Nat /\ n \in 1 .. Block
         /\ PADDING(n) \in Seq(Int) /\ Len(PADDING(n)) = n /\ n < Word /\ 1 < Word
<1>0. Block \in Nat /\ Block > 1
  BY DEF Md5Sizes
<1>1. n \in Nat /\ n \in 1 .. Block
  BY <1>0
<1>2. Block < Word
  <2>1. PICK k \in Nat : k > 0 /\ Word = 8 * (Block * k)
    BY WordBlocks
  <2>2. Block * k \in Nat /\ Block * k >= Block
    BY <2>1, <1>0
  <2> QED
    BY <2>1, <2>2, <1>0
<1>3. PADDING(n) = [i \in 1 .. n |-> IF i = 1 THEN -1 ELSE 0]
  BY DEF PADDING
<1>4. PADDING(n) \in [1 .. n -> Int]
  BY <1>3
<1>5. PADDING(n) \in Seq(Int) /\ Len(PADDING(n)) = n
  BY <1>4, <1>1
<1>6. Word \in Nat
  BY DEF Md5Sizes
<1> QED
  BY <1>0, <1>1, <1>2, <1>5, <1>6

\* final pads as far as the reference does.
LEMMA PaddedAlike ==
  ASSUME Block \in Nat, Block > 1, NEW L \in Nat, NEW q \in Nat, NEW r \in 0 .. Block - 1, L = Block * q + r
  PROVE  1 + ((Block - ((L + 2) % Block)) % Block) = IF r < Block - 1 THEN Block - 1 - r ELSE 2 * Block - 1 - r
<1>1. PICK l \in Int : l = L + 2 /\ l = Block * q + (r + 2)
  OBVIOUS
<1>2. CASE r < Block - 2
  <2>1. PICK e \in 0 .. Block - 1 : e = r + 2
    BY <1>2
  <2>2. l % Block = e
    <3>1. CutInto(l, Block, q, e)
      BY <1>1, <2>1 DEF CutInto
    <3> QED
      BY <3>1, CutTo
  <2>3. PICK f \in 0 .. Block - 1 : f = Block - e
    BY <2>1
  <2>4. f % Block = f
    OBVIOUS
  <2>5. 1 + f = Block - 1 - r
    BY <2>1, <2>3
  <2> QED
    BY <1>1, <1>2, <2>2, <2>3, <2>4, <2>5
<1>3. CASE r = Block - 2
  <2>1. l % Block = 0
    <3>1. CutInto(l, Block, q + 1, 0)
      BY <1>1, <1>3 DEF CutInto
    <3> QED
      BY <3>1, CutTo
  <2>2. Block % Block = 0
    <3>1. CutInto(Block, Block, 1, 0)
      BY DEF CutInto
    <3> QED
      BY <3>1, CutTo
  <2> QED
    BY <1>1, <1>3, <2>1, <2>2
<1>4. CASE r = Block - 1
  <2>1. l % Block = 1
    <3>1. CutInto(l, Block, q + 1, 1)
      BY <1>1, <1>4 DEF CutInto
    <3> QED
      BY <3>1, CutTo
  <2>2. PICK f \in 0 .. Block - 1 : f = Block - 1
    OBVIOUS
  <2>3. f % Block = f
    OBVIOUS
  <2> QED
    <3>1. 1 + f = 2 * Block - 1 - r
      BY <1>4, <2>2
    <3> QED
      BY <3>1, <1>1, <1>4, <2>1, <2>2, <2>3
<1> QED
  BY <1>2, <1>3, <1>4

\* final leaves an object of its type.
LEMMA FinalTyped ==
  ASSUME Md5Sizes, NEW m, ObjectOK(m)
  PROVE  ObjectOK(final(m).obj)
<1> DEFINE r == Index(m)
           n == IF r < Block - 1 THEN Block - 1 - r ELSE 2 * Block - 1 - r
           P == PADDING(n)
           E == <<encode(m.count)>>
           u == update(update(m, P), E)
<1>1. r \in 0 .. Block - 1
  BY IndexInside DEF ObjectOK
<1>2. P \in Seq(Int)
  <2> HIDE DEF r
  <2>1. PICK a : a = n
    OBVIOUS
  <2>2. PADDING(a) \in Seq(Int)
    BY <2>1, <1>1, PaddingBytes
  <2> QED
    BY <2>1, <2>2
<1>3. E \in Seq(Int)
  <2>3. encode(m.count) \in Int
    BY EncodeInt DEF ObjectOK
  <2> QED
    BY <2>3
<1>4. final(m).obj = [u EXCEPT !.state = m.state, !.count = m.count]
  BY DEF final
<1> HIDE DEF P, E
<1>5. ObjectOK(update(m, P))
  BY <1>2, UpdateTyped
<1>6. ObjectOK(u)
  BY <1>3, <1>5, UpdateTyped
<1> HIDE DEF u
<1>7. PICK f : f = final(m).obj
  OBVIOUS
<1>8. u = [state |-> u.state, count |-> u.count, buffer |-> u.buffer, finished |-> u.finished]
  BY <1>6 DEF ObjectOK
<1>9. f = [state |-> m.state, count |-> m.count, buffer |-> u.buffer, finished |-> u.finished]
  BY <1>4, <1>7, <1>8
<1>10. u.buffer \in [1 .. Block -> Int] /\ m.count[1] \in Nat /\ m.count[2] \in Nat
  BY <1>6 DEF ObjectOK
<1>11. ObjectOK(f)
  BY <1>9, <1>10 DEF ObjectOK
<1> QED
  BY <1>7, <1>11

\* final gives the digest of the bytes.
LEMMA FinalExact ==
  ASSUME Md5Sizes, NEW m, ObjectOK(m), NEW s \in Seq(Int), Represents(m, s)
  PROVE  final(m).digest = Reference(s)
<1> DEFINE r == Index(m)
           n == IF r < Block - 1 THEN Block - 1 - r ELSE 2 * Block - 1 - r
           P == PADDING(n)
           E == <<encode(m.count)>>
           u == update(update(m, P), E)
<1>0. Block \in Nat /\ Block > 1
  BY DEF Md5Sizes
<1>1. r \in 0 .. Block - 1
  BY IndexInside DEF ObjectOK
<1>2. P \in Seq(Int) /\ Len(P) < Word /\ 1 < Word
  <2> HIDE DEF r
  <2>1. PICK a : a = n
    OBVIOUS
  <2>2. PADDING(a) \in Seq(Int) /\ Len(PADDING(a)) = a /\ a < Word /\ 1 < Word
    BY <2>1, <1>1, PaddingBytes
  <2> QED
    BY <2>1, <2>2
<1>3. E \in Seq(Int) /\ Len(E) = 1
  <2>3. encode(m.count) \in Int
    BY EncodeInt DEF ObjectOK
  <2> QED
    BY <2>3
<1>4. final(m).digest = u.state
  BY DEF final
<1>5. 1 + ((Block - ((Len(s) + 2) % Block)) % Block) = n
  <2>1. PICK a, b : StandsWith(m, s, Len(s), a, b)
    BY DEF Represents
  <2>2. Len(s) \in Nat /\ a \in Nat /\ b \in 0 .. Block - 1 /\ Len(s) = Block * a + b
    BY <2>1 DEF StandsWith
  <2>3. r = b
    <3>1. Len(s) % Block = b
      <4>1. CutInto(Len(s), Block, a, b)
        BY <2>2, <1>0 DEF CutInto
      <4> QED
        BY <4>1, CutTo
    <3>2. r = (((8 * Len(s)) % Word) \div 8) % Block
      BY DEF Index, Represents
    <3> QED
      BY <3>1, <3>2, <2>2, IndexRead
  <2> HIDE DEF r
  <2>4. PICK L \in Nat : L = Len(s)
    OBVIOUS
  <2>5. L = Block * a + b
    BY <2>2, <2>4
  <2>6. 1 + ((Block - ((L + 2) % Block)) % Block) = IF b < Block - 1 THEN Block - 1 - b ELSE 2 * Block - 1 - b
    BY <2>2, <2>4, <2>5, <1>0, PaddedAlike, Zenon
  <2> QED
    BY <2>3, <2>4, <2>6, Zenon
<1>6. encode(<<(8 * Len(s)) % Word, ((8 * Len(s)) \div Word) % Word>>) = encode(m.count)
  BY Zenon DEF encode, Represents
<1>7. Reference(s) = Blocks((s \o P) \o E)
  <2> DEFINE zeros == (Block - ((Len(s) + 2) % Block)) % Block
  <2>1. P = PADDING(1 + zeros)
    BY <1>5
  <2> HIDE DEF P, E
  <2>2. Reference(s) = Blocks((s \o PADDING(1 + zeros)) \o
                          <<encode(<<(8 * Len(s)) % Word, ((8 * Len(s)) \div Word) % Word>>)>>)
    BY Zenon DEF Reference, Blocks
  <2>3. E = <<encode(m.count)>>
    BY DEF E
  <2> QED
    BY <2>1, <2>2, <2>3, <1>6, Zenon
<1> HIDE DEF P, E
<1>8. ObjectOK(update(m, P)) /\ Represents(update(m, P), s \o P)
  BY <1>2, UpdateTyped, UpdateRepresents
<1>9. s \o P \in Seq(Int)
  BY <1>2
<1>10. Represents(u, (s \o P) \o E)
  <2>1. Len(E) < Word
    BY <1>2, <1>3
  <2> QED
    BY <2>1, <1>3, <1>8, <1>9, UpdateRepresents
<1> HIDE DEF u
<1>11. u.state = Blocks((s \o P) \o E)
  BY <1>10 DEF Represents, StandsWith
<1> QED
  BY <1>4, <1>7, <1>11

\* An object with another buffer.
LEMMA BufferChanged ==
  ASSUME NEW s, NEW c, NEW f, NEW g, NEW b
  PROVE  [[state |-> s, count |-> c, buffer |-> f, finished |-> g] EXCEPT !.buffer = b] =
         [state |-> s, count |-> c, buffer |-> b, finished |-> g]
OBVIOUS

\* The fields of a fresh object, with the buffer it has.
LEMMA FreshFields ==
  ASSUME NEW b
  PROVE  \E m : /\ m = [Fresh EXCEPT !.buffer = b]
                /\ m = [state |-> m.state, count |-> m.count, buffer |-> m.buffer, finished |-> m.finished]
                /\ m.state = <<>> /\ m.count = <<0, 0>> /\ m.buffer = b /\ m.finished = FALSE
<1> DEFINE m == [state |-> <<>>, count |-> <<0, 0>>, buffer |-> b, finished |-> FALSE]
<1>1. m = [Fresh EXCEPT !.buffer = b]
  <2>1. PICK s, c, f, g :
           /\ Fresh = [state |-> s, count |-> c, buffer |-> f, finished |-> g]
           /\ s = <<>> /\ c = <<0, 0>> /\ g = FALSE
    BY Zenon DEF Fresh
  <2>2. [[state |-> s, count |-> c, buffer |-> f, finished |-> g] EXCEPT !.buffer = b] =
        [state |-> s, count |-> c, buffer |-> b, finished |-> g]
    BY BufferChanged
  <2>3. [Fresh EXCEPT !.buffer = b] =
        [[state |-> s, count |-> c, buffer |-> f, finished |-> g] EXCEPT !.buffer = b]
    BY <2>1
  <2> QED
    BY <2>1, <2>2, <2>3, Zenon
<1>2. m.state = <<>> /\ m.count = <<0, 0>> /\ m.buffer = b /\ m.finished = FALSE
  BY Zenon
<1>3. m = [state |-> m.state, count |-> m.count, buffer |-> m.buffer, finished |-> m.finished]
  BY Zenon
<1> HIDE DEF m
<1> QED
  BY <1>1, <1>2, <1>3, Zenon

\* A fresh object represents the empty message, whatever its buffer holds.
LEMMA FreshRepresents ==
  ASSUME Md5Sizes, NEW b \in [1 .. Block -> Int]
  PROVE  /\ ObjectOK([Fresh EXCEPT !.buffer = b]) /\ [Fresh EXCEPT !.buffer = b].finished = FALSE
         /\ Represents([Fresh EXCEPT !.buffer = b], <<>>)
<1>0. Block \in Nat /\ Block > 1 /\ Word \in Nat /\ Word > 0
  BY DEF Md5Sizes
<1>1. PICK e, c : e = <<>> /\ c = <<0, 0>>
  OBVIOUS
<1>2. PICK m : /\ m = [Fresh EXCEPT !.buffer = b]
               /\ m.finished = FALSE /\ m.state = e /\ m.buffer = b /\ m.count = c
               /\ m = [state |-> m.state, count |-> m.count, buffer |-> m.buffer, finished |-> m.finished]
  BY <1>1, FreshFields, Zenon
<1>a. /\ m.finished = FALSE /\ m.state = e /\ m.buffer = b /\ m.count = c
      /\ m = [state |-> m.state, count |-> m.count, buffer |-> m.buffer, finished |-> m.finished]
  BY <1>2, Zenon
<1>3. e \in Seq(Int) /\ Len(e) = 0 /\ e \in Seq([1 .. Block -> Int])
  BY <1>1
<1>4. c[1] = 0 /\ c[2] = 0
  BY <1>1
<1>5. ObjectOK(m)
  <2>1. m.count[1] \in Nat /\ m.count[2] \in Nat
    BY <1>a, <1>4
  <2> QED
    BY <2>1, <1>a DEF ObjectOK
<1>6. PICK q \in Nat, r \in 0 .. Block - 1 : q = 0 /\ r = 0 /\ Len(e) = Block * q + r /\ Len(e) = q
  BY <1>0, <1>3
<1>7. Len(e) = Block * q + r /\ q \in Nat /\ r \in 0 .. Block - 1
  BY <1>6
<1>8. e = Blocks(e)
  <2>1. Blocks(e) \in Seq([1 .. Block -> Int]) /\ Len(Blocks(e)) = q
    <3>1. e \in Seq(Int)
      BY <1>3
    <3>2. Block \in Nat /\ Block > 1
      BY <1>0
    <3> QED
      BY <3>1, <3>2, <1>7, BlocksOf, Zenon
  <2>2. PICK z \in Seq([1 .. Block -> Int]) : z = Blocks(e) /\ Len(z) = 0
    BY <2>1, <1>6
  <2>3. z = e
    BY <2>2, <1>3, SeqEqual
  <2> QED
    BY <2>2, <2>3
<1>9. StandsWith(m, e, Len(e), q, r)
  <2>1. Len(e) \in Nat /\ \A i \in 1 .. r : m.buffer[i] = e[q * Block + i]
    BY <1>3, <1>6
  <2> QED
    BY <2>1, <1>a, <1>6, <1>8 DEF StandsWith
<1>10. (8 * Len(e)) % Word = 0 /\ ((8 * Len(e)) \div Word) % Word = 0
  <2>1. 8 * Len(e) = 0
    BY <1>3
  <2>2. 0 % Word = 0 /\ 0 \div Word = 0
    BY <1>0
  <2> QED
    BY <2>1, <2>2
<1>11. Represents(m, e)
  BY <1>a, <1>4, <1>9, <1>10 DEF Represents
<1> QED
  BY <1>1, <1>2, <1>5, <1>11, Zenon

\* An object that is not finished is digested, one that is keeps what it gave.
LEMMA DigestTyped ==
  ASSUME Md5Sizes, NEW m, ObjectOK(m), NEW last
  PROVE  ObjectOK(digest(m, last).obj)
<1>1. CASE m.finished
  BY <1>1 DEF digest
<1>2. CASE ~m.finished
  <2>1. PICK f : f = [m EXCEPT !.finished = TRUE]
    OBVIOUS
  <2>2. ObjectOK(f)
    <3>1. m = [state |-> m.state, count |-> m.count, buffer |-> m.buffer, finished |-> m.finished]
      BY DEF ObjectOK
    <3>2. f = [state |-> m.state, count |-> m.count, buffer |-> m.buffer, finished |-> TRUE]
      BY <3>1, <2>1
    <3> QED
      BY <3>2 DEF ObjectOK
  <2>3. digest(m, last).obj = final(f).obj
    BY <1>2, <2>1 DEF digest
  <2> QED
    BY <2>2, <2>3, FinalTyped
<1> QED
  BY <1>1, <1>2

\* The first digest is that of the bytes.
LEMMA DigestFirst ==
  ASSUME Md5Sizes, NEW m, ObjectOK(m), m.finished = FALSE, NEW s \in Seq(Int), Represents(m, s), NEW last
  PROVE  digest(m, last).digest = Reference(s)
<1>1. PICK f : f = [m EXCEPT !.finished = TRUE]
  OBVIOUS
<1>2. f = [state |-> m.state, count |-> m.count, buffer |-> m.buffer, finished |-> TRUE]
  <2>1. m = [state |-> m.state, count |-> m.count, buffer |-> m.buffer, finished |-> m.finished]
    BY DEF ObjectOK
  <2> QED
    BY <2>1, <1>1
<1>3. ObjectOK(f) /\ f.state = m.state /\ f.count = m.count /\ f.buffer = m.buffer
  BY <1>2 DEF ObjectOK
<1>4. Represents(f, s)
  <2>1. PICK q, r : StandsWith(m, s, Len(s), q, r)
    BY DEF Represents
  <2>2. StandsWith(f, s, Len(s), q, r)
    BY <2>1, <1>3 DEF StandsWith
  <2> QED
    BY <2>2, <1>3 DEF Represents
<1>5. digest(m, last).digest = final(f).digest
  BY <1>1 DEF digest
<1> QED
  BY <1>3, <1>4, <1>5, FinalExact

\* The digest object between the calls.
DigestOK ==
    /\ ObjectOK(md) /\ fed \in Seq(Int) /\ reading \in Nat
    /\ \E S : answers \in Seq(S)
    /\ answers = <<>> => md.finished = FALSE /\ Represents(md, fed)
    /\ answers # <<>> => answers[1].value = Reference(answers[1].of)

\* The bytes of a chunk.
LEMMA ChunkBytes ==
  ASSUME fed \in Seq(Int), NEW n \in Nat
  PROVE  Chunk(n) \in Seq(Int) /\ Len(Chunk(n)) = n
<1>1. Chunk(n) \in [1 .. n -> Int]
  BY DEF Chunk
<1> QED
  BY <1>1

\* A chunk goes into the object and to the bytes given.
LEMMA FedKeeps ==
  ASSUME Md5Sizes, DigestOK, NEW n \in Nat, n < Word,
         md' = update(md, Chunk(n)), fed' = fed \o Chunk(n), reading' \in Nat, UNCHANGED answers
  PROVE  DigestOK'
<1>1. PICK x \in Seq(Int) : x = Chunk(n) /\ Len(x) < Word
  BY ChunkBytes DEF DigestOK
<1>2. ObjectOK(md) /\ fed \in Seq(Int)
  BY DEF DigestOK
<1>3. ObjectOK(update(md, x)) /\ update(md, x).finished = FALSE
  BY <1>2, UpdateTyped
<1>4. ASSUME answers = <<>> PROVE Represents(update(md, x), fed \o x)
  <2>1. Represents(md, fed)
    BY <1>4 DEF DigestOK
  <2> QED
    BY <2>1, <1>1, <1>2, UpdateRepresents
<1>5. fed \o x \in Seq(Int)
  BY <1>2
<1>6. md' = update(md, x) /\ fed' = fed \o x
  BY <1>1
<1>7. /\ ObjectOK(md)' /\ fed' \in Seq(Int) /\ reading' \in Nat
      /\ answers' = <<>> => md'.finished = FALSE /\ Represents(md, fed)'
  BY <1>3, <1>4, <1>5, <1>6, ZenonT(40) DEF ObjectOK, Represents, StandsWith
<1> QED
  BY <1>7 DEF DigestOK

\* The entries that are signed.
Kept(S) == {e \in S : e[1] # 0 /\ e[2] # "null"}

SignEntries == (Keys \cup {md5_key}) \X {"v", "w", "null", "used_key"}

\* The list holds every entry seen that is signed, once.
SignOK ==
    /\ signing \in [pc : {"idle", "next", "signed"}, map : SUBSET SignEntries, left : SUBSET SignEntries,
                    list : Seq(SignEntries), strings : Nat, refs : Nat]
    /\ signing.left \subseteq signing.map
    /\ \A a, b \in signing.map : a[1] = b[1] => a = b
    /\ signing.pc = "idle" => signing.map = {} /\ signing.list = <<>>
    /\ \A e : e \in Kept(signing.map \ signing.left)
                 <=> \E i \in 1 .. Len(signing.list) : signing.list[i] = e
    /\ \A i, j \in 1 .. Len(signing.list) : signing.list[i] = signing.list[j] => i = j
    /\ signing.pc = "signed" =>
          /\ signing.left = {}
          /\ \A i \in 1 .. Len(signing.list) - 1 : Before(signing.list[i], signing.list[i + 1])

\* A key is put into the map and every entry is still to be seen.
LEMMA SignMapKeeps ==
  ASSUME Md5Sizes, SignOK, NEW m \in Maps, SignMap(m)
  PROVE  SignOK'
<1> DEFINE all == {e \in m : e[1] # md5_key} \cup {<<md5_key, "used_key">>}
<1>1. /\ signing.pc = "idle" /\ signing.list = <<>>
      /\ signing' = [signing EXCEPT !.pc = "next", !.map = all, !.left = all]
  BY DEF SignMap, SignOK
<1>2. all \subseteq SignEntries
  <2>1. m \subseteq Keys \X {"v", "w", "null"}
    BY DEF Maps
  <2> QED
    BY <2>1 DEF SignEntries
<1>3. \A a, b \in all : a[1] = b[1] => a = b
  <2>1. \A a, b \in m : a[1] = b[1] => a = b
    BY DEF Maps
  <2> QED
    BY <2>1
<1> HIDE DEF all
<1>4. signing \in [pc : {"idle", "next", "signed"}, map : SUBSET SignEntries, left : SUBSET SignEntries,
                   list : Seq(SignEntries), strings : Nat, refs : Nat]
  BY DEF SignOK
<1>5. /\ signing' \in [pc : {"idle", "next", "signed"}, map : SUBSET SignEntries, left : SUBSET SignEntries,
                       list : Seq(SignEntries), strings : Nat, refs : Nat]
      /\ signing'.pc = "next" /\ signing'.map = all /\ signing'.left = all /\ signing'.list = signing.list
  BY <1>1, <1>2, <1>4
<1>6. Len(signing'.list) = 0
  BY <1>1, <1>5
<1>7. \A e : e \notin Kept(signing'.map \ signing'.left)
  BY <1>5 DEF Kept
<1>8. 1 .. 0 = {}
  OBVIOUS
<1> QED
  BY <1>3, <1>5, <1>6, <1>7, <1>8, Zenon DEF SignOK, Kept

\* The next entry goes to the end of the list or is left out.
LEMMA NextEntryKeeps ==
  ASSUME SignOK, NEW x, NextEntry(x)
  PROVE  SignOK'
<1> DEFINE left == signing.left \ {x}
           null == x[1] = 0 \/ x[2] = "null"
           list == IF null THEN signing.list ELSE Append(signing.list, x)
<1>1. signing \in [pc : {"idle", "next", "signed"}, map : SUBSET SignEntries, left : SUBSET SignEntries,
                   list : Seq(SignEntries), strings : Nat, refs : Nat]
  BY DEF SignOK
<1>2. signing.pc = "next" /\ x \in signing.left /\ x \in SignEntries /\ x \in signing.map
  BY <1>1 DEF NextEntry, SignOK
<1>3. list \in Seq(SignEntries)
  BY <1>1, <1>2
<1>4. /\ signing' \in [pc : {"idle", "next", "signed"}, map : SUBSET SignEntries, left : SUBSET SignEntries,
                       list : Seq(SignEntries), strings : Nat, refs : Nat]
      /\ signing'.pc = "next" /\ signing'.map = signing.map /\ signing'.left = left /\ signing'.list = list
  <2> DEFINE a == IF x[1] = 0 THEN signing.strings ELSE signing.strings + 1
             b == IF x[1] = 0 THEN signing.refs + 1
                  ELSE IF x[2] = "null" THEN signing.refs + 2 ELSE signing.refs
  <2>1. signing' = [signing EXCEPT !.left = left, !.list = list, !.strings = a, !.refs = b]
    BY DEF NextEntry
  <2>2. a \in Nat /\ b \in Nat
    BY <1>1
  <2> HIDE DEF list, a, b
  <2> QED
    BY <2>1, <2>2, <1>1, <1>2, <1>3
<1>5. /\ \A e : e \in Kept(signing.map \ signing.left)
                  <=> \E i \in 1 .. Len(signing.list) : signing.list[i] = e
      /\ \A i, j \in 1 .. Len(signing.list) : signing.list[i] = signing.list[j] => i = j
  BY DEF SignOK
<1>6. PICK l \in Seq(SignEntries) : l = signing.list
  BY <1>1
<1>7. /\ \A e : e \in Kept(signing.map \ left) <=> \E i \in 1 .. Len(list) : list[i] = e
      /\ \A i, j \in 1 .. Len(list) : list[i] = list[j] => i = j
  <2>1. CASE null
    <3>1. Kept(signing.map \ left) = Kept(signing.map \ signing.left)
      BY <2>1, <1>2 DEF Kept
    <3> QED
      BY <3>1, <2>1, <1>5, Zenon
  <2>2. CASE ~null
    <3>1. list = Append(l, x)
      BY <2>2, <1>6
    <3> HIDE DEF list
    <3>2. Len(list) = Len(l) + 1 /\ list[Len(l) + 1] = x /\ \A i \in 1 .. Len(l) : list[i] = l[i]
      BY <3>1, <1>2
    <3>3. \A e : e \in Kept(signing.map \ left) <=> e = x \/ e \in Kept(signing.map \ signing.left)
      BY <2>2, <1>2 DEF Kept
    <3>4. \A i \in 1 .. Len(l) : l[i] # x
      <4>1. x \notin Kept(signing.map \ signing.left)
        BY <1>2 DEF Kept
      <4> QED
        BY <4>1, <1>5, <1>6
    <3>5. \A i : i \in 1 .. Len(list) <=> i = Len(l) + 1 \/ i \in 1 .. Len(l)
      BY <3>2
    <3>6. Len(l) + 1 \notin 1 .. Len(l)
      OBVIOUS
    <3>7. \A e : e \in Kept(signing.map \ left) <=> \E i \in 1 .. Len(list) : list[i] = e
      <4>1. \A e : e \in Kept(signing.map \ signing.left) <=> \E i \in 1 .. Len(l) : l[i] = e
        BY <1>5, <1>6
      <4> QED
        BY <4>1, <3>2, <3>3, <3>5, Zenon
    <3>8. \A i, j \in 1 .. Len(l) : l[i] = l[j] => i = j
      BY <1>5, <1>6
    <3>9. \A i, j \in 1 .. Len(list) : list[i] = list[j] => i = j
      BY <3>8, <3>2, <3>4, <3>5, Zenon
    <3> QED
      BY <3>7, <3>9
  <2> QED
    BY <2>1, <2>2
<1> HIDE DEF list
<1>8. left \subseteq signing.map /\ \A a, b \in signing.map : a[1] = b[1] => a = b
  BY DEF SignOK
<1>9. "next" # "idle" /\ "next" # "signed"
  OBVIOUS
<1>10. \A e : e \in Kept(signing'.map \ signing'.left) <=> \E i \in 1 .. Len(signing'.list) : signing'.list[i] = e
  BY <1>4, <1>7, Zenon
<1>11. \A i, j \in 1 .. Len(signing'.list) : signing'.list[i] = signing'.list[j] => i = j
  BY <1>4, <1>7, Zenon
<1> QED
  BY <1>4, <1>8, <1>9, <1>10, <1>11, Zenon DEF SignOK, Kept

\* The sorted list has the same entries, in the order of their keys.
LEMMA SignKeeps ==
  ASSUME Md5Sizes, SignOK, Sign
  PROVE  SignOK'
<1>1. signing \in [pc : {"idle", "next", "signed"}, map : SUBSET SignEntries, left : SUBSET SignEntries,
                   list : Seq(SignEntries), strings : Nat, refs : Nat]
  BY DEF SignOK
<1>2. PICK l \in Seq(SignEntries), n \in Nat : l = signing.list /\ n = Len(l) /\ DOMAIN l = 1 .. n
  BY <1>1
<1>3. PICK p \in Bijection(1 .. n, 1 .. n) :
         /\ \A i, j \in 1 .. n : i < j => ~Before(l[p[j]], l[p[i]])
         /\ signing' = [signing EXCEPT !.pc = "signed", !.list = [i \in 1 .. n |-> l[p[i]]]]
  <2>1. PICK p \in Bijection(DOMAIN signing.list, DOMAIN signing.list) :
           /\ \A i, j \in DOMAIN signing.list : i < j => ~Before(signing.list[p[j]], signing.list[p[i]])
           /\ signing' = [signing EXCEPT !.pc = "signed",
                              !.list = [i \in DOMAIN signing.list |-> signing.list[p[i]]]]
    BY Zenon DEF Sign
  <2> QED
    BY <2>1, <1>2, Zenon
<1>4. /\ p \in [1 .. n -> 1 .. n] /\ \A t \in 1 .. n : \E i \in 1 .. n : p[i] = t
      /\ \A a, b \in 1 .. n : p[a] = p[b] => a = b
  BY DEF Bijection, Injection, Surjection, IsInjective
<1>5. PICK k \in [1 .. n -> SignEntries] : k = [i \in 1 .. n |-> l[p[i]]] /\ k \in Seq(SignEntries) /\ Len(k) = n
  <2>1. [i \in 1 .. n |-> l[p[i]]] \in [1 .. n -> SignEntries]
    <3>1. \A j \in 1 .. n : l[j] \in SignEntries
      BY <1>2
    <3> QED
      BY <3>1, <1>4
  <2>2. PICK k \in [1 .. n -> SignEntries] : k = [i \in 1 .. n |-> l[p[i]]]
    BY <2>1
  <2>3. k \in Seq(SignEntries) /\ Len(k) = n
    OBVIOUS
  <2> QED
    BY <2>2, <2>3
<1>6. \A i \in 1 .. n : k[i] = l[p[i]] /\ p[i] \in 1 .. n
  BY <1>4, <1>5
<1>a. \A e \in SignEntries : e[1] \in Nat
  <2>1. PICK A, B : A = Keys \cup {md5_key} /\ B = {"v", "w", "null", "used_key"}
    OBVIOUS
  <2>2. A \subseteq Nat
    BY <2>1 DEF md5_key, Md5Sizes
  <2>3. \A e \in A \X B : e[1] \in A
    OBVIOUS
  <2> QED
    BY <2>1, <2>2, <2>3 DEF SignEntries
<1>7. /\ signing' \in [pc : {"idle", "next", "signed"}, map : SUBSET SignEntries, left : SUBSET SignEntries,
                       list : Seq(SignEntries), strings : Nat, refs : Nat]
      /\ signing'.pc = "signed" /\ signing'.map = signing.map /\ signing'.left = signing.left /\ signing'.list = k
  <2>1. signing' = [signing EXCEPT !.pc = "signed", !.list = k] /\ k \in Seq(SignEntries)
    BY <1>3, <1>5, Zenon
  <2> QED
    BY <2>1, <1>1
<1>8. /\ signing.left = {} /\ \A a, b \in signing.map : a[1] = b[1] => a = b
      /\ \A e : e \in Kept(signing.map \ signing.left) <=> \E i \in 1 .. n : l[i] = e
      /\ \A i, j \in 1 .. n : l[i] = l[j] => i = j
  BY <1>2 DEF SignOK, Sign
<1>9. \A e : e \in Kept(signing.map \ signing.left) <=> \E i \in 1 .. n : k[i] = e
  <2>1. ASSUME NEW e, NEW t \in 1 .. n, l[t] = e PROVE \E i \in 1 .. n : k[i] = e
    <3>1. PICK i \in 1 .. n : p[i] = t
      BY <1>4
    <3> QED
      BY <3>1, <2>1, <1>6
  <2>2. ASSUME NEW e, NEW i \in 1 .. n, k[i] = e PROVE \E t \in 1 .. n : l[t] = e
    BY <2>2, <1>6
  <2> QED
    BY <2>1, <2>2, <1>8, Zenon
<1>10. \A i, j \in 1 .. n : k[i] = k[j] => i = j
  <2>1. SUFFICES ASSUME NEW i \in 1 .. n, NEW j \in 1 .. n, k[i] = k[j] PROVE i = j
    OBVIOUS
  <2>2. p[i] = p[j]
    BY <2>1, <1>6, <1>8
  <2> QED
    BY <2>2, <1>4
<1>11. ASSUME NEW i \in 1 .. n - 1 PROVE Before(k[i], k[i + 1])
  <2>1. PICK j \in 1 .. n : j = i + 1 /\ i < j /\ i \in 1 .. n
    OBVIOUS
  <2>2. ~Before(k[j], k[i])
    BY <2>1, <1>3, <1>6
  <2>3. k[i] \in SignEntries /\ k[j] \in SignEntries
    BY <2>1, <1>5
  <2>4. k[i][1] \in Int /\ k[j][1] \in Int
    BY <2>3, <1>a
  <2>5. k[i] \in signing.map /\ k[j] \in signing.map
    BY <2>1, <1>9 DEF Kept
  <2>6. k[i][1] # k[j][1]
    <3>1. SUFFICES ASSUME k[i][1] = k[j][1] PROVE FALSE
      OBVIOUS
    <3>2. k[i] = k[j]
      BY <3>1, <2>5, <1>8, ZenonT(40)
    <3>3. i = j
      BY <3>2, <2>1, <1>10
    <3> QED
      BY <3>3, <2>1
  <2>7. Before(k[i], k[j])
    BY <2>2, <2>4, <2>6 DEF Before
  <2> QED
    BY <2>1, <2>7
<1>12. /\ signing'.left \subseteq signing'.map
       /\ \A a, b \in signing'.map : a[1] = b[1] => a = b
       /\ signing'.pc # "idle" /\ signing'.left = {}
       /\ \A e : e \in Kept(signing'.map \ signing'.left) <=> \E i \in 1 .. Len(signing'.list) : signing'.list[i] = e
       /\ \A i, j \in 1 .. Len(signing'.list) : signing'.list[i] = signing'.list[j] => i = j
  BY <1>5, <1>7, <1>8, <1>9, <1>10
<1>13. \A i \in 1 .. Len(signing'.list) - 1 : Before(signing'.list[i], signing'.list[i + 1])
  BY <1>5, <1>7, <1>11
<1> QED
  BY <1>7, <1>12, <1>13, Zenon DEF SignOK, Kept, Before

\* The invariant of the digest code.
Md5Inv == DigestOK /\ SignOK

\* The start.
LEMMA Md5Starts ==
  ASSUME Md5Sizes, Md5Init
  PROVE  Md5Inv
<1>1. DigestOK
  <2>1. PICK b \in [1 .. Block -> Int] : b = [i \in 1 .. Block |-> 0]
    <3>1. [i \in 1 .. Block |-> 0] \in [1 .. Block -> Int]
      OBVIOUS
    <3> QED
      BY <3>1, Zenon
  <2>2. Fresh = [Fresh EXCEPT !.buffer = b]
    <3>1. PICK s, c, g : Fresh = [state |-> s, count |-> c, buffer |-> b, finished |-> g]
      BY <2>1, Zenon DEF Fresh
    <3> QED
      BY <3>1
  <2>3. ObjectOK(md) /\ md.finished = FALSE /\ Represents(md, fed)
    BY <2>2, FreshRepresents, Zenon DEF Md5Init
  <2>4. fed \in Seq(Int) /\ reading \in Nat /\ answers \in Seq({}) /\ answers = <<>>
    BY DEF Md5Init
  <2> QED
    BY <2>3, <2>4 DEF DigestOK
<1>2. SignOK
  <2>1. PICK z : z = <<>>
    OBVIOUS
  <2>2. signing = [pc |-> "idle", map |-> {}, left |-> {}, list |-> z, strings |-> 0, refs |-> 0]
    BY <2>1 DEF Md5Init, NoSigning
  <2>3. z \in Seq(SignEntries) /\ Len(z) = 0
    BY <2>1
  <2>4. /\ signing \in [pc : {"idle", "next", "signed"}, map : SUBSET SignEntries, left : SUBSET SignEntries,
                        list : Seq(SignEntries), strings : Nat, refs : Nat]
        /\ signing.pc = "idle" /\ signing.map = {} /\ signing.left = {} /\ signing.list = z
    BY <2>2, <2>3
  <2>5. 1 .. 0 = {} /\ \A e : e \notin Kept({} \ {})
    BY DEF Kept
  <2>6. "idle" # "signed"
    OBVIOUS
  <2> QED
    BY <2>1, <2>3, <2>4, <2>5, <2>6, Zenon DEF SignOK
<1> QED
  BY <1>1, <1>2 DEF Md5Inv

\* The first digest is the one of the bytes given, later ones do not change it.
LEMMA DigestKeeps ==
  ASSUME Md5Sizes, DigestOK, Digest
  PROVE  DigestOK'
<1>1. PICK last : /\ md' = digest(md, last).obj
                  /\ answers' = Append(answers, [of |-> fed, value |-> digest(md, last).digest])
  BY DEF Digest
<1>2. ObjectOK(md) /\ fed \in Seq(Int) /\ reading \in Nat
  BY DEF DigestOK
<1>3. ObjectOK(digest(md, last).obj)
  BY <1>2, DigestTyped
<1>4. PICK S : answers \in Seq(S)
  BY DEF DigestOK
<1>5. PICK a, T : a = [of |-> fed, value |-> digest(md, last).digest] /\ T = S \cup {a}
  OBVIOUS
<1>6. answers \in Seq(T) /\ a \in T
  BY <1>4, <1>5
<1>7. answers' = Append(answers, a)
  BY <1>1, <1>5
<1>8. answers' \in Seq(T) /\ Len(answers') = Len(answers) + 1 /\ answers' # <<>>
  BY <1>6, <1>7
<1>9. answers'[1].value = Reference(answers'[1].of)
  <2>1. CASE answers = <<>>
    <3>1. a.of = fed /\ a.value = digest(md, last).digest
      BY <1>5
    <3>2. digest(md, last).digest = Reference(fed)
      BY <2>1, <1>2, DigestFirst DEF DigestOK
    <3>3. answers'[1] = a
      BY <2>1, <1>6, <1>7
    <3> QED
      BY <3>1, <3>2, <3>3
  <2>2. CASE answers # <<>>
    <3>1. answers'[1] = answers[1]
      BY <2>2, <1>6, <1>7
    <3>2. answers[1].value = Reference(answers[1].of)
      BY <2>2 DEF DigestOK
    <3> QED
      BY <3>1, <3>2
  <2> QED
    BY <2>1, <2>2
<1>10. ObjectOK(md)'
  BY <1>1, <1>3 DEF ObjectOK
<1>11. (\E R : answers \in Seq(R))'
  BY <1>8
<1>12. fed' = fed /\ reading' = reading
  BY DEF Digest
<1> QED
  BY <1>2, <1>8, <1>9, <1>10, <1>11, <1>12 DEF DigestOK, Reference

\* Every step keeps the invariant.
LEMMA Md5Inductive ==
  ASSUME Md5Sizes, Md5Inv, [Md5Next \/ SignNext]_md5Vars
  PROVE  Md5Inv'
<1>0. DigestOK /\ SignOK
  BY DEF Md5Inv
<1>a. ASSUME UNCHANGED signing PROVE SignOK'
  BY <1>0, <1>a DEF SignOK, Kept, Before
<1>b. ASSUME UNCHANGED <<md, fed, reading, answers>> PROVE DigestOK'
  BY <1>0, <1>b DEF DigestOK, ObjectOK, Represents, StandsWith
<1>1. CASE Reset
  <2>1. PICK b : b = md.buffer /\ b \in [1 .. Block -> Int]
    BY <1>0 DEF DigestOK, ObjectOK
  <2>2. PICK m : m = [Fresh EXCEPT !.buffer = b]
    OBVIOUS
  <2>3. ObjectOK(m) /\ m.finished = FALSE /\ Represents(m, <<>>)
    BY <2>1, <2>2, FreshRepresents, Zenon
  <2>4. md' = m /\ fed' = <<>> /\ answers' = <<>> /\ reading' = reading /\ signing' = signing
    BY <1>1, <2>1, <2>2 DEF Reset
  <2>5. ObjectOK(md)' /\ md'.finished = FALSE /\ Represents(md, fed)'
    BY <2>3, <2>4, Zenon DEF ObjectOK, Represents, StandsWith
  <2>6. fed' \in Seq(Int) /\ reading' \in Nat /\ answers' \in Seq({}) /\ answers' = <<>>
    BY <2>4, <1>0 DEF DigestOK
  <2>7. DigestOK'
    BY <2>5, <2>6 DEF DigestOK
  <2> QED
    BY <2>4, <2>7, <1>a DEF Md5Inv
<1>2. CASE \E n \in 0 .. MaxFed : Update(n)
  <2>1. PICK n \in 0 .. MaxFed : Update(n)
    BY <1>2
  <2>2. n \in Nat /\ n < Word /\ reading' \in Nat
    BY <2>1, <1>0 DEF Update, Md5Sizes, DigestOK
  <2>3. DigestOK'
    BY <2>1, <2>2, <1>0, FedKeeps DEF Update
  <2> QED
    BY <2>1, <2>3, <1>a DEF Update, Md5Inv
<1>3. CASE \E n \in 0 .. MaxFed : UpdateFile(n)
  <2>1. PICK n \in 0 .. MaxFed : UpdateFile(n)
    BY <1>3
  <2>2. reading' \in Nat /\ UNCHANGED <<md, fed, answers, signing>>
    BY <2>1 DEF UpdateFile, Md5Sizes
  <2>3. DigestOK'
    BY <2>2, <1>0 DEF DigestOK, ObjectOK, Represents, StandsWith
  <2> QED
    BY <2>2, <2>3, <1>a DEF Md5Inv
<1>4. CASE ReadBuffer
  <2>1. reading \in Nat
    BY <1>0 DEF DigestOK
  <2>2. PICK n : /\ n = IF reading < BufferSize THEN reading ELSE BufferSize
                 /\ md' = update(md, Chunk(n)) /\ fed' = fed \o Chunk(n) /\ reading' = reading - n
    BY <1>4 DEF ReadBuffer
  <2>3. n \in Nat /\ n < Word /\ n <= reading
    BY <2>1, <2>2 DEF Md5Sizes
  <2>4. reading' \in Nat /\ UNCHANGED <<answers, signing>>
    BY <2>1, <2>2, <2>3, <1>4 DEF ReadBuffer
  <2>5. DigestOK'
    BY <2>2, <2>3, <2>4, <1>0, FedKeeps
  <2> QED
    BY <2>4, <2>5, <1>a DEF Md5Inv
<1>5. CASE Digest
  BY <1>0, <1>5, <1>a, DigestKeeps DEF Digest, Md5Inv
<1>6. CASE \E m \in Maps : SignMap(m)
  <2>1. PICK m \in Maps : SignMap(m)
    BY <1>6
  <2> QED
    BY <2>1, <1>0, <1>b, SignMapKeeps, Zenon DEF SignMap, Md5Inv
<1>7. CASE \E e \in signing.left : NextEntry(e)
  <2>1. PICK e \in signing.left : NextEntry(e)
    BY <1>7
  <2> QED
    BY <2>1, <1>0, <1>b, NextEntryKeeps, Zenon DEF NextEntry, Md5Inv
<1>8. CASE Sign
  BY <1>0, <1>8, <1>b, SignKeeps, Zenon DEF Sign, Md5Inv
<1>9. CASE UNCHANGED md5Vars
  BY <1>9, <1>a, <1>b DEF md5Vars, Md5Inv
<1> HIDE DEF Md5Inv
<1> QED
  BY <1>1, <1>2, <1>3, <1>4, <1>5, <1>6, <1>7, <1>8, <1>9 DEF Md5Next, SignNext

\* The signed list has as many entries as the map has that count.
LEMMA SignedOnce ==
  ASSUME SignOK, signing.pc = "signed"
  PROVE  /\ ToSet(signing.list) = Kept(signing.map)
         /\ Len(signing.list) = Cardinality(Kept(signing.map))
<1>1. PICK l \in Seq(SignEntries), n \in Nat : l = signing.list /\ n = Len(l) /\ DOMAIN l = 1 .. n /\ l \in [1 .. n -> SignEntries]
  BY DEF SignOK
<1>2. PICK K : K = Kept(signing.map)
  OBVIOUS
<1>3. /\ \A e : e \in K <=> \E i \in 1 .. n : l[i] = e
      /\ \A i, j \in 1 .. n : l[i] = l[j] => i = j
  <2>1. signing.map \ signing.left = signing.map
    BY DEF SignOK
  <2> QED
    BY <2>1, <1>1, <1>2 DEF SignOK
<1>4. ToSet(l) = K
  BY <1>1, <1>3 DEF ToSet
<1>5. l \in Bijection(1 .. n, K)
  <2>1. l \in [1 .. n -> K]
    BY <1>1, <1>3
  <2> QED
    BY <2>1, <1>3 DEF Bijection, Injection, Surjection, IsInjective
<1>6. Cardinality(K) = n
  <2>1. ExistsBijection(1 .. n, K)
    BY <1>5 DEF ExistsBijection
  <2> QED
    BY <2>1, FS_CountingElements
<1> QED
  BY <1>1, <1>2, <1>4, <1>6

\* However the bytes were cut into chunks, strings and file buffers, the first
\* digest since reset is that of the bytes; and a map is signed with each of its
\* entries that has no null once, in the order of the keys (md5.cpp, map_md5.cpp).
THEOREM DigestsRight == Md5Spec => []DigestExact
<1>1. Md5Sizes
  BY Md5Sizes
<1>2. Md5Init => Md5Inv
  BY <1>1, Md5Starts
<1>3. Md5Inv /\ [Md5Next \/ SignNext]_md5Vars => Md5Inv'
  BY <1>1, Md5Inductive
<1>4. Md5Inv => DigestExact
  <2>1. SUFFICES ASSUME Md5Inv PROVE DigestExact
    OBVIOUS
  <2>2. answers # <<>> => answers[1].value = Reference(answers[1].of)
    BY <2>1 DEF Md5Inv, DigestOK
  <2>3. ASSUME signing.pc = "signed"
        PROVE  /\ ToSet(signing.list) = Kept(signing.map)
               /\ Len(signing.list) = Cardinality(Kept(signing.map))
               /\ \A i \in 1 .. Len(signing.list) - 1 : Before(signing.list[i], signing.list[i + 1])
    <3>1. SignOK
      BY <2>1 DEF Md5Inv
    <3> QED
      BY <3>1, <2>3, SignedOnce DEF SignOK
  <2> QED
    BY <2>2, <2>3, Zenon DEF DigestExact, Kept
<1> QED
  BY <1>2, <1>3, <1>4, PTL DEF Md5Spec

=============================================================================
