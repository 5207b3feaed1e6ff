---------------------------- MODULE AllocTracker ----------------------------
(***************************************************************************)
(* The allocation tracker (allocTracker.cpp).  On ART a hook on the        *)
(* runtime's RecordAllocation counts allocations on every thread and dumps *)
(* the runtime's record list into a file once the count passes a maximum;  *)
(* on Dalvik a report buffer is fetched on demand.  The dump itself makes  *)
(* an allocation (the Java byte array), which re-enters the hook.          *)
(***************************************************************************)
EXTENDS Integers, FiniteSets, Sequences

CONSTANTS Threads,
          MaxRecords,    \* allocRecordMax given to initForArt
          MaxAllocs,     \* bound: allocations
          MaxCalls,      \* bound: calls of the Java API
          LastSecond,    \* bound: the clock of time(0)
          NoThread

ASSUME AllocBounds ==
    MaxRecords \in Nat /\ MaxAllocs \in Nat /\ LastSecond \in Nat /\ NoThread \notin Threads

VARIABLES hook,      \* "none", "23" (22 and 23 behave alike) or "26"
          pointer,   \* the function pointers that are not null
          tracker,   \* allocTrackerType, libHandle open, needStopRecord, storeDataDirectory set
          enabled,   \* the runtime's allocation tracking
          count,     \* allocObjectCount
          g_Lock,
          frames,    \* each thread's calls of the hook, the innermost last
          records,   \* the runtime's record list
          files,     \* what the file of each second holds
          dumps,     \* every dump saved, in order
          excused,   \* allocations that the code is not to keep
          next,      \* allocations so far
          clock, calls,
          crashed,
          report     \* Dalvik: buffers made and freed, dvmAllocationData, its length,
                     \* libHandle, the function pointers

artVars == <<hook, pointer, tracker, enabled, count, g_Lock, frames, records, files,
             dumps, excused, next, clock, crashed>>
allocVars == <<artVars, calls, report>>

Resolved == {"enable", "recent", "clear", "descriptor"}

\* hookFunc: the newest symbol found decides.  Where only the 24 symbol exists
\* the 26 one, null, is handed to MSHookFunction, which hooks nothing.
hookFunc(symbols) ==
    CASE "26" \in symbols -> "26"
      [] "26" \notin symbols /\ "24" \in symbols -> "none"
      [] symbols \cap {"24", "26"} = {} /\ symbols # {} -> "23"
      [] symbols = {} -> "none"

AllocInit ==
    /\ hook \in {hookFunc(s) : s \in SUBSET {"22", "23", "24", "26"}}
    /\ pointer = {}
    /\ tracker = [type |-> "none", lib |-> FALSE, stop |-> FALSE, dir |-> FALSE]
    /\ enabled = FALSE /\ count = 0 /\ g_Lock = NoThread
    /\ frames = [t \in Threads |-> <<>>]
    /\ records = {} /\ files = [s \in 0 .. LastSecond |-> {}]
    /\ dumps = <<>> /\ excused = {} /\ next = 0 /\ clock = 0 /\ calls = 0
    /\ crashed = FALSE
    /\ report = [made |-> 0, freed |-> {}, data |-> 0, len |-> 0, handed |-> {},
                 fn |-> FALSE, lib |-> "null"]

-----------------------------------------------------------------------------
(* The hook *)

Frame(id) == [pc |-> "count", id |-> id, snap |-> {}]
Top(t) == frames[t][Len(frames[t])]
At(t, pc) == ~crashed /\ frames[t] # <<>> /\ Top(t).pc = pc
SetTop(t, f) == [frames EXCEPT ![t][Len(frames[t])] = f]
GoTo(t, pc) == frames' = SetTop(t, [Top(t) EXCEPT !.pc = pc])
Pop(t) == frames' = [frames EXCEPT ![t] = SubSeq(@, 1, Len(@) - 1)]

\* External: the runtime calls RecordAllocation while tracking is enabled.
Allocate(t) ==
    /\ ~crashed /\ enabled /\ hook # "none" /\ frames[t] = <<>> /\ next < MaxAllocs
    /\ next' = next + 1
    /\ frames' = [frames EXCEPT ![t] = <<Frame(next + 1)>>]
    /\ UNCHANGED <<hook, pointer, tracker, enabled, count, g_Lock, records, files, dumps,
                   excused, clock, crashed>>

\* newArtRecordAllocation..: nothing while recording is stopped; without Clear
\* the 24 variant only records.
Count(t) ==
    /\ At(t, "count")
    /\ IF tracker.stop
       THEN Pop(t) /\ excused' = excused \cup {Top(t).id} /\ UNCHANGED <<count, crashed>>
       ELSE IF hook = "26" /\ "clear" \notin pointer
            THEN GoTo(t, "old") /\ UNCHANGED <<count, excused, crashed>>
            ELSE /\ count' = count + 1
                 /\ crashed' = ("descriptor" \notin pointer)
                 /\ GoTo(t, "test") /\ excused' = excused
    /\ UNCHANGED <<hook, pointer, tracker, enabled, g_Lock, records, files, dumps, next, clock>>

\* Slip: the new hook honours the return value that only the old ones use.
MutLuckyIgnored(t) ==
    /\ At(t, "test") /\ Pop(t)
    /\ excused' = IF hook = "26" THEN excused ELSE excused \cup {Top(t).id}
    /\ UNCHANGED <<hook, pointer, tracker, enabled, count, g_Lock, records, files, dumps,
                   next, clock, crashed>>

\* One time in a hundred the hook returns false: the 22 and 23 hooks then do not
\* record the allocation, the 26 hook does.
Lucky(t) ==
    /\ At(t, "test")
    /\ IF hook = "26"
       THEN GoTo(t, "old") /\ excused' = excused
       ELSE Pop(t) /\ excused' = excused \cup {Top(t).id}
    /\ UNCHANGED <<hook, pointer, tracker, enabled, count, g_Lock, records, files, dumps,
                   next, clock, crashed>>

\* The overflow test is made without the lock and not repeated under it.
Test(t) ==
    /\ At(t, "test")
    /\ GoTo(t, IF count > MaxRecords THEN "lock" ELSE "old")
    /\ UNCHANGED <<hook, pointer, tracker, enabled, count, g_Lock, records, files, dumps,
                   excused, next, clock, crashed>>

CMyLock(t) ==
    /\ At(t, "lock") /\ g_Lock = NoThread
    /\ g_Lock' = t /\ count' = 0
    /\ GoTo(t, "snap")
    /\ UNCHANGED <<hook, pointer, tracker, enabled, records, files, dumps, excused, next,
                   clock, crashed>>

\* getARTAllocationData.  The runtime lists its records and then allocates the
\* byte array, which enters the hook again.  A null result is not tested.
getARTAllocationData(t) ==
    /\ At(t, "snap")
    /\ IF "recent" \notin pointer
       THEN crashed' = TRUE /\ UNCHANGED <<frames, next>>
       ELSE LET mine == [Top(t) EXCEPT !.pc = "save", !.snap = records]
                stack == SetTop(t, mine)
            IN  IF enabled /\ next < MaxAllocs
                THEN /\ frames' = [stack EXCEPT ![t] = Append(@, Frame(next + 1))]
                     /\ next' = next + 1 /\ crashed' = crashed
                ELSE frames' = stack /\ UNCHANGED <<next, crashed>>
    /\ UNCHANGED <<hook, pointer, tracker, enabled, count, g_Lock, records, files, dumps,
                   excused, clock>>

\* saveARTAllocationData: the file of this second, written from its start; what
\* an earlier dump of the second held is lost.  Without a directory, or when open
\* or write fails, which nobody tests, the snapshot is lost.
saveARTAllocationData(t) ==
    /\ At(t, "save") /\ GoTo(t, "clear")
    /\ LET snap == Top(t).snap
       IN  \/ /\ tracker.dir
              /\ files' = [files EXCEPT ![clock] = snap]
              /\ dumps' = Append(dumps, snap)
              /\ excused' = excused \cup (files[clock] \ snap)
           \/ excused' = excused \cup snap /\ UNCHANGED <<files, dumps>>
    /\ UNCHANGED <<hook, pointer, tracker, enabled, count, g_Lock, records, next, clock, crashed>>

\* resetARTAllocRecord needs the handle, AllocRecordObjectMap::Clear does not.
\* Records made since the snapshot go as well.
Clear(t) ==
    /\ At(t, "clear") /\ GoTo(t, "unlock")
    /\ IF IF hook = "26" THEN "clear" \in pointer
          ELSE tracker.lib /\ tracker.type = "ART"
       THEN records' = {} /\ excused' = excused \cup (records \ Top(t).snap)
       ELSE UNCHANGED <<records, excused>>
    /\ UNCHANGED <<hook, pointer, tracker, enabled, count, g_Lock, files, dumps, next, clock,
                   crashed>>

\* lock.Unlock(), and once more by ~CMyLock, whoever holds the lock by then.
Unlock(t, from, to) ==
    /\ At(t, from) /\ GoTo(t, to)
    /\ g_Lock' = NoThread
    /\ UNCHANGED <<hook, pointer, tracker, enabled, count, records, files, dumps, excused,
                   next, clock, crashed>>

\* The hooked function itself; it ignores the call when tracking went off.
oldArtRecordAllocation(t) ==
    /\ At(t, "old") /\ Pop(t)
    /\ IF enabled THEN records' = records \cup {Top(t).id} /\ excused' = excused
       ELSE excused' = excused \cup {Top(t).id} /\ records' = records
    /\ UNCHANGED <<hook, pointer, tracker, enabled, count, g_Lock, files, dumps, next, clock,
                   crashed>>

HookStep(t) ==
    \/ Allocate(t) \/ Count(t) \/ Lucky(t) \/ Test(t) \/ CMyLock(t)
    \/ getARTAllocationData(t) \/ saveARTAllocationData(t) \/ Clear(t)
    \/ Unlock(t, "unlock", "destroy") \/ Unlock(t, "destroy", "old")
    \/ oldArtRecordAllocation(t)

-----------------------------------------------------------------------------
(* The API on ART *)

HookOnly == UNCHANGED <<hook, frames, g_Lock, files, dumps, next, clock>>

\* Without a handle the pointers stay; a symbol that is missing makes its pointer
\* null, but GetDescriptor is looked up only once.
initForArt(opens, missing) ==
    /\ tracker' = [tracker EXCEPT !.type = "ART", !.lib = opens]
    /\ pointer' = IF opens THEN (Resolved \ missing) \cup (pointer \cap {"descriptor"}) ELSE pointer
    /\ UNCHANGED <<enabled, count, records, excused>>

\* Clear and GetDescriptor keep their values.
unInitForArt ==
    /\ tracker' = [tracker EXCEPT !.type = "none", !.lib = FALSE]
    /\ pointer' = pointer \ {"enable", "recent"}
    /\ UNCHANGED <<enabled, count, records, excused>>

\* startARTAllocationTracker, stopARTAllocationTracker; the runtime drops its
\* list when tracking goes off.
startStop(on) ==
    /\ tracker.type = "ART"
    /\ count' = 0
    /\ IF "enable" \in pointer
       THEN /\ enabled' = on
            /\ records' = IF on THEN records ELSE {}
            /\ excused' = IF on THEN excused ELSE excused \cup records
       ELSE UNCHANGED <<enabled, records, excused>>
    /\ UNCHANGED <<tracker, pointer>>

setEnableARTRecordAllocation(on) ==
    /\ tracker' = [tracker EXCEPT !.stop = ~on]
    /\ UNCHANGED <<pointer, enabled, count, records, excused>>

setSaveDataDirectory ==
    /\ tracker' = [tracker EXCEPT !.dir = TRUE]
    /\ UNCHANGED <<pointer, enabled, count, records, excused>>

ApiCall ==
    /\ ~crashed /\ calls < MaxCalls /\ calls' = calls + 1
    /\ \/ initForArt(FALSE, {})
       \/ \E missing \in {{}} \cup {{p} : p \in Resolved} : initForArt(TRUE, missing)
       \/ unInitForArt
       \/ \E on \in BOOLEAN : startStop(on) \/ setEnableARTRecordAllocation(on)
       \/ setSaveDataDirectory
    /\ HookOnly /\ crashed' = crashed /\ report' = report

\* External: a second passes.
Tick ==
    /\ clock < LastSecond /\ clock' = clock + 1
    /\ UNCHANGED <<hook, pointer, tracker, enabled, count, g_Lock, frames, records, files,
                   dumps, excused, next, crashed, calls, report>>

-----------------------------------------------------------------------------
(* The API on Dalvik *)

\* libHandle and the function pointers; the library or a symbol may be missing.
initForDvm(opens, found) ==
    report' = [report EXCEPT !.lib = IF opens THEN "open" ELSE "null",
                             !.fn = IF opens THEN found ELSE @]

\* dumpDvmAllocationData: a failed report leaves pointer and length alone; a
\* second one before the first is fetched leaks it.
dumpDvmAllocationData ==
    /\ report.fn
    /\ report' = [report EXCEPT !.made = @ + 1, !.data = report.made + 1, !.len = 1]

\* The buffer is freed but stays in dvmAllocationData; only the length says so.
getDvmAllocationDataForJava ==
    /\ report.data # 0 /\ report.len > 0
    /\ report' = [report EXCEPT !.handed = @ \cup {IF report.data \in report.freed THEN 0 ELSE report.data},
                                !.freed = @ \cup {report.data}, !.len = 0]

\* libHandle is closed but not set to null: it is closed again the next time.
unInitForDvm ==
    report' = [report EXCEPT !.freed = @ \cup ({report.data} \ {0}), !.data = 0, !.len = 0,
                             !.fn = FALSE,
                             !.lib = IF report.lib = "null" THEN "null" ELSE "closed"]

DvmCall ==
    /\ calls < MaxCalls /\ calls' = calls + 1
    /\ \/ \E opens, found \in BOOLEAN : initForDvm(opens, found)
       \/ dumpDvmAllocationData
       \/ getDvmAllocationDataForJava
       \/ unInitForDvm
    /\ UNCHANGED artVars

-----------------------------------------------------------------------------
AllocNext == (\E t \in Threads : HookStep(t)) /\ UNCHANGED <<calls, report>>

ArtNext == AllocNext \/ ApiCall \/ Tick

ArtSpec == AllocInit /\ [][ArtNext]_allocVars

\* Both runtimes' calls.
AllocSpec == AllocInit /\ [][ArtNext \/ DvmCall]_allocVars

(* Whatever the hook let through is in the runtime's list or in a file,        *)
(* unless the code gave it up knowingly or it was made between a dump's        *)
(* snapshot and its clearing of the list (allocTracker.cpp:455-458), and a     *)
(* Dalvik report is copied for Java before it is freed (385-392).              *)
Accounted ==
    /\ \A id \in 1 .. next :
          \/ id \in records \cup excused
          \/ \E s \in DOMAIN files : id \in files[s]
          \/ \E t \in Threads : \E i \in DOMAIN frames[t] :
                \/ frames[t][i].id = id
                \/ id \in frames[t][i].snap
    /\ 0 \notin report.handed

(* The comment at allocTracker.cpp:451: the lock is there because without it    *)
(* allocations on several threads would be dumped repeatedly.                   *)
DumpedOnce ==
    \A i, j \in DOMAIN dumps : i # j => dumps[i] \cap dumps[j] = {}
=============================================================================
