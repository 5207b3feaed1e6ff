---------------------------- MODULE LibRegistry ----------------------------
(***************************************************************************)
(* sharedlibs.cpp and link.cpp: the cache of parsed libraries, keyed by    *)
(* base name, and hook_all_libs and unhook_all_libs of linker.cpp, which   *)
(* walk it.  A refresh runs inside the dynamic linker's dl_iterate_phdr    *)
(* and adds what is not cached yet; a lookup copies an entry and asks the  *)
(* dynamic linker whether its tables are still mapped.  Libraries come and *)
(* go meanwhile.  PltHook has the hooking of one slot.                     *)
(***************************************************************************)
EXTENDS Integers, FiniteSets, Sequences, Functions

CONSTANTS Users,       \* threads that use the registry
          Libs,        \* library files
          Base,        \* their base names
          MaxLoads,    \* bound: loads, of all libraries together
          Nobody

ASSUME NobodyAssumption == Nobody \notin Users \cup Libs

VARIABLES mapped,     \* the address at which each library is mapped, 0: not
          loads,      \* how often each was loaded
          cache,      \* sharedLibData: base name -> library and address
          dlMutex,    \* the dynamic linker's own lock
          writer, readers,  \* sharedLibsMutex_
          hooked,     \* the mapped libraries whose slots are hooked
          died,       \* the tables of a library were read after it was unmapped
          user        \* each thread's call

regVars == <<mapped, loads, cache, dlMutex, writer, readers, hooked, died, user>>

NoEntry == [lib |-> Nobody, at |-> 0]

\* since: the libraries that have been there, parsed and not unhooked by another
\* since the call began; all: which loop over the libraries the call is part of.
NoUse == [pc |-> "done", todo |-> {}, entry |-> NoEntry, all |-> "none", left |-> {}, since |-> {}]

RegInit ==
    /\ mapped = [l \in Libs |-> 0] /\ loads = [l \in Libs |-> 0]
    /\ cache = [b \in {Base[l] : l \in Libs} |-> NoEntry]
    /\ dlMutex = Nobody /\ writer = Nobody /\ readers = {}
    /\ hooked = {} /\ died = FALSE
    /\ user = [u \in Users |-> NoUse]

At2(u, pc) == ~died /\ user[u].pc = pc
Becomes2(u, r) == user' = [user EXCEPT ![u] = r]
Locks == <<dlMutex, writer, readers>>
World == <<mapped, loads, hooked, died>>

\* External: dlopen and dlclose.  The library may come back at another address.
Load(l) ==
    /\ ~died /\ dlMutex = Nobody /\ mapped[l] = 0
    /\ FoldFunction(LAMBDA n, sum : n + sum, 0, loads) < MaxLoads
    /\ \E a \in 1 .. 2 : mapped' = [mapped EXCEPT ![l] = a]
    /\ loads' = [loads EXCEPT ![l] = @ + 1]
    /\ UNCHANGED <<cache, Locks, hooked, died, user>>

Unload(l) ==
    /\ ~died /\ dlMutex = Nobody /\ mapped[l] # 0
    /\ mapped' = [mapped EXCEPT ![l] = 0]
    /\ hooked' = hooked \ {l}
    /\ user' = [u \in Users |-> [user[u] EXCEPT !.since = @ \ {l}]]
    /\ UNCHANGED <<loads, cache, Locks, died>>

-----------------------------------------------------------------------------
(* refresh_shared_libs, by itself or first in hook_all_libs *)

Refresh(u, all) ==
    /\ At2(u, "done") /\ dlMutex = Nobody
    /\ dlMutex' = u
    /\ LET there == {l \in Libs : mapped[l] # 0}
       IN  Becomes2(u, [NoUse EXCEPT !.pc = "next", !.todo = there, !.all = all,
                                     !.since = there])
    /\ UNCHANGED <<World, cache, writer, readers>>

\* Slip: what the constructor throws is caught outside the loop over the libraries.
MutFindOrParse(u) ==
    /\ At2(u, "next") /\ user[u].todo # {}
    /\ \E l \in user[u].todo :
          LET rest == [user[u] EXCEPT !.todo = @ \ {l}]
          IN  IF cache[Base[l]] # NoEntry THEN Becomes2(u, rest)
              ELSE \/ Becomes2(u, [rest EXCEPT !.since = @ \ {l}, !.todo = {}])
                   \/ Becomes2(u, [rest EXCEPT !.pc = "wrlock", !.entry = [lib |-> l, at |-> mapped[l]]])
    /\ UNCHANGED <<World, cache, Locks>>

\* addSharedLib: the find is made without sharedLibsMutex_; what is cached, live
\* or not, stays, and a library that cannot be parsed is left out.
FindOrParse(u) ==
    /\ At2(u, "next") /\ user[u].todo # {}
    /\ \E l \in user[u].todo :
          LET rest == [user[u] EXCEPT !.todo = @ \ {l}]
          IN  IF cache[Base[l]] # NoEntry THEN Becomes2(u, rest)
              ELSE \/ Becomes2(u, [rest EXCEPT !.since = @ \ {l}])
                   \/ Becomes2(u, [rest EXCEPT !.pc = "wrlock", !.entry = [lib |-> l, at |-> mapped[l]]])
    /\ UNCHANGED <<World, cache, Locks>>

WriterLock(u) ==
    /\ At2(u, "wrlock") /\ writer = Nobody /\ readers = {}
    /\ writer' = u
    /\ Becomes2(u, [user[u] EXCEPT !.pc = "insert"])
    /\ UNCHANGED <<World, cache, dlMutex, readers>>

\* insert keeps an entry that is there; ~WriterLock.
Insert(u) ==
    /\ At2(u, "insert")
    /\ LET e == user[u].entry
       IN  cache' = IF cache[Base[e.lib]] = NoEntry THEN [cache EXCEPT ![Base[e.lib]] = e] ELSE cache
    /\ writer' = Nobody
    /\ Becomes2(u, [user[u] EXCEPT !.pc = "next", !.entry = NoEntry])
    /\ UNCHANGED <<World, dlMutex, readers>>

RefreshEnds(u) ==
    /\ At2(u, "next") /\ user[u].todo = {}
    /\ dlMutex' = Nobody
    /\ Becomes2(u, IF user[u].all = "none" THEN NoUse ELSE [user[u] EXCEPT !.pc = "copy"])
    /\ UNCHANGED <<World, cache, writer, readers>>

-----------------------------------------------------------------------------
(* sharedLib, also under dladdr1 *)

ReaderLock(u) ==
    /\ At2(u, "done") /\ writer = Nobody
    /\ readers' = readers \cup {u}
    /\ \E b \in DOMAIN cache : Becomes2(u, [NoUse EXCEPT !.pc = "valid", !.entry = cache[b]])
    /\ UNCHANGED <<World, cache, dlMutex, writer>>

Found(u) == user[u].entry # NoEntry /\ mapped[user[u].entry.lib] = user[u].entry.at

\* Where the call goes on: hook_single_lib catches what sharedLib throws.
AfterLookup(u) ==
    CASE user[u].all = "none" -> NoUse
      [] user[u].all # "none" /\ Found(u) -> [user[u] EXCEPT !.pc = "patch"]
      [] OTHER -> [user[u] EXCEPT !.pc = "each", !.entry = NoEntry]

\* operator bool, with the reader lock held, calls dladdr, which takes the
\* dynamic linker's lock; at() throws for a name that is not there.
Validate(u) ==
    /\ At2(u, "valid") /\ (user[u].entry = NoEntry \/ dlMutex = Nobody)
    /\ Becomes2(u, AfterLookup(u))
    /\ readers' = readers \ {u}
    /\ UNCHANGED <<World, cache, dlMutex, writer>>

-----------------------------------------------------------------------------
(* hook_all_libs and unhook_all_libs *)

UnhookAll(u) ==
    /\ At2(u, "done")
    /\ Becomes2(u, [NoUse EXCEPT !.pc = "copy", !.all = "unhook"])
    /\ UNCHANGED <<World, cache, Locks>>

\* allSharedLibs copies the cache under the reader lock.
allSharedLibs(u) ==
    /\ At2(u, "copy") /\ writer = Nobody
    /\ Becomes2(u, [user[u] EXCEPT !.pc = "each", !.left = {b \in DOMAIN cache : cache[b] # NoEntry}])
    /\ UNCHANGED <<World, cache, Locks>>

\* allowHookingLib may refuse; otherwise sharedLib looks the name up again.
EachLib(u) ==
    /\ At2(u, "each")
    /\ \E b \in user[u].left :
          LET rest == [user[u] EXCEPT !.left = @ \ {b}]
          IN  \/ /\ user[u].all = "hook"
                 /\ Becomes2(u, [rest EXCEPT !.since = {l \in @ : Base[l] # b}])
                 /\ UNCHANGED readers
              \/ /\ writer = Nobody
                 /\ Becomes2(u, [rest EXCEPT !.pc = "valid", !.entry = cache[b]])
                 /\ readers' = readers \cup {u}
    /\ UNCHANGED <<World, cache, dlMutex, writer>>

\* The symbol and relocation tables are read, and the slots written, with no lock
\* that keeps the library where it is.
PatchLib(u) ==
    /\ At2(u, "patch")
    /\ LET l == user[u].entry.lib
           hooks == user[u].all = "hook"
       IN  /\ died' = ~Found(u)
           /\ hooked' = IF ~Found(u) THEN hooked ELSE IF hooks THEN hooked \cup {l} ELSE hooked \ {l}
           /\ user' = [v \in Users |->
                         IF v = u THEN [user[u] EXCEPT !.pc = "each", !.entry = NoEntry]
                         ELSE [user[v] EXCEPT !.since = IF hooks THEN @ ELSE @ \ {l}]]
    /\ UNCHANGED <<mapped, loads, cache, Locks>>

AllEnds(u) ==
    /\ At2(u, "each") /\ user[u].left = {}
    /\ Becomes2(u, NoUse)
    /\ UNCHANGED <<World, cache, Locks>>

RegNext ==
    \/ \E l \in Libs : Load(l) \/ Unload(l)
    \/ \E u \in Users :
          \/ \E all \in {"none", "hook"} : Refresh(u, all)
          \/ FindOrParse(u) \/ WriterLock(u) \/ Insert(u) \/ RefreshEnds(u)
          \/ ReaderLock(u) \/ Validate(u)
          \/ UnhookAll(u) \/ allSharedLibs(u) \/ EachLib(u) \/ PatchLib(u) \/ AllEnds(u)

RegSpec == RegInit /\ [][RegNext]_regVars

-----------------------------------------------------------------------------
CanStep(u) ==
    CASE user[u].pc \in {"done", "next", "insert", "patch"} -> TRUE
      [] user[u].pc = "wrlock" -> writer = Nobody /\ readers = {}
      [] user[u].pc = "valid"  -> user[u].entry = NoEntry \/ dlMutex = Nobody
      [] user[u].pc = "copy"   -> writer = Nobody
      [] user[u].pc = "each"   -> user[u].left = {} \/ user[u].all = "hook" \/ writer = Nobody

InCall == {u \in Users : user[u].pc # "done"}

(* Apart from the inverted lock order, a refresh that holds the dynamic         *)
(* linker's lock and waits for sharedLibsMutex_ against a lookup that holds     *)
(* that for reading and waits for the dynamic linker (sharedlibs.cpp:47, 73),   *)
(* the calls under way never all wait for each other: every lock is given back  *)
(* on every path, also by the calls that throw.                                 *)
StopsOnlyInverted ==
    ~died /\ InCall # {} /\ (\A u \in InCall : ~CanStep(u))
        => \E r, q \in InCall : user[r].pc = "wrlock" /\ dlMutex = r
                                /\ user[q].pc = "valid" /\ q \in readers

(* When hook_all_libs has walked its copy of the cache (linker.cpp:341-359),    *)
(* every library is hooked that was there all along, could be parsed, is wanted *)
(* and was not unhooked by another call meanwhile, if it was loaded once and    *)
(* has its base name to itself: whatever other libraries come and go, however   *)
(* refreshes and lookups interleave.                                            *)
HooksAllLibs ==
    \A u \in Users : At2(u, "each") /\ user[u].left = {} /\ user[u].all = "hook" =>
        \A l \in user[u].since :
            loads[l] = 1 /\ (\A k \in Libs \ {l} : Base[k] # Base[l]) => l \in hooked
=============================================================================
