--------------------------- MODULE Linker_proofs ---------------------------
(***************************************************************************)
(* The users of the hooking library and its registry of libraries, for any *)
(* number of threads, libraries and calls, and what it reads out of a      *)
(* library, for any symbol table.                                          *)
(***************************************************************************)
EXTENDS HookClients, LibRegistry, ElfLookup, FiniteSetTheorems,
        WellFoundedInduction, TLAPS

-----------------------------------------------------------------------------
(* HookClients: the hooks of one client are behind one another, above the   *)
(* original, so that CALL_PREV from any of them leads to the original.      *)

HookOf(c) == IF c = "thread" THEN "pthread_create_hook" ELSE "write_hook"

ListShape(list, hook) ==
  /\ list \in Seq({"original", hook})
  /\ \A i \in 1 .. Len(list) : list[i] = IF i = 1 THEN "original" ELSE hook

LinkerSet(c) == [enabled : BOOLEAN, ready : BOOLEAN,
                 list : Seq({"original", HookOf(c)}),
                 patched : BOOLEAN, room : Int, blocks : Nat]

LinkOK(lk, c) ==
  /\ lk \in LinkerSet(c)
  /\ ListShape(lk.list, HookOf(c))
  /\ lk.patched => lk.list # <<>>

LinkerInv == linker \in [Clients -> UNION {LinkerSet(c) : c \in Clients}]
             /\ \A c \in Clients : LinkOK(linker[c], c)

Ops == {"none", "install", "enable", "restore", "call"}
Places == {"", "hook", "installed", "exchange", "keep", "store"}
Descriptors == {"", "slice", "event", "other", "create"}
HookNames == {"original", "write_hook", "pthread_create_hook"}

WorkSet == [op : Ops, pc : Places, seen : TagValues \cup {All}, list : Seq(HookNames),
            i : Nat, fd : Descriptors, kernel : Nat, logged : Nat, clean : BOOLEAN]

WorkInv ==
  /\ work \in [Workers -> WorkSet]
  /\ tags \in TagValues \cup {All}
  /\ original \in TagValues \cup {All}
  /\ atrace \in [first : BOOLEAN, installed : BOOLEAN, threads : BOOLEAN]

\* A call has not reached the kernel yet, and has been logged only by the one
\* hook of pthread_create.
CallOK(r) ==
  r.op = "call" =>
    /\ r.fd \in {"slice", "event", "other", "create"}
    /\ ListShape(r.list, HookOf(Client(r.fd)))
    /\ r.i \in 1 .. Len(r.list)
    /\ r.kernel = 0
    /\ r.logged = 0 \/ (r.logged = 1 /\ r.fd = "create" /\ r.i = 1)

\* What calls come to: kernel calls and log entries.
Outcome(fd, kernel, logged) ==
  \/ fd = "other" /\ kernel = 1 /\ logged = 0
  \/ fd = "slice" /\ \/ kernel = 1 /\ logged = 0
                     \/ kernel = 0 /\ logged = 1
  \/ fd = "event" /\ kernel \in {0, 1} /\ logged = 0
  \/ fd = "create" /\ kernel = 1 /\ logged \in {0, 1}

FinishedOK == \A f \in finished : Outcome(f.fd, f.kernel, f.logged)

\* An enable that is going to keep the system's tags.
Keeps(r) == r.op = "enable" /\ r.pc = "keep" /\ r.seen # All

\* The system's tags are never lost: they are in force, kept, or about to be.
TagsInv ==
  /\ original # All \/ tags # All \/ \E v \in Workers : Keeps(work[v])
  /\ ~atrace.first => \/ original # All
                      \/ \E v \in Workers : Keeps(work[v])
                      \/ \E v \in Workers : work[v].op = "enable" /\ work[v].pc = "exchange"
  /\ \A w \in Workers : /\ work[w].op = "restore" /\ work[w].clean => work[w].seen # All
                        /\ work[w].op = "enable" => work[w].pc \in {"exchange", "keep"}

ClientsInv ==
  /\ LinkerInv
  /\ WorkInv
  /\ \A w \in Workers : CallOK(work[w])
  /\ FinishedOK
  /\ TagsInv

-----------------------------------------------------------------------------
(* LibRegistry *)

EntrySet == [lib : Libs, at : Nat] \cup {NoEntry}

UserSet == [pc : {"done", "next", "wrlock", "insert", "copy", "each", "valid", "patch"},
            todo : SUBSET Libs, entry : EntrySet, all : {"none", "hook", "unhook"},
            left : SUBSET {Base[l] : l \in Libs}, since : SUBSET Libs]

RegTypes ==
  /\ mapped \in [Libs -> Nat]
  /\ cache \in [{Base[l] : l \in Libs} -> EntrySet]
  /\ dlMutex \in Users \cup {Nobody}
  /\ writer \in Users \cup {Nobody}
  /\ readers \subseteq Users
  /\ user \in [Users -> UserSet]

\* Who holds which lock.
LocksInv ==
  \A u \in Users :
    /\ writer = u <=> user[u].pc = "insert"
    /\ u \in readers <=> user[u].pc = "valid"
    /\ dlMutex = u <=> user[u].pc \in {"next", "wrlock", "insert"}

EntryInv ==
  \A u \in Users : user[u].pc \in {"wrlock", "insert", "patch"} => user[u].entry # NoEntry

\* Where library l stands in a hook_all_libs call that found it.
SinceOK(r, l) ==
  /\ mapped[l] # 0
  /\ r.pc \in {"next", "wrlock", "insert"} =>
       \/ l \in r.todo
       \/ r.pc # "next" /\ r.entry.lib = l
       \/ cache[Base[l]] # NoEntry
  /\ r.pc \in {"copy", "each", "valid", "patch"} => cache[Base[l]] # NoEntry
  /\ r.pc \in {"each", "valid", "patch"} =>
       \/ Base[l] \in r.left
       \/ l \in hooked
       \/ cache[Base[l]] # [lib |-> l, at |-> mapped[l]]
       \/ r.pc # "each" /\ r.entry = [lib |-> l, at |-> mapped[l]]

SinceInv ==
  \A u \in Users : user[u].all = "hook" =>
    \A l \in user[u].since : SinceOK(user[u], l)

RegInv == RegTypes /\ LocksInv /\ EntryInv /\ SinceInv

\* What a library's standing depends on: its address, its cached entry and
\* whether it is hooked.
LEMMA SinceKept ==
  ASSUME NEW r, NEW l, SinceOK(r, l), mapped'[l] = mapped[l],
         l \in hooked => l \in hooked',
         cache[Base[l]] # NoEntry => cache'[Base[l]] = cache[Base[l]]
  PROVE  SinceOK(r, l)'
BY DEF SinceOK

\* A step of one thread that leaves the libraries and the cache alone.
LEMMA SinceOwn ==
  ASSUME SinceInv, NEW u \in Users, NEW r,
         user' = [user EXCEPT ![u] = r], user \in [Users -> UserSet],
         UNCHANGED <<mapped, cache, hooked>>,
         r.all = "hook" => \A l \in r.since : SinceOK(r, l)
  PROVE  SinceInv'
<1>1. ASSUME NEW v \in Users, user'[v].all = "hook", NEW l \in user'[v].since
      PROVE  SinceOK(user'[v], l)
  BY <1>1 DEF SinceInv
<1>2. ASSUME NEW v \in Users, user'[v].all = "hook", NEW l \in user'[v].since
      PROVE  SinceOK(user[v], l)'
  <2>1. PICK x : x = user'[v]
    OBVIOUS
  <2>2. SinceOK(x, l)
    BY <1>1, <1>2, <2>1
  <2>3. SinceOK(x, l)'
    BY <2>2 DEF SinceOK
  <2> QED
    BY <2>1, <2>3
<1> QED
  BY <1>2 DEF SinceInv

\* The parts of the invariant that a step of one thread on its own record and
\* the locks must re-establish.
LEMMA OwnStep ==
  ASSUME RegInv, NEW u \in Users, NEW r \in UserSet,
         user' = [user EXCEPT ![u] = r],
         UNCHANGED <<mapped, cache, hooked>>,
         dlMutex' \in Users \cup {Nobody}, writer' \in Users \cup {Nobody},
         readers' \subseteq Users,
         \A v \in Users : v # u => /\ writer' = v <=> writer = v
                                   /\ dlMutex' = v <=> dlMutex = v
                                   /\ v \in readers' <=> v \in readers,
         writer' = u <=> r.pc = "insert",
         u \in readers' <=> r.pc = "valid",
         dlMutex' = u <=> r.pc \in {"next", "wrlock", "insert"},
         r.pc \in {"wrlock", "insert", "patch"} => r.entry # NoEntry,
         r.all = "hook" => \A l \in r.since : SinceOK(r, l)
  PROVE  RegInv'
<1>1. RegTypes /\ LocksInv /\ EntryInv /\ SinceInv
  BY DEF RegInv
<1>2. \A v \in Users : user'[v] = IF v = u THEN r ELSE user[v]
  BY <1>1 DEF RegTypes
<1>3. RegTypes'
  BY <1>1 DEF RegTypes
<1>4. LocksInv'
  BY <1>1, <1>2 DEF LocksInv
<1>5. EntryInv'
  BY <1>1, <1>2 DEF EntryInv
<1>6. SinceInv'
  BY <1>1, SinceOwn DEF RegTypes
<1> QED
  BY <1>3, <1>4, <1>5, <1>6 DEF RegInv

\* dlopen: a library that a call has found is mapped, so it is another one.
LEMMA LoadInv ==
  ASSUME RegInv, NEW l \in Libs, Load(l)
  PROVE  RegInv'
<1>1. RegTypes /\ LocksInv /\ EntryInv /\ SinceInv
  BY DEF RegInv
<1>2. PICK a \in 1 .. 2 : mapped' = [mapped EXCEPT ![l] = a]
  BY DEF Load
<1>3. mapped[l] = 0 /\ UNCHANGED <<cache, dlMutex, writer, readers, hooked, user>>
  BY DEF Load, Locks
<1>4. RegTypes'
  BY <1>1, <1>2, <1>3 DEF RegTypes
<1>5. LocksInv' /\ EntryInv'
  BY <1>1, <1>3 DEF LocksInv, EntryInv
<1>6. ASSUME NEW u \in Users, user[u].all = "hook", NEW k \in user[u].since
      PROVE  SinceOK(user[u], k)'
  <2>1. PICK x : x = user[u]
    OBVIOUS
  <2>2. SinceOK(x, k) /\ k \in Libs
    BY <1>1, <1>6, <2>1 DEF SinceInv, RegTypes, UserSet
  <2>3. k # l
    BY <1>3, <2>2 DEF SinceOK
  <2>4. mapped'[k] = mapped[k]
    BY <1>1, <1>2, <2>2, <2>3 DEF RegTypes
  <2>5. SinceOK(x, k)'
    BY <1>3, <2>2, <2>4, SinceKept
  <2> QED
    BY <1>3, <2>1, <2>5
<1>7. SinceInv'
  BY <1>3, <1>6 DEF SinceInv
<1> QED
  BY <1>4, <1>5, <1>7 DEF RegInv

\* dlclose takes the library out of every call's account.
LEMMA UnloadInv ==
  ASSUME RegInv, NEW l \in Libs, Unload(l)
  PROVE  RegInv'
<1>1. RegTypes /\ LocksInv /\ EntryInv /\ SinceInv
  BY DEF RegInv
<1>2. /\ mapped' = [mapped EXCEPT ![l] = 0]
      /\ hooked' = hooked \ {l}
      /\ user' = [u \in Users |-> [user[u] EXCEPT !.since = @ \ {l}]]
      /\ UNCHANGED <<cache, dlMutex, writer, readers>>
  BY DEF Unload, Locks
<1>3. ASSUME NEW u \in Users
      PROVE  /\ user'[u].pc = user[u].pc /\ user'[u].entry = user[u].entry
             /\ user'[u].todo = user[u].todo /\ user'[u].left = user[u].left
             /\ user'[u].all = user[u].all
             /\ user'[u].since = user[u].since \ {l}
             /\ user'[u] \in UserSet
  BY <1>1, <1>2 DEF RegTypes, UserSet
<1>4. RegTypes'
  BY <1>1, <1>2, <1>3 DEF RegTypes
<1>5. LocksInv' /\ EntryInv'
  BY <1>1, <1>2, <1>3 DEF LocksInv, EntryInv
<1>6. ASSUME NEW u \in Users, user'[u].all = "hook", NEW k \in user'[u].since
      PROVE  SinceOK(user[u], k)'
  <2>1. PICK x, y : x = user[u] /\ y = user'[u]
    OBVIOUS
  <2>2. SinceOK(x, k) /\ k \in Libs /\ k # l
    BY <1>1, <1>3, <1>6, <2>1 DEF SinceInv, RegTypes, UserSet
  <2>3. mapped'[k] = mapped[k]
    BY <1>1, <1>2, <2>2 DEF RegTypes
  <2>4. SinceOK(x, k)'
    BY <1>2, <2>2, <2>3, SinceKept
  <2>5. SinceOK(y, k)'
    BY <1>3, <2>1, <2>4 DEF SinceOK
  <2> QED
    BY <2>1, <2>5
<1>7. SinceInv'
  BY <1>6 DEF SinceInv
<1> QED
  BY <1>4, <1>5, <1>7 DEF RegInv

\* A refresh begins: everything that is mapped is still to be looked at.
LEMMA RefreshInv ==
  ASSUME RegInv, NEW u \in Users, NEW all \in {"none", "hook"}, Refresh(u, all)
  PROVE  RegInv'
<1>1. RegTypes /\ LocksInv
  BY DEF RegInv
<1>2. PICK there : there = {l \in Libs : mapped[l] # 0}
  OBVIOUS
<1>3. PICK r : r = [NoUse EXCEPT !.pc = "next", !.todo = there, !.all = all,
                                 !.since = there]
  OBVIOUS
<1>4. /\ user' = [user EXCEPT ![u] = r] /\ dlMutex = Nobody /\ dlMutex' = u
      /\ user[u].pc = "done"
      /\ UNCHANGED <<mapped, cache, hooked, writer, readers>>
  BY <1>2, <1>3 DEF Refresh, Becomes2, World, At2
<1>5. /\ r.pc = "next" /\ r.todo = there /\ r.all = all
      /\ r.since \subseteq there /\ r \in UserSet
  BY <1>2, <1>3 DEF NoUse, UserSet, EntrySet
<1>6. \A l \in r.since : SinceOK(r, l)
  BY <1>2, <1>5 DEF SinceOK
<1>7. writer # u /\ u \notin readers
  BY <1>1, <1>4 DEF LocksInv
<1>8. \A v \in Users : dlMutex # v
  BY <1>4, NobodyAssumption
<1> QED
  BY <1>1, <1>4, <1>5, <1>6, <1>7, <1>8, OwnStep DEF RegTypes

\* One library of a refresh: cached, left out, or to be inserted.
LEMMA FindInv ==
  ASSUME RegInv, NEW u \in Users, FindOrParse(u)
  PROVE  RegInv'
<1>1. RegTypes /\ LocksInv /\ SinceInv
  BY DEF RegInv
<1>2. PICK x : x = user[u]
  OBVIOUS
<1>3. x \in UserSet /\ x.pc = "next"
  BY <1>1, <1>2 DEF RegTypes, FindOrParse, At2
<1>4. PICK l \in x.todo :
        LET rest == [x EXCEPT !.todo = @ \ {l}]
        IN  IF cache[Base[l]] # NoEntry THEN Becomes2(u, rest)
            ELSE \/ Becomes2(u, [rest EXCEPT !.since = @ \ {l}])
                 \/ Becomes2(u, [rest EXCEPT !.pc = "wrlock",
                                   !.entry = [lib |-> l, at |-> mapped[l]]])
  BY <1>2 DEF FindOrParse
<1>5. UNCHANGED <<mapped, cache, hooked, dlMutex, writer, readers>>
  BY DEF FindOrParse, World, Locks
<1>6. writer # u /\ u \notin readers /\ dlMutex = u
  BY <1>1, <1>2, <1>3 DEF LocksInv
<1>7. ASSUME x.all = "hook", NEW k \in x.since PROVE SinceOK(x, k)
  BY <1>1, <1>2, <1>7 DEF SinceInv
<1>8. l \in Libs /\ mapped[l] \in Nat
  BY <1>1, <1>3 DEF UserSet, RegTypes
<1>9. CASE cache[Base[l]] # NoEntry
  <2>1. PICK r : r = [x EXCEPT !.todo = @ \ {l}]
    OBVIOUS
  <2>2. user' = [user EXCEPT ![u] = r]
    BY <1>4, <1>9, <2>1 DEF Becomes2
  <2>3. /\ r \in UserSet /\ r.pc = "next" /\ r.todo = x.todo \ {l}
        /\ r.all = x.all /\ r.since = x.since
    BY <1>3, <2>1 DEF UserSet
  <2>4. r.all = "hook" => \A k \in r.since : SinceOK(r, k)
    BY <1>3, <1>7, <1>9, <2>3 DEF SinceOK
  <2> QED
    BY <1>1, <1>5, <1>6, <2>2, <2>3, <2>4, OwnStep DEF RegTypes
<1>10. CASE /\ cache[Base[l]] = NoEntry
            /\ Becomes2(u, [[x EXCEPT !.todo = @ \ {l}] EXCEPT !.since = @ \ {l}])
  <2>1. PICK r : r = [[x EXCEPT !.todo = @ \ {l}] EXCEPT !.since = @ \ {l}]
    OBVIOUS
  <2>2. user' = [user EXCEPT ![u] = r]
    BY <1>10, <2>1 DEF Becomes2
  <2>3. /\ r \in UserSet /\ r.pc = "next" /\ r.todo = x.todo \ {l}
        /\ r.all = x.all /\ r.since = x.since \ {l}
    BY <1>3, <2>1 DEF UserSet
  <2>4. r.all = "hook" => \A k \in r.since : SinceOK(r, k)
    BY <1>3, <1>7, <2>3 DEF SinceOK
  <2> QED
    BY <1>1, <1>5, <1>6, <2>2, <2>3, <2>4, OwnStep DEF RegTypes
<1>11. CASE /\ cache[Base[l]] = NoEntry
            /\ Becomes2(u, [[x EXCEPT !.todo = @ \ {l}] EXCEPT !.pc = "wrlock",
                              !.entry = [lib |-> l, at |-> mapped[l]]])
  <2>0. PICK e : e = [lib |-> l, at |-> mapped[l]]
    OBVIOUS
  <2>1. PICK r : r = [[x EXCEPT !.todo = @ \ {l}] EXCEPT !.pc = "wrlock", !.entry = e]
    OBVIOUS
  <2>2. user' = [user EXCEPT ![u] = r]
    BY <1>11, <2>0, <2>1 DEF Becomes2
  <2>3. e \in EntrySet /\ e # NoEntry /\ e.lib = l
    BY <1>8, <2>0, NobodyAssumption DEF EntrySet, NoEntry
  <2>4. /\ r \in UserSet /\ r.pc = "wrlock" /\ r.todo = x.todo \ {l}
        /\ r.all = x.all /\ r.since = x.since /\ r.entry = e
    BY <1>3, <2>1, <2>3 DEF UserSet
  <2>5. r.all = "hook" => \A k \in r.since : SinceOK(r, k)
    BY <1>3, <1>7, <2>3, <2>4 DEF SinceOK
  <2> QED
    BY <1>1, <1>5, <1>6, <2>2, <2>3, <2>4, <2>5, OwnStep DEF RegTypes
<1> QED
  BY <1>4, <1>9, <1>10, <1>11

\* The writer lock of the registry.
LEMMA WriterInv ==
  ASSUME RegInv, NEW u \in Users, WriterLock(u)
  PROVE  RegInv'
<1>1. RegTypes /\ LocksInv /\ SinceInv /\ EntryInv
  BY DEF RegInv
<1>2. PICK x, r : x = user[u] /\ r = [x EXCEPT !.pc = "insert"]
  OBVIOUS
<1>3. /\ x \in UserSet /\ x.pc = "wrlock" /\ x.entry # NoEntry
      /\ user' = [user EXCEPT ![u] = r] /\ writer = Nobody /\ writer' = u
      /\ UNCHANGED <<mapped, cache, hooked, dlMutex, readers>>
  BY <1>1, <1>2 DEF RegTypes, WriterLock, At2, Becomes2, World, EntryInv
<1>4. /\ r \in UserSet /\ r.pc = "insert" /\ r.todo = x.todo
      /\ r.all = x.all /\ r.since = x.since /\ r.entry = x.entry
  BY <1>2, <1>3 DEF UserSet
<1>5. r.all = "hook" => \A k \in r.since : SinceOK(r, k)
  <2>1. ASSUME x.all = "hook", NEW k \in x.since PROVE SinceOK(x, k)
    BY <1>1, <1>2, <2>1 DEF SinceInv
  <2> QED
    BY <1>3, <1>4, <2>1 DEF SinceOK
<1>6. u \notin readers /\ dlMutex = u /\ \A v \in Users : writer # v
  BY <1>1, <1>2, <1>3, NobodyAssumption DEF LocksInv
<1> QED
  BY <1>1, <1>3, <1>4, <1>5, <1>6, OwnStep DEF RegTypes

\* insert: an entry that is there stays.
LEMMA InsertInv ==
  ASSUME RegInv, NEW u \in Users, Insert(u)
  PROVE  RegInv'
<1>1. RegTypes /\ LocksInv /\ SinceInv /\ EntryInv
  BY DEF RegInv
<1>2. PICK x, r : x = user[u] /\ r = [x EXCEPT !.pc = "next", !.entry = NoEntry]
  OBVIOUS
<1>3. PICK e : e = x.entry
  OBVIOUS
<1>4. /\ x \in UserSet /\ x.pc = "insert" /\ e # NoEntry
      /\ user' = [user EXCEPT ![u] = r] /\ writer' = Nobody
      /\ cache' = IF cache[Base[e.lib]] = NoEntry
                  THEN [cache EXCEPT ![Base[e.lib]] = e] ELSE cache
      /\ UNCHANGED <<mapped, hooked, dlMutex, readers>>
  BY <1>1, <1>2, <1>3 DEF RegTypes, Insert, At2, Becomes2, World, EntryInv
<1>5. e \in EntrySet /\ e.lib \in Libs
  BY <1>3, <1>4 DEF UserSet, EntrySet
<1>6. /\ r \in UserSet /\ r.pc = "next" /\ r.todo = x.todo
      /\ r.all = x.all /\ r.since = x.since
  BY <1>2, <1>4 DEF UserSet, EntrySet
<1>7. \A v \in Users : user'[v] = IF v = u THEN r ELSE user[v]
  BY <1>1, <1>4 DEF RegTypes
<1>8. writer = u /\ u \notin readers /\ dlMutex = u
  BY <1>1, <1>2, <1>4 DEF LocksInv
<1>9. RegTypes'
  BY <1>1, <1>4, <1>5, <1>6 DEF RegTypes
<1>10. LocksInv'
  BY <1>1, <1>2, <1>4, <1>6, <1>7, <1>8, NobodyAssumption DEF LocksInv
<1>11. EntryInv'
  BY <1>1, <1>6, <1>7 DEF EntryInv
<1>12. cache'[Base[e.lib]] # NoEntry
       /\ \A l \in Libs : cache[Base[l]] # NoEntry => cache'[Base[l]] = cache[Base[l]]
  BY <1>1, <1>4, <1>5 DEF RegTypes
<1>13. ASSUME NEW v \in Users, user'[v].all = "hook", NEW l \in user'[v].since
       PROVE  SinceOK(user[v], l)'
  <2>1. PICK y, z : y = user[v] /\ z = user'[v]
    OBVIOUS
  <2>2. y.all = "hook" /\ l \in y.since
    BY <1>2, <1>6, <1>7, <1>13, <2>1
  <2>3. SinceOK(y, l) /\ l \in Libs
    BY <1>1, <2>1, <2>2 DEF SinceInv, RegTypes, UserSet
  <2>4. SinceOK(y, l)'
    BY <1>4, <1>12, <2>3, SinceKept
  <2>5. CASE v = u
    <3>1. y = x /\ z = r
      BY <1>2, <1>7, <2>1, <2>5
    <3> QED
      BY <1>3, <1>4, <1>6, <1>12, <2>1, <2>4, <3>1 DEF SinceOK
  <2>6. CASE v # u
    BY <1>7, <2>1, <2>4, <2>6
  <2> QED
    BY <2>5, <2>6
<1>14. SinceInv'
  BY <1>13 DEF SinceInv
<1> QED
  BY <1>9, <1>10, <1>11, <1>14 DEF RegInv

\* The end of a refresh: every library found has been looked at.
LEMMA RefreshEndsInv ==
  ASSUME RegInv, NEW u \in Users, RefreshEnds(u)
  PROVE  RegInv'
<1>1. RegTypes /\ LocksInv /\ SinceInv /\ EntryInv
  BY DEF RegInv
<1>2. PICK x : x = user[u]
  OBVIOUS
<1>3. PICK r : r = IF x.all = "none" THEN NoUse ELSE [x EXCEPT !.pc = "copy"]
  OBVIOUS
<1>4. /\ x \in UserSet /\ x.pc = "next" /\ x.todo = {}
      /\ user' = [user EXCEPT ![u] = r] /\ dlMutex' = Nobody
      /\ UNCHANGED <<mapped, cache, hooked, writer, readers>>
  BY <1>1, <1>2, <1>3 DEF RegTypes, RefreshEnds, At2, Becomes2, World
<1>5. /\ r \in UserSet /\ r.pc \in {"done", "copy"}
      /\ r.all = "hook" => r.since = x.since /\ x.all = "hook" /\ r.pc = "copy"
  BY <1>3, <1>4 DEF UserSet, EntrySet, NoUse
<1>6. r.all = "hook" => \A k \in r.since : SinceOK(r, k)
  BY <1>1, <1>2, <1>4, <1>5 DEF SinceOK, SinceInv
<1>7. writer # u /\ u \notin readers /\ dlMutex = u /\ u # Nobody
  BY <1>1, <1>2, <1>4, NobodyAssumption DEF LocksInv
<1> QED
  BY <1>1, <1>4, <1>5, <1>6, <1>7, NobodyAssumption, OwnStep DEF RegTypes

\* A lookup by itself, and the start of unhook_all_libs.
LEMMA StartInv ==
  ASSUME RegInv, NEW u \in Users, ReaderLock(u) \/ UnhookAll(u)
  PROVE  RegInv'
<1>1. RegTypes /\ LocksInv
  BY DEF RegInv
<1>2. writer # u /\ u \notin readers /\ dlMutex # u
  BY <1>1 DEF LocksInv, ReaderLock, UnhookAll, At2
<1>3. CASE ReaderLock(u)
  <2>1. PICK b \in DOMAIN cache :
          Becomes2(u, [NoUse EXCEPT !.pc = "valid", !.entry = cache[b]])
    BY <1>3 DEF ReaderLock
  <2>2. PICK e : e = cache[b] /\ e \in EntrySet
    BY <1>1, <2>1 DEF RegTypes
  <2>3. PICK r : r = [NoUse EXCEPT !.pc = "valid", !.entry = e]
    OBVIOUS
  <2>4. r \in UserSet /\ r.pc = "valid" /\ r.all = "none"
    BY <2>2, <2>3 DEF UserSet, NoUse
  <2>5. /\ user' = [user EXCEPT ![u] = r] /\ readers' = readers \cup {u}
        /\ UNCHANGED <<mapped, cache, hooked, writer, dlMutex>>
    BY <1>3, <2>1, <2>2, <2>3 DEF ReaderLock, Becomes2, World
  <2> QED
    BY <1>1, <1>2, <2>4, <2>5, OwnStep DEF RegTypes
<1>4. CASE UnhookAll(u)
  <2>1. PICK r : r = [NoUse EXCEPT !.pc = "copy", !.all = "unhook"]
    OBVIOUS
  <2>2. r \in UserSet /\ r.pc = "copy" /\ r.all = "unhook"
    BY <2>1 DEF UserSet, NoUse, EntrySet
  <2>3. /\ user' = [user EXCEPT ![u] = r]
        /\ UNCHANGED <<mapped, cache, hooked, writer, dlMutex, readers>>
    BY <1>4, <2>1 DEF UnhookAll, Becomes2, World, Locks
  <2> QED
    BY <1>1, <1>2, <2>2, <2>3, OwnStep DEF RegTypes
<1> QED
  BY <1>3, <1>4

\* The end of a lookup: the entry is the library's own exactly when it is found.
LEMMA ValidateInv ==
  ASSUME RegInv, NEW u \in Users, Validate(u)
  PROVE  RegInv'
<1>1. RegTypes /\ LocksInv /\ SinceInv
  BY DEF RegInv
<1>2. PICK x : x = user[u]
  OBVIOUS
<1>3. PICK r : r = AfterLookup(u)
  OBVIOUS
<1>4. /\ x \in UserSet /\ x.pc = "valid"
      /\ user' = [user EXCEPT ![u] = r] /\ readers' = readers \ {u}
      /\ UNCHANGED <<mapped, cache, hooked, writer, dlMutex>>
  BY <1>1, <1>2, <1>3 DEF RegTypes, Validate, At2, Becomes2, World
<1>5. writer # u /\ u \in readers /\ dlMutex # u
  BY <1>1, <1>2, <1>4 DEF LocksInv
<1>6. ASSUME x.all = "hook", NEW k \in x.since PROVE SinceOK(x, k) /\ k \in Libs
  BY <1>1, <1>2, <1>4, <1>6 DEF SinceInv, UserSet
<1>7. CASE x.all = "none"
  <2>1. r = NoUse
    BY <1>2, <1>3, <1>7 DEF AfterLookup
  <2>2. r \in UserSet /\ r.pc = "done" /\ r.all = "none"
    BY <2>1 DEF UserSet, NoUse, EntrySet
  <2> QED
    BY <1>1, <1>4, <1>5, <2>2, OwnStep DEF RegTypes
<1>8. CASE x.all # "none" /\ Found(u)
  <2>1. r = [x EXCEPT !.pc = "patch"]
    BY <1>2, <1>3, <1>8 DEF AfterLookup
  <2>2. /\ r \in UserSet /\ r.pc = "patch" /\ r.all = x.all /\ r.left = x.left
        /\ r.since = x.since /\ r.entry = x.entry
    BY <1>4, <2>1 DEF UserSet
  <2>3. r.entry # NoEntry
    BY <1>2, <1>8, <2>2 DEF Found
  <2>4. r.all = "hook" => \A k \in r.since : SinceOK(r, k)
    BY <1>4, <1>6, <2>2 DEF SinceOK
  <2> QED
    BY <1>1, <1>4, <1>5, <2>2, <2>3, <2>4, OwnStep DEF RegTypes
<1>9. CASE x.all # "none" /\ ~Found(u)
  <2>1. r = [x EXCEPT !.pc = "each", !.entry = NoEntry]
    BY <1>2, <1>3, <1>9 DEF AfterLookup
  <2>2. /\ r \in UserSet /\ r.pc = "each" /\ r.all = x.all /\ r.left = x.left
        /\ r.since = x.since
    BY <1>4, <2>1 DEF UserSet, EntrySet
  <2>3. ASSUME NEW k \in Libs PROVE x.entry # [lib |-> k, at |-> mapped[k]]
    <3> SUFFICES ASSUME x.entry = [lib |-> k, at |-> mapped[k]] PROVE FALSE
      OBVIOUS
    <3>1. x.entry.lib = k /\ x.entry.at = mapped[k]
      OBVIOUS
    <3>2. x.entry # NoEntry
      BY <3>1, NobodyAssumption DEF NoEntry
    <3> QED
      BY <1>2, <1>9, <3>1, <3>2 DEF Found
  <2>4. r.all = "hook" => \A k \in r.since : SinceOK(r, k)
    BY <1>4, <1>6, <2>2, <2>3 DEF SinceOK
  <2> QED
    BY <1>1, <1>4, <1>5, <2>2, <2>4, OwnStep DEF RegTypes
<1> QED
  BY <1>7, <1>8, <1>9

\* allSharedLibs copies every name that has an entry.
LEMMA CopyInv ==
  ASSUME RegInv, NEW u \in Users, allSharedLibs(u)
  PROVE  RegInv'
<1>1. RegTypes /\ LocksInv /\ SinceInv
  BY DEF RegInv
<1>2. PICK x : x = user[u]
  OBVIOUS
<1>3. PICK bs : bs = {b \in DOMAIN cache : cache[b] # NoEntry}
  OBVIOUS
<1>4. PICK r : r = [x EXCEPT !.pc = "each", !.left = bs]
  OBVIOUS
<1>5. /\ x \in UserSet /\ x.pc = "copy"
      /\ user' = [user EXCEPT ![u] = r]
      /\ UNCHANGED <<mapped, cache, hooked, writer, dlMutex, readers>>
  BY <1>1, <1>2, <1>3, <1>4
     DEF RegTypes, allSharedLibs, At2, Becomes2, World, Locks
<1>6. bs \subseteq {Base[l] : l \in Libs}
  BY <1>1, <1>3 DEF RegTypes
<1>7. /\ r \in UserSet /\ r.pc = "each" /\ r.all = x.all /\ r.left = bs
      /\ r.since = x.since
  BY <1>4, <1>5, <1>6 DEF UserSet
<1>8. ASSUME x.all = "hook", NEW k \in x.since PROVE SinceOK(x, k) /\ k \in Libs
  BY <1>1, <1>2, <1>5, <1>8 DEF SinceInv, UserSet
<1>9. r.all = "hook" => \A k \in r.since : SinceOK(r, k)
  BY <1>1, <1>3, <1>5, <1>7, <1>8 DEF SinceOK, RegTypes
<1>10. writer # u /\ u \notin readers /\ dlMutex # u
  BY <1>1, <1>2, <1>5 DEF LocksInv
<1> QED
  BY <1>1, <1>5, <1>7, <1>9, <1>10, OwnStep DEF RegTypes

\* One name of the copy: refused, or looked up again.
LEMMA EachInv ==
  ASSUME RegInv, NEW u \in Users, EachLib(u)
  PROVE  RegInv'
<1>1. RegTypes /\ LocksInv /\ SinceInv
  BY DEF RegInv
<1>2. PICK x : x = user[u]
  OBVIOUS
<1>3. PICK b \in x.left :
        LET rest == [x EXCEPT !.left = @ \ {b}]
        IN  \/ /\ x.all = "hook"
               /\ Becomes2(u, [rest EXCEPT !.since = {l \in @ : Base[l] # b}])
               /\ UNCHANGED readers
            \/ /\ writer = Nobody
               /\ Becomes2(u, [rest EXCEPT !.pc = "valid", !.entry = cache[b]])
               /\ readers' = readers \cup {u}
  BY <1>2 DEF EachLib
<1>4. /\ x \in UserSet /\ x.pc = "each"
      /\ UNCHANGED <<mapped, cache, hooked, writer, dlMutex>>
  BY <1>1, <1>2 DEF RegTypes, EachLib, At2, World
<1>5. writer # u /\ u \notin readers /\ dlMutex # u
  BY <1>1, <1>2, <1>4 DEF LocksInv
<1>6. ASSUME x.all = "hook", NEW k \in x.since PROVE SinceOK(x, k) /\ k \in Libs
  BY <1>1, <1>2, <1>4, <1>6 DEF SinceInv, UserSet
<1>7. CASE /\ Becomes2(u, [[x EXCEPT !.left = @ \ {b}] EXCEPT !.since = {l \in @ : Base[l] # b}])
           /\ UNCHANGED readers
  <2>1. PICK ls : ls = {l \in x.since : Base[l] # b}
    OBVIOUS
  <2>2. PICK r : r = [[x EXCEPT !.left = @ \ {b}] EXCEPT !.since = ls]
    OBVIOUS
  <2>3. user' = [user EXCEPT ![u] = r]
    <3>1. [x EXCEPT !.left = @ \ {b}].since = x.since
      BY <1>4 DEF UserSet
    <3>2. r = [[x EXCEPT !.left = @ \ {b}] EXCEPT !.since = {l \in @ : Base[l] # b}]
      BY <2>1, <2>2, <3>1
    <3> QED
      BY <1>7, <3>2 DEF Becomes2
  <2>4. /\ r \in UserSet /\ r.pc = "each" /\ r.all = x.all
        /\ r.left = x.left \ {b} /\ r.since = ls
    BY <1>4, <2>1, <2>2 DEF UserSet
  <2>5. r.all = "hook" => \A k \in r.since : SinceOK(r, k)
    BY <1>4, <1>6, <2>1, <2>4 DEF SinceOK
  <2> QED
    BY <1>1, <1>4, <1>5, <1>7, <2>3, <2>4, <2>5, OwnStep DEF RegTypes
<1>8. CASE /\ Becomes2(u, [[x EXCEPT !.left = @ \ {b}] EXCEPT !.pc = "valid", !.entry = cache[b]])
           /\ readers' = readers \cup {u}
  <2>1. PICK e : e = cache[b]
    OBVIOUS
  <2>2. PICK r : r = [[x EXCEPT !.left = @ \ {b}] EXCEPT !.pc = "valid", !.entry = e]
    OBVIOUS
  <2>3. user' = [user EXCEPT ![u] = r]
    BY <1>8, <2>1, <2>2 DEF Becomes2
  <2>4. e \in EntrySet
    BY <1>1, <1>3, <1>4, <2>1 DEF RegTypes, UserSet
  <2>5. /\ r \in UserSet /\ r.pc = "valid" /\ r.all = x.all
        /\ r.left = x.left \ {b} /\ r.since = x.since /\ r.entry = e
    BY <1>4, <2>2, <2>4 DEF UserSet
  <2>6. r.all = "hook" => \A k \in r.since : SinceOK(r, k)
    BY <1>4, <1>6, <2>1, <2>5 DEF SinceOK
  <2> QED
    BY <1>1, <1>4, <1>5, <1>8, <2>3, <2>5, <2>6, OwnStep DEF RegTypes
<1> QED
  BY <1>3, <1>7, <1>8

\* Hooking or unhooking a library: who unhooks takes it out of the others'
\* account.
LEMMA PatchInv ==
  ASSUME RegInv, NEW u \in Users, PatchLib(u)
  PROVE  RegInv'
<1>1. RegTypes /\ LocksInv /\ SinceInv /\ EntryInv
  BY DEF RegInv
<1>2. PICK x, r : x = user[u] /\ r = [x EXCEPT !.pc = "each", !.entry = NoEntry]
  OBVIOUS
<1>3. PICK l : l = x.entry.lib
  OBVIOUS
<1>4. /\ x \in UserSet /\ x.pc = "patch" /\ x.entry # NoEntry
      /\ hooked' = IF ~Found(u) THEN hooked
                   ELSE IF x.all = "hook" THEN hooked \cup {l} ELSE hooked \ {l}
      /\ user' = [v \in Users |->
                    IF v = u THEN r
                    ELSE [user[v] EXCEPT !.since = IF x.all = "hook" THEN @ ELSE @ \ {l}]]
      /\ UNCHANGED <<mapped, cache, writer, dlMutex, readers>>
  BY <1>1, <1>2, <1>3 DEF RegTypes, PatchLib, At2, Locks, EntryInv
<1>5. /\ r \in UserSet /\ r.pc = "each" /\ r.all = x.all /\ r.left = x.left
      /\ r.since = x.since
  BY <1>2, <1>4 DEF UserSet, EntrySet
<1>6. ASSUME NEW v \in Users, v # u
      PROVE  /\ user'[v].pc = user[v].pc /\ user'[v].entry = user[v].entry
             /\ user'[v].todo = user[v].todo /\ user'[v].left = user[v].left
             /\ user'[v].all = user[v].all
             /\ user'[v].since = IF x.all = "hook" THEN user[v].since
                                 ELSE user[v].since \ {l}
             /\ user'[v] \in UserSet
  BY <1>1, <1>4, <1>6 DEF RegTypes, UserSet
<1>7. user'[u] = r
  BY <1>4
<1>8. writer # u /\ u \notin readers /\ dlMutex # u
  BY <1>1, <1>2, <1>4 DEF LocksInv
<1>9. RegTypes'
  BY <1>1, <1>4, <1>5, <1>6, <1>7 DEF RegTypes
<1>10. LocksInv' /\ EntryInv'
  BY <1>1, <1>4, <1>5, <1>6, <1>7, <1>8 DEF LocksInv, EntryInv
<1>11. ASSUME user'[u].all = "hook", NEW k \in user'[u].since
       PROVE  SinceOK(user[u], k)'
  <2>1. SinceOK(x, k) /\ k \in Libs /\ x.all = "hook"
    BY <1>1, <1>2, <1>4, <1>5, <1>7, <1>11 DEF SinceInv, UserSet
  <2>2. x.entry = [lib |-> k, at |-> mapped[k]] => k \in hooked'
    <3> SUFFICES ASSUME x.entry = [lib |-> k, at |-> mapped[k]] PROVE k \in hooked'
      OBVIOUS
    <3>1. x.entry.lib = k /\ x.entry.at = mapped[k]
      OBVIOUS
    <3>2. Found(u)
      BY <1>2, <1>4, <3>1 DEF Found
    <3> QED
      BY <1>3, <1>4, <2>1, <3>1, <3>2
  <2>3. k \in hooked => k \in hooked'
    BY <1>4, <2>1
  <2>4. SinceOK(r, k)'
    BY <1>4, <1>5, <2>1, <2>2, <2>3 DEF SinceOK
  <2> QED
    BY <1>7, <2>4
<1>12. ASSUME NEW v \in Users, v # u, user'[v].all = "hook", NEW k \in user'[v].since
       PROVE  SinceOK(user[v], k)'
  <2>1. PICK y, z : y = user[v] /\ z = user'[v]
    OBVIOUS
  <2>2. SinceOK(y, k)
    BY <1>1, <1>6, <1>12, <2>1 DEF SinceInv
  <2>3. k \in hooked => k \in hooked'
    BY <1>4, <1>6, <1>12
  <2>4. SinceOK(y, k)'
    BY <1>4, <2>2, <2>3, SinceKept
  <2>5. SinceOK(z, k)'
    BY <1>6, <1>12, <2>1, <2>4 DEF SinceOK
  <2> QED
    BY <2>1, <2>5
<1>13. SinceInv'
  BY <1>11, <1>12 DEF SinceInv
<1> QED
  BY <1>9, <1>10, <1>13 DEF RegInv

\* The end of hook_all_libs or unhook_all_libs.
LEMMA AllEndsInv ==
  ASSUME RegInv, NEW u \in Users, AllEnds(u)
  PROVE  RegInv'
<1>1. RegTypes /\ LocksInv
  BY DEF RegInv
<1>2. PICK r : r = NoUse
  OBVIOUS
<1>3. r \in UserSet /\ r.pc = "done" /\ r.all = "none"
  BY <1>2 DEF UserSet, NoUse, EntrySet
<1>4. /\ user' = [user EXCEPT ![u] = r]
      /\ UNCHANGED <<mapped, cache, hooked, writer, dlMutex, readers>>
  BY <1>2 DEF AllEnds, Becomes2, World, Locks
<1>5. writer # u /\ u \notin readers /\ dlMutex # u
  BY <1>1 DEF LocksInv, AllEnds, At2
<1> QED
  BY <1>1, <1>3, <1>4, <1>5, OwnStep DEF RegTypes

\* The registry's invariant holds throughout: one case per action.
LEMMA RegInductive == RegSpec => []RegInv
<1>1. RegInit => RegInv
  <2> SUFFICES ASSUME RegInit PROVE RegInv
    OBVIOUS
  <2>1. NoUse \in UserSet /\ NoUse.pc = "done" /\ NoUse.all = "none"
    BY DEF NoUse, UserSet, EntrySet
  <2>2. \A u \in Users : user[u] = NoUse
    BY DEF RegInit
  <2>3. RegTypes
    BY <2>1 DEF RegInit, RegTypes, EntrySet
  <2>4. LocksInv
    BY <2>1, <2>2, NobodyAssumption DEF RegInit, LocksInv
  <2>5. EntryInv /\ SinceInv
    BY <2>1, <2>2 DEF EntryInv, SinceInv
  <2> QED
    BY <2>3, <2>4, <2>5 DEF RegInv
<1>2. RegInv /\ [RegNext]_regVars => RegInv'
  <2> SUFFICES ASSUME RegInv, [RegNext]_regVars PROVE RegInv'
    OBVIOUS
  <2>1. CASE UNCHANGED regVars
    BY <2>1 DEF regVars, RegInv, RegTypes, LocksInv, EntryInv, SinceInv, SinceOK
  <2> QED
    BY <2>1, LoadInv, UnloadInv, RefreshInv, FindInv, WriterInv, InsertInv,
       RefreshEndsInv, StartInv, ValidateInv, CopyInv, EachInv, PatchInv,
       AllEndsInv DEF RegNext
<1> QED
  BY <1>1, <1>2, PTL DEF RegSpec

\* Calls into the registry stop each other for good only through the inverted
\* order of the two locks (sharedlibs.cpp:47 and 73), for any number of threads
\* and libraries.
THEOREM RegistryStops == RegSpec => []StopsOnlyInverted
<1>1. RegInv => StopsOnlyInverted
  <2> SUFFICES ASSUME RegInv, InCall # {}, \A u \in InCall : ~CanStep(u)
               PROVE  \E r, q \in InCall : user[r].pc = "wrlock" /\ dlMutex = r
                                           /\ user[q].pc = "valid" /\ q \in readers
    BY DEF StopsOnlyInverted
  <2>1. RegTypes /\ LocksInv
    BY DEF RegInv
  <2>2. \A u \in Users : user[u].pc \in {"done", "next", "wrlock", "insert",
                                         "copy", "each", "valid", "patch"}
    BY <2>1 DEF RegTypes, UserSet
  <2>3. writer = Nobody
    BY <2>1 DEF RegTypes, LocksInv, CanStep, InCall
  <2>4. \A u \in InCall : user[u].pc \in {"wrlock", "valid"}
    BY <2>2, <2>3 DEF CanStep, InCall
  <2>5. PICK u \in InCall : TRUE
    OBVIOUS
  <2>6. \E r \in InCall : user[r].pc = "wrlock"
    <3>1. CASE user[u].pc = "wrlock"
      BY <3>1
    <3>2. CASE user[u].pc = "valid"
      <4>1. dlMutex # Nobody
        BY <3>2 DEF CanStep
      <4>2. dlMutex \in Users /\ user[dlMutex].pc \in {"next", "wrlock", "insert"}
        BY <2>1, <4>1 DEF RegTypes, LocksInv
      <4> QED
        BY <2>4, <4>2 DEF InCall
    <3> QED
      BY <2>4, <3>1, <3>2
  <2>7. PICK r \in InCall : user[r].pc = "wrlock"
    BY <2>6
  <2>8. dlMutex = r
    BY <2>1, <2>7 DEF LocksInv, InCall
  <2>9. readers # {}
    BY <2>3, <2>7 DEF CanStep
  <2>10. PICK q \in readers : TRUE
    BY <2>9
  <2>11. q \in InCall /\ user[q].pc = "valid"
    BY <2>1, <2>10 DEF RegTypes, LocksInv, InCall
  <2> QED
    BY <2>7, <2>8, <2>10, <2>11
<1> QED
  BY <1>1, RegInductive, PTL

\* An entry is of a library that was loaded; if that happened once, it has the
\* address at which the library is as long as it is there.
Fresh(e) ==
  e # NoEntry => /\ loads[e.lib] > 0
                 /\ loads[e.lib] = 1 /\ mapped[e.lib] # 0 => e.at = mapped[e.lib]

CacheInv ==
  /\ loads \in [Libs -> Nat]
  /\ \A l \in Libs : mapped[l] # 0 => loads[l] > 0
  /\ \A b \in {Base[l] : l \in Libs} :
        Fresh(cache[b]) /\ (cache[b] # NoEntry => Base[cache[b].lib] = b)
  /\ \A u \in Users : Fresh(user[u].entry) /\ \A l \in user[u].todo : loads[l] > 0

\* A step that leaves the libraries and the cache alone, and gives each thread
\* an entry it had or that is cached.
LEMMA CacheKept ==
  ASSUME CacheInv, RegTypes, UNCHANGED <<loads, mapped, cache>>,
         \A u \in Users :
           /\ \/ user'[u].entry \in {user[u].entry, NoEntry}
              \/ \E b \in {Base[l] : l \in Libs} : user'[u].entry = cache[b]
           /\ user'[u].todo \subseteq user[u].todo
  PROVE  CacheInv'
BY DEF CacheInv, Fresh

\* A library is loaded: the first time nothing refers to it, and after that its
\* entry need not be where the library is.
LEMMA LoadCache ==
  ASSUME RegInv, CacheInv, NEW l \in Libs, Load(l)
  PROVE  CacheInv'
<1>1. RegTypes
  BY DEF RegInv
<1>2. PICK a \in 1 .. 2 : mapped' = [mapped EXCEPT ![l] = a]
  BY DEF Load
<1>3. loads' = [loads EXCEPT ![l] = loads[l] + 1] /\ UNCHANGED <<cache, user>>
  BY DEF Load
<1>4. loads \in [Libs -> Nat] /\ loads[l] + 1 \in Nat
  BY DEF CacheInv
<1>5. /\ loads' \in [Libs -> Nat]
      /\ \A k \in Libs : loads'[k] = IF k = l THEN loads[l] + 1 ELSE loads[k]
  BY <1>3, <1>4
<1>6. \A k \in Libs : mapped'[k] = IF k = l THEN a ELSE mapped[k]
  BY <1>1, <1>2 DEF RegTypes
<1>7. ASSUME NEW e \in EntrySet, Fresh(e)
      PROVE  e # NoEntry => /\ loads'[e.lib] > 0
                            /\ loads'[e.lib] = 1 /\ mapped'[e.lib] # 0 => e.at = mapped'[e.lib]
  <2> SUFFICES ASSUME e # NoEntry
               PROVE  /\ loads'[e.lib] > 0
                      /\ loads'[e.lib] = 1 /\ mapped'[e.lib] # 0 => e.at = mapped'[e.lib]
    OBVIOUS
  <2>1. e.lib \in Libs
    BY DEF EntrySet
  <2>2. CASE e.lib = l
    BY <1>4, <1>5, <1>7, <2>1, <2>2 DEF Fresh
  <2>3. CASE e.lib # l
    BY <1>5, <1>6, <1>7, <2>1, <2>3 DEF Fresh
  <2> QED
    BY <2>2, <2>3
<1>8. \A k \in Libs : mapped'[k] # 0 => loads'[k] > 0
  BY <1>4, <1>5, <1>6 DEF CacheInv
<1>9. \A u \in Users : \A k \in user[u].todo : k \in Libs /\ loads'[k] > 0
  BY <1>1, <1>4, <1>5 DEF RegTypes, UserSet, CacheInv
<1>10. \A b \in {Base[k] : k \in Libs} : cache[b] \in EntrySet /\ Fresh(cache[b])
  BY <1>1 DEF RegTypes, CacheInv
<1>11. \A u \in Users : user[u].entry \in EntrySet /\ Fresh(user[u].entry)
  BY <1>1 DEF RegTypes, UserSet, CacheInv
<1>12. (\A b \in {Base[k] : k \in Libs} : Fresh(cache[b]))'
  BY <1>3, <1>7, <1>10 DEF Fresh
<1>13. (\A u \in Users : Fresh(user[u].entry))'
  BY <1>3, <1>7, <1>11 DEF Fresh
<1> QED
  BY <1>3, <1>5, <1>8, <1>9, <1>12, <1>13 DEF CacheInv

\* A library that is gone is not where its entries say, and need not be.
LEMMA UnloadCache ==
  ASSUME RegInv, CacheInv, NEW l \in Libs, Unload(l)
  PROVE  CacheInv'
<1>1. RegTypes
  BY DEF RegInv
<1>2. /\ mapped' = [mapped EXCEPT ![l] = 0] /\ UNCHANGED <<loads, cache>>
      /\ user' = [u \in Users |-> [user[u] EXCEPT !.since = @ \ {l}]]
  BY DEF Unload
<1>3. \A u \in Users : user'[u].entry = user[u].entry /\ user'[u].todo = user[u].todo
  BY <1>1, <1>2 DEF RegTypes, UserSet
<1>4. \A k \in Libs : mapped'[k] = IF k = l THEN 0 ELSE mapped[k]
  BY <1>1, <1>2 DEF RegTypes
<1>5. ASSUME NEW e \in EntrySet, Fresh(e)
      PROVE  e # NoEntry => /\ loads'[e.lib] > 0
                            /\ loads'[e.lib] = 1 /\ mapped'[e.lib] # 0 => e.at = mapped'[e.lib]
  BY <1>2, <1>4, <1>5 DEF Fresh, EntrySet
<1>6. \A b \in {Base[k] : k \in Libs} : cache[b] \in EntrySet /\ Fresh(cache[b])
  BY <1>1 DEF RegTypes, CacheInv
<1>7. \A u \in Users : user[u].entry \in EntrySet /\ Fresh(user[u].entry)
  BY <1>1 DEF RegTypes, UserSet, CacheInv
<1>8. (\A b \in {Base[k] : k \in Libs} : Fresh(cache[b]))'
  BY <1>2, <1>5, <1>6 DEF Fresh
<1>9. (\A u \in Users : Fresh(user[u].entry))'
  BY <1>3, <1>5, <1>7 DEF Fresh
<1> QED
  BY <1>2, <1>3, <1>4, <1>8, <1>9 DEF CacheInv

\* A refresh looks at what is mapped, and makes its entries from that.
LEMMA RefreshCache ==
  ASSUME RegInv, CacheInv, NEW u \in Users,
         \/ \E all \in {"none", "hook"} : Refresh(u, all)
         \/ FindOrParse(u)
  PROVE  CacheInv'
<1>1. RegTypes
  BY DEF RegInv
<1>2. UNCHANGED <<loads, mapped, cache>>
  BY DEF Refresh, FindOrParse, World
<1>3. Fresh(user'[u].entry) /\ \A l \in user'[u].todo : loads[l] > 0
  <2>1. ASSUME NEW all \in {"none", "hook"}, Refresh(u, all)
        PROVE  Fresh(user'[u].entry) /\ \A l \in user'[u].todo : loads[l] > 0
    <3>1. user'[u].entry = NoEntry /\ user'[u].todo = {l \in Libs : mapped[l] # 0}
      BY <1>1, <2>1 DEF Refresh, Becomes2, NoUse, RegTypes
    <3> QED
      BY <3>1 DEF CacheInv, Fresh
  <2>2. CASE FindOrParse(u)
    <3>1. PICK x : x = user[u] /\ x \in UserSet
      BY <1>1 DEF RegTypes
    <3>2. PICK l \in x.todo :
            LET rest == [x EXCEPT !.todo = @ \ {l}]
            IN  IF cache[Base[l]] # NoEntry THEN Becomes2(u, rest)
                ELSE \/ Becomes2(u, [rest EXCEPT !.since = @ \ {l}])
                     \/ Becomes2(u, [rest EXCEPT !.pc = "wrlock",
                                       !.entry = [lib |-> l, at |-> mapped[l]]])
      BY <2>2, <3>1 DEF FindOrParse
    <3>3. PICK e : e = [lib |-> l, at |-> mapped[l]]
      OBVIOUS
    <3>4. user'[u].entry \in {x.entry, e} /\ user'[u].todo = x.todo \ {l}
      <4>1. PICK rest : rest = [x EXCEPT !.todo = @ \ {l}]
        OBVIOUS
      <4>2. rest.todo = x.todo \ {l} /\ rest.entry = x.entry /\ rest \in UserSet
        BY <3>1, <4>1 DEF UserSet
      <4>3. PICK r1, r2 : /\ r1 = [rest EXCEPT !.since = @ \ {l}]
                          /\ r2 = [rest EXCEPT !.pc = "wrlock", !.entry = e]
        OBVIOUS
      <4>4. /\ r1.todo = x.todo \ {l} /\ r1.entry = x.entry
            /\ r2.todo = x.todo \ {l} /\ r2.entry = e
        BY <4>2, <4>3 DEF UserSet
      <4>5. user' \in {[user EXCEPT ![u] = rest], [user EXCEPT ![u] = r1], [user EXCEPT ![u] = r2]}
        BY <3>2, <3>3, <4>1, <4>3 DEF Becomes2
      <4>6. user'[u] \in {rest, r1, r2}
        BY <1>1, <4>5 DEF RegTypes
      <4> QED
        BY <4>2, <4>4, <4>6
    <3>5. Fresh(e) /\ Fresh(x.entry) /\ \A k \in x.todo : loads[k] > 0
      BY <3>1, <3>2, <3>3 DEF CacheInv, Fresh
    <3> QED
      BY <3>4, <3>5
  <2> QED
    BY <2>1, <2>2
<1>4. \A v \in Users : v # u => user'[v] = user[v]
  BY <1>1 DEF RegTypes, Refresh, FindOrParse, Becomes2
<1>5. \A v \in Users : Fresh(user'[v].entry) /\ \A l \in user'[v].todo : loads[l] > 0
  BY <1>3, <1>4 DEF CacheInv
<1> QED
  BY <1>2, <1>5 DEF CacheInv, Fresh

\* What is inserted goes under its own base name.
LEMMA InsertCache ==
  ASSUME RegInv, CacheInv, NEW u \in Users, Insert(u)
  PROVE  CacheInv'
<1>1. RegTypes /\ EntryInv
  BY DEF RegInv
<1>2. PICK x, e, r : x = user[u] /\ e = x.entry
                     /\ r = [x EXCEPT !.pc = "next", !.entry = NoEntry]
  OBVIOUS
<1>3. /\ user' = [user EXCEPT ![u] = r] /\ UNCHANGED <<loads, mapped>>
      /\ cache' = IF cache[Base[e.lib]] = NoEntry
                  THEN [cache EXCEPT ![Base[e.lib]] = e] ELSE cache
      /\ e # NoEntry /\ e \in EntrySet /\ e.lib \in Libs /\ x \in UserSet
  BY <1>1, <1>2 DEF Insert, Becomes2, World, At2, EntryInv, RegTypes, UserSet, EntrySet
<1>4. r.entry = NoEntry /\ r.todo = x.todo
  BY <1>2, <1>3 DEF UserSet
<1>5. \A b \in {Base[k] : k \in Libs} : cache'[b] = cache[b] \/ (cache'[b] = e /\ b = Base[e.lib])
  BY <1>1, <1>3 DEF RegTypes
<1>6. Fresh(e)
  BY <1>2 DEF CacheInv
<1>7. \A v \in Users : user'[v] = IF v = u THEN r ELSE user[v]
  BY <1>1, <1>3 DEF RegTypes
<1>8. \A v \in Users : /\ user'[v].entry \in {user[v].entry, NoEntry}
                       /\ user'[v].todo = user[v].todo
  BY <1>2, <1>4, <1>7
<1>9. \A b \in {Base[k] : k \in Libs} :
        Fresh(cache'[b]) /\ (cache'[b] # NoEntry => Base[cache'[b].lib] = b)
  BY <1>5, <1>6 DEF CacheInv
<1>10. \A v \in Users : Fresh(user'[v].entry)
  BY <1>8 DEF CacheInv, Fresh
<1> QED
  BY <1>3, <1>8, <1>9, <1>10 DEF CacheInv, Fresh

\* The other steps give a thread no entry but one that is cached.
LEMMA OtherCache ==
  ASSUME RegInv, CacheInv, NEW u \in Users,
         \/ WriterLock(u) \/ RefreshEnds(u) \/ ReaderLock(u) \/ Validate(u)
         \/ UnhookAll(u) \/ allSharedLibs(u) \/ EachLib(u) \/ PatchLib(u) \/ AllEnds(u)
  PROVE  CacheInv'
<1>1. RegTypes
  BY DEF RegInv
<1>2. UNCHANGED <<loads, mapped, cache>>
  BY DEF WriterLock, RefreshEnds, ReaderLock, Validate, UnhookAll, allSharedLibs,
         EachLib, PatchLib, AllEnds, World
<1>3. PICK x : x = user[u] /\ x \in UserSet
  BY <1>1 DEF RegTypes
<1>4. DOMAIN cache = {Base[l] : l \in Libs}
  BY <1>1 DEF RegTypes
<1>5. CASE ~PatchLib(u)
  <2> DEFINE y == user'[u]
             Known == \/ y.entry \in {x.entry, NoEntry}
                      \/ \E b \in {Base[l] : l \in Libs} : y.entry = cache[b]
  <2>1. NoUse.entry = NoEntry /\ NoUse.todo = {}
    BY DEF NoUse
  <2>2. (\A v \in Users : v # u => user'[v] = user[v]) /\ Known /\ y.todo \subseteq x.todo
    <3>2. CASE WriterLock(u)
      BY <1>1, <1>3, <3>2 DEF WriterLock, Becomes2, UserSet, RegTypes
    <3>3. CASE RefreshEnds(u)
      BY <1>1, <1>3, <2>1, <3>3 DEF RefreshEnds, Becomes2, UserSet, RegTypes
    <3>4. CASE ReaderLock(u)
      BY <1>1, <1>3, <1>4, <3>4 DEF ReaderLock, Becomes2, NoUse, RegTypes
    <3>5. CASE Validate(u)
      BY <1>1, <1>3, <2>1, <3>5 DEF Validate, Becomes2, AfterLookup, UserSet, RegTypes
    <3>6. CASE UnhookAll(u)
      BY <1>1, <1>3, <3>6 DEF UnhookAll, Becomes2, NoUse, RegTypes
    <3>7. CASE allSharedLibs(u)
      BY <1>1, <1>3, <3>7 DEF allSharedLibs, Becomes2, UserSet, RegTypes
    <3>8. CASE EachLib(u)
      <4>1. PICK b \in x.left :
              LET rest == [x EXCEPT !.left = @ \ {b}]
              IN  \/ Becomes2(u, [rest EXCEPT !.since = {l \in @ : Base[l] # b}])
                  \/ Becomes2(u, [rest EXCEPT !.pc = "valid", !.entry = cache[b]])
        BY <1>3, <3>8 DEF EachLib
      <4>2. PICK rest : rest = [x EXCEPT !.left = @ \ {b}]
        OBVIOUS
      <4>3. rest.todo = x.todo /\ rest.entry = x.entry /\ rest \in UserSet
        BY <1>3, <4>2 DEF UserSet
      <4>4. PICK r1, r2 : /\ r1 = [rest EXCEPT !.since = {l \in @ : Base[l] # b}]
                          /\ r2 = [rest EXCEPT !.pc = "valid", !.entry = cache[b]]
        OBVIOUS
      <4>5. r1.todo = x.todo /\ r1.entry = x.entry /\ r2.todo = x.todo /\ r2.entry = cache[b]
        BY <4>3, <4>4 DEF UserSet
      <4>6. user' = [user EXCEPT ![u] = r1] \/ user' = [user EXCEPT ![u] = r2]
        BY <4>1, <4>2, <4>4 DEF Becomes2
      <4>7. (user'[u] = r1 \/ user'[u] = r2) /\ \A v \in Users : v # u => user'[v] = user[v]
        BY <1>1, <4>6 DEF RegTypes
      <4>8. b \in {Base[l] : l \in Libs}
        BY <1>3, <4>1 DEF UserSet
      <4> QED
        BY <4>5, <4>7, <4>8
    <3>9. CASE AllEnds(u)
      BY <1>1, <1>3, <2>1, <3>9 DEF AllEnds, Becomes2, RegTypes
    <3> QED
      BY <1>5, <3>2, <3>3, <3>4, <3>5, <3>6, <3>7, <3>8, <3>9
  <2>3. \A v \in Users :
          /\ \/ user'[v].entry \in {user[v].entry, NoEntry}
             \/ \E b \in {Base[l] : l \in Libs} : user'[v].entry = cache[b]
          /\ user'[v].todo \subseteq user[v].todo
    BY <1>3, <2>2
  <2> QED
    BY <1>1, <1>2, <2>3, CacheKept
<1>6. CASE PatchLib(u)
  <2>1. \A v \in Users : user'[v].entry \in {user[v].entry, NoEntry} /\ user'[v].todo = user[v].todo
    <3>1. PICK hooks, l : user' = [v \in Users |->
             IF v = u THEN [user[u] EXCEPT !.pc = "each", !.entry = NoEntry]
             ELSE [user[v] EXCEPT !.since = IF hooks THEN @ ELSE @ \ {l}]]
      BY <1>6 DEF PatchLib
    <3> QED
      BY <1>1, <3>1 DEF RegTypes, UserSet
  <2> QED
    BY <1>1, <1>2, <2>1, CacheKept
<1> QED
  BY <1>5, <1>6

\* hook_all_libs (linker.cpp:341-359) leaves out no library that was there all
\* along, can be parsed and is wanted, was loaded once and shares its base name
\* with no other, for any number of threads and libraries.
THEOREM RegistryHooks == RegSpec => []HooksAllLibs
<1>1. RegInit => CacheInv
  BY DEF RegInit, CacheInv, Fresh, NoUse
<1>2. RegInv /\ CacheInv /\ [RegNext]_regVars => CacheInv'
  <2> SUFFICES ASSUME RegInv, CacheInv, [RegNext]_regVars PROVE CacheInv'
    OBVIOUS
  <2>1. CASE UNCHANGED regVars
    BY <2>1 DEF regVars, CacheInv, Fresh
  <2> QED
    BY <2>1, LoadCache, UnloadCache, RefreshCache, InsertCache, OtherCache DEF RegNext
<1>3. RegInv /\ CacheInv => HooksAllLibs
  <2> SUFFICES ASSUME RegInv, CacheInv, NEW u \in Users, At2(u, "each"), user[u].left = {},
                      user[u].all = "hook", NEW l \in user[u].since,
                      loads[l] = 1, \A k \in Libs \ {l} : Base[k] # Base[l],
                      l \notin hooked
               PROVE  FALSE
    BY DEF HooksAllLibs
  <2>1. RegTypes /\ SinceInv
    BY DEF RegInv
  <2>2. PICK x, e : x = user[u] /\ e = cache[Base[l]]
    OBVIOUS
  <2>3. x \in UserSet /\ l \in Libs /\ SinceOK(x, l) /\ x.pc = "each" /\ x.left = {}
    BY <2>1, <2>2 DEF RegTypes, UserSet, SinceInv, At2
  <2>4. mapped[l] # 0 /\ e # NoEntry /\ e # [lib |-> l, at |-> mapped[l]]
    BY <2>2, <2>3 DEF SinceOK
  <2>5. e \in EntrySet /\ Fresh(e) /\ Base[e.lib] = Base[l]
    BY <2>1, <2>2, <2>3, <2>4 DEF RegTypes, CacheInv
  <2>6. e.lib = l /\ e.at = mapped[l]
    BY <2>4, <2>5 DEF Fresh, EntrySet
  <2> QED
    BY <2>4, <2>5, <2>6 DEF EntrySet
<1> QED
  BY <1>1, <1>2, <1>3, RegInductive, PTL DEF RegSpec

-----------------------------------------------------------------------------
(* HookClients: the operators of the linker library. *)

\* linker_initialize keeps the run list.
LEMMA InitialisedOK ==
  ASSUME NEW c \in Clients, NEW lk, LinkOK(lk, c)
  PROVE  LinkOK(linker_initialize(lk), c)
<1>1. PICK r : r = [lk EXCEPT !.ready = TRUE]
  OBVIOUS
<1>2. r \in LinkerSet(c) /\ r.list = lk.list /\ r.patched = lk.patched
  BY <1>1 DEF LinkOK, LinkerSet
<1>3. LinkOK(r, c)
  BY <1>2 DEF LinkOK
<1> QED
  BY <1>1, <1>3 DEF linker_initialize

\* Appending the hook keeps the original at the bottom.
LEMMA AppendShape ==
  ASSUME NEW hook, NEW list, ListShape(list, hook)
  PROVE  /\ ListShape(IF list = <<>> THEN <<"original", hook>> ELSE Append(list, hook), hook)
         /\ (IF list = <<>> THEN <<"original", hook>> ELSE Append(list, hook)) # <<>>
<1>1. CASE list = <<>>
  BY <1>1 DEF ListShape
<1>2. CASE list # <<>>
  <2>1. PICK l2 : l2 = Append(list, hook)
    OBVIOUS
  <2>2. list \in Seq({"original", hook}) /\ Len(list) \in Nat /\ Len(list) >= 1
    BY <1>2 DEF ListShape
  <2>3. /\ l2 \in Seq({"original", hook}) /\ Len(l2) = Len(list) + 1
        /\ \A i \in 1 .. Len(list) : l2[i] = list[i]
        /\ l2[Len(list) + 1] = hook
    BY <2>1, <2>2
  <2>4. \A i \in 1 .. Len(l2) : l2[i] = IF i = 1 THEN "original" ELSE hook
    BY <2>2, <2>3 DEF ListShape
  <2>5. ListShape(l2, hook) /\ l2 # <<>>
    BY <2>2, <2>3, <2>4 DEF ListShape
  <2> QED
    BY <1>2, <2>1, <2>5
<1> QED
  BY <1>1, <1>2

\* hooks::add.
LEMMA AddOK ==
  ASSUME NEW c \in Clients, NEW lk, LinkOK(lk, c)
  PROVE  LinkOK(add(lk, HookOf(c)), c) /\ add(lk, HookOf(c)).list # <<>>
<1>1. PICK l2 : l2 = IF lk.list = <<>> THEN <<"original", HookOf(c)>>
                     ELSE Append(lk.list, HookOf(c))
  OBVIOUS
<1>2. ListShape(l2, HookOf(c)) /\ l2 # <<>>
  BY <1>1, AppendShape DEF LinkOK
<1>3. PICK r : r = [lk EXCEPT !.list = l2]
  OBVIOUS
<1>4. l2 \in Seq({"original", HookOf(c)})
  BY <1>2 DEF ListShape
<1>5. r \in LinkerSet(c) /\ r.list = l2
  BY <1>3, <1>4 DEF LinkOK, LinkerSet
<1>6. LinkOK(r, c)
  BY <1>2, <1>5 DEF LinkOK
<1>7. add(lk, HookOf(c)) = r
  BY <1>1, <1>3 DEF add
<1> QED
  BY <1>2, <1>5, <1>6, <1>7

\* hook_plt_method.
LEMMA HookedOK ==
  ASSUME NEW c \in Clients, NEW lk, LinkOK(lk, c), NEW patches \in BOOLEAN
  PROVE  LinkOK(hook_plt_method(lk, HookOf(c), patches), c)
<1>1. PICK a : a = add(lk, HookOf(c))
  OBVIOUS
<1>2. LinkOK(a, c) /\ a.list # <<>>
  BY <1>1, AddOK
<1>3. PICK t : t = create_trampoline(a)
  OBVIOUS
<1>4. t \in LinkerSet(c) /\ t.list = a.list
  <2>1. a \in LinkerSet(c) /\ BlockSize \in Int
    BY <1>2, BlockAssumption DEF LinkOK
  <2>2. CASE a.room = 0
    <3>1. PICK n \in Int, k \in Nat : n = BlockSize - 1 /\ k = a.blocks + 1
      BY <2>1 DEF LinkerSet
    <3>2. t = [a EXCEPT !.room = n, !.blocks = k]
      BY <1>3, <2>2, <3>1 DEF create_trampoline
    <3> QED
      BY <2>1, <3>2 DEF LinkerSet
  <2>3. CASE a.room # 0
    <3>1. t = [a EXCEPT !.room = @ - 1]
      BY <1>3, <2>3 DEF create_trampoline
    <3> QED
      BY <2>1, <3>1 DEF LinkerSet
  <2> QED
    BY <2>2, <2>3
<1>5. PICK p : p = [t EXCEPT !.patched = patches]
  OBVIOUS
<1>6. p \in LinkerSet(c) /\ p.list = a.list
  BY <1>4, <1>5 DEF LinkerSet
<1>7. LinkOK(p, c)
  BY <1>2, <1>6 DEF LinkOK
<1> QED
  BY <1>1, <1>2, <1>3, <1>5, <1>7 DEF hook_plt_method

\* CALL_PREV from any of the hooks leads to the original.
LEMMA PreviousIsOriginal ==
  ASSUME NEW hook, hook # "original", NEW list, ListShape(list, hook),
         Len(list) >= 2
  PROVE  get_previous_from_hook(list, hook) = 1
<1>1. PICK I : I = {i \in 1 .. Len(list) : list[i] = hook}
  OBVIOUS
<1>2. I = 2 .. Len(list)
  BY <1>1 DEF ListShape
<1>3. 2 \in I /\ \A y \in I : 2 <= y
  BY <1>2 DEF ListShape
<1>4. Min(I) \in I /\ \A y \in I : Min(I) <= y
  BY <1>3 DEF Min
<1>5. Min(I) = 2
  BY <1>2, <1>3, <1>4
<1>6. SelectInSeq(list, LAMBDA h : h = hook) = Min(I)
  BY <1>1, <1>3 DEF SelectInSeq
<1> QED
  BY <1>5, <1>6 DEF get_previous_from_hook

-----------------------------------------------------------------------------
(* HookClients: the steps. *)

\* A step of one thread that is no part of an enable and leaves the tags alone.
LEMMA ClientStep ==
  ASSUME ClientsInv, NEW w \in Workers, NEW r \in WorkSet,
         work' = [work EXCEPT ![w] = r], LinkerInv', CallOK(r), FinishedOK',
         UNCHANGED <<tags, original>>, atrace'.first = atrace.first,
         atrace' \in [first : BOOLEAN, installed : BOOLEAN, threads : BOOLEAN],
         work[w].op # "enable", r.op # "enable",
         r.op = "restore" /\ r.clean => r.seen # All
  PROVE  ClientsInv'
<1>1. WorkInv /\ TagsInv /\ \A v \in Workers : CallOK(work[v])
  BY DEF ClientsInv
<1>2. \A v \in Workers : work'[v] = IF v = w THEN r ELSE work[v]
  BY <1>1 DEF WorkInv
<1>3. WorkInv'
  BY <1>1 DEF WorkInv
<1>4. (\A v \in Workers : CallOK(work[v]))'
  BY <1>1, <1>2
<1>5. TagsInv'
  <2>1. \A v \in Workers : v # w => work'[v] = work[v]
    BY <1>2
  <2>2. \A v \in Workers : Keeps(work[v]) => Keeps(work'[v])
    BY <2>1 DEF Keeps
  <2>3. \A v \in Workers : work[v].op = "enable" => work'[v] = work[v]
    BY <2>1
  <2> QED
    BY <1>1, <1>2, <2>2, <2>3 DEF TagsInv
<1> QED
  BY <1>3, <1>4, <1>5 DEF ClientsInv

\* The record of a thread that is not in a call.
LEMMA IdleOK == Idle2 \in WorkSet /\ Idle2.op = "none" /\ CallOK(Idle2)
<1>1. Idle2 \in WorkSet /\ Idle2.op = "none"
  BY DEF Idle2, WorkSet, Ops, Places, Descriptors, HookNames
<1> QED
  BY <1>1 DEF CallOK

\* installSystraceHook.
LEMMA InstallInv ==
  ASSUME ClientsInv, NEW w \in Workers,
         Install(w) \/ hookLoadedLibs(w) \/ Installed(w)
  PROVE  ClientsInv'
<1>1. LinkerInv /\ WorkInv /\ FinishedOK /\ \A v \in Workers : CallOK(work[v])
  BY DEF ClientsInv
<1>2. "atrace" \in Clients /\ HookOf("atrace") = "write_hook"
  BY DEF Clients, HookOf
<1>3. LinkOK(linker["atrace"], "atrace")
  BY <1>1, <1>2 DEF LinkerInv
<1>4. ASSUME NEW lk, LinkOK(lk, "atrace"), linker' = [linker EXCEPT !["atrace"] = lk]
      PROVE  LinkerInv'
  <2>1. lk \in UNION {LinkerSet(c) : c \in Clients}
    BY <1>2, <1>4 DEF LinkOK
  <2> QED
    BY <1>1, <1>2, <1>4, <2>1 DEF LinkerInv
<1>5. LinkerInv'
  <2>1. CASE linker' = linker
    BY <1>1, <2>1 DEF LinkerInv
  <2>2. CASE linker' = [linker EXCEPT !["atrace"] = linker_initialize(@)]
    <3>1. LinkOK(linker_initialize(linker["atrace"]), "atrace")
      BY <1>2, <1>3, InitialisedOK
    <3> QED
      BY <1>4, <2>2, <3>1
  <2>3. CASE hookLoadedLibs(w)
    <3>1. PICK patches \in BOOLEAN :
            linker' = [linker EXCEPT !["atrace"] = hook_plt_method(@, "write_hook", patches)]
      BY <2>3 DEF hookLoadedLibs
    <3>2. LinkOK(hook_plt_method(linker["atrace"], HookOf("atrace"), patches), "atrace")
      BY <1>2, <1>3, HookedOK
    <3> QED
      BY <1>2, <1>4, <3>1, <3>2
  <2> QED
    BY <2>1, <2>2, <2>3 DEF Install, Installed
<1>6. FinishedOK' /\ UNCHANGED <<tags, original>>
  BY <1>1 DEF Install, hookLoadedLibs, Installed, FinishedOK
<1>7. PICK x : x = work[w] /\ x \in WorkSet
  BY <1>1 DEF WorkInv
<1>8. /\ atrace'.first = atrace.first
      /\ atrace' \in [first : BOOLEAN, installed : BOOLEAN, threads : BOOLEAN]
  BY <1>1 DEF Install, hookLoadedLibs, Installed, WorkInv
<1>9. ASSUME NEW r \in WorkSet, r.op \in {"none", "install"}, x.op \in {"none", "install"},
             work' = [work EXCEPT ![w] = r]
      PROVE  ClientsInv'
  <2>1. CallOK(r)
    BY <1>9 DEF CallOK
  <2> QED
    BY <1>5, <1>6, <1>7, <1>8, <1>9, <2>1, ClientStep
<1>10. CASE Install(w)
  <2>1. x.op = "none"
    BY <1>7, <1>10 DEF Install, Begin
  <2>2. CASE work' = work
    BY <1>1, <1>7, <1>9, <2>1, <2>2 DEF WorkInv
  <2>3. CASE Becomes(w, [Idle2 EXCEPT !.op = "install", !.pc = "hook"])
    <3>1. PICK r : r = [Idle2 EXCEPT !.op = "install", !.pc = "hook"]
      OBVIOUS
    <3>2. r \in WorkSet /\ r.op = "install"
      BY <3>1, IdleOK DEF WorkSet, Ops, Places
    <3> QED
      BY <1>9, <2>1, <2>3, <3>1, <3>2 DEF Becomes
  <2> QED
    BY <1>10, <2>2, <2>3 DEF Install
<1>11. CASE hookLoadedLibs(w)
  <2>1. PICK r : r = [x EXCEPT !.pc = "installed"]
    OBVIOUS
  <2>2. /\ x.op = "install" /\ work' = [work EXCEPT ![w] = r]
    BY <1>7, <1>11, <2>1 DEF hookLoadedLibs, In, Becomes
  <2>3. r \in WorkSet /\ r.op = "install"
    BY <1>7, <2>1, <2>2 DEF WorkSet, Ops, Places
  <2> QED
    BY <1>9, <2>2, <2>3
<1>12. CASE Installed(w)
  <2>1. x.op = "install" /\ work' = [work EXCEPT ![w] = Idle2]
    BY <1>7, <1>12 DEF Installed, In, Returns, Becomes
  <2> QED
    BY <1>9, <2>1, IdleOK
<1> QED
  BY <1>10, <1>11, <1>12

\* enableSystrace begins: an enable that has yet to exchange the tags.
LEMMA EnableInv ==
  ASSUME ClientsInv, NEW w \in Workers, Enable(w)
  PROVE  ClientsInv'
<1>1. LinkerInv /\ WorkInv /\ FinishedOK /\ TagsInv
      /\ \A v \in Workers : CallOK(work[v])
  BY DEF ClientsInv
<1>2. PICK r : r = [Idle2 EXCEPT !.op = "enable", !.pc = "exchange"]
  OBVIOUS
<1>3. r \in WorkSet /\ r.op = "enable" /\ r.pc = "exchange"
  BY <1>2, IdleOK DEF WorkSet, Ops, Places
<1>4. /\ work' = [v \in Workers |-> IF v = w THEN r ELSE [work[v] EXCEPT !.clean = FALSE]]
      /\ work[w].op = "none"
      /\ atrace' = [atrace EXCEPT !.first = FALSE]
      /\ UNCHANGED <<tags, original, finished>>
  BY <1>2 DEF Enable, Begin
<1>5. ASSUME NEW v \in Workers, v # w
      PROVE  /\ work'[v] \in WorkSet /\ work'[v].op = work[v].op
             /\ work'[v].pc = work[v].pc /\ work'[v].seen = work[v].seen
             /\ work'[v].list = work[v].list /\ work'[v].i = work[v].i
             /\ work'[v].fd = work[v].fd /\ work'[v].kernel = work[v].kernel
             /\ work'[v].logged = work[v].logged /\ ~work'[v].clean
  <2>1. PICK x : x = work[v] /\ x \in WorkSet
    BY <1>1 DEF WorkInv
  <2>2. work'[v] = [x EXCEPT !.clean = FALSE]
    BY <1>4, <1>5, <2>1
  <2> QED
    BY <2>1, <2>2 DEF WorkSet
<1>6. work'[w] = r
  BY <1>4
<1>7. LinkerInv'
  <2>1. CASE linker' = linker
    BY <1>1, <2>1 DEF LinkerInv
  <2>2. CASE linker' = [linker EXCEPT !["atrace"] = hook_plt_method(@, "write_hook", TRUE)]
    <3>1. "atrace" \in Clients /\ HookOf("atrace") = "write_hook"
      BY DEF Clients, HookOf
    <3>2. PICK lk : lk = hook_plt_method(linker["atrace"], "write_hook", TRUE)
      OBVIOUS
    <3>3. LinkOK(linker["atrace"], "atrace") /\ TRUE \in BOOLEAN
      BY <1>1, <3>1 DEF LinkerInv
    <3>4. LinkOK(lk, "atrace")
      BY <3>1, <3>2, <3>3, HookedOK
    <3>5. lk \in UNION {LinkerSet(c) : c \in Clients}
      BY <3>1, <3>4 DEF LinkOK
    <3>6. linker' = [linker EXCEPT !["atrace"] = lk]
      BY <2>2, <3>2
    <3> QED
      BY <1>1, <3>1, <3>4, <3>5, <3>6 DEF LinkerInv
  <2> QED
    BY <2>1, <2>2 DEF Enable
<1>8. WorkInv'
  BY <1>1, <1>3, <1>4, <1>5, <1>6 DEF WorkInv
<1>9. ASSUME NEW v \in Workers PROVE CallOK(work'[v])
  BY <1>1, <1>3, <1>5, <1>6 DEF CallOK
<1>10. FinishedOK'
  BY <1>1, <1>4 DEF FinishedOK
<1>11. TagsInv'
  <2>1. \A v \in Workers : Keeps(work[v]) => v # w /\ Keeps(work'[v])
    BY <1>4, <1>5 DEF Keeps
  <2> QED
    BY <1>1, <1>3, <1>4, <1>5, <1>6, <2>1 DEF TagsInv
<1> QED
  BY <1>7, <1>8, <1>9, <1>10, <1>11 DEF ClientsInv

\* What a step of enableSystrace or restoreSystrace, or of the system, leaves
\* to show: the tags.
LEMMA TagsStep ==
  ASSUME ClientsInv, work' \in [Workers -> WorkSet],
         \A v \in Workers : work'[v] = work[v] \/ work'[v].op # "call",
         tags' \in TagValues \cup {All}, original' \in TagValues \cup {All},
         UNCHANGED <<linker, atrace, finished>>, TagsInv'
  PROVE  ClientsInv'
<1>1. LinkerInv' /\ WorkInv' /\ FinishedOK'
  BY DEF ClientsInv, LinkerInv, WorkInv, FinishedOK
<1>2. ASSUME NEW v \in Workers PROVE CallOK(work'[v])
  BY DEF ClientsInv, CallOK
<1> QED
  BY <1>1, <1>2 DEF ClientsInv

\* The exchange takes the tags over.
LEMMA ExchangeInv ==
  ASSUME ClientsInv, NEW w \in Workers, Exchange(w)
  PROVE  ClientsInv'
<1>1. WorkInv /\ TagsInv
  BY DEF ClientsInv
<1>2. PICK x : x = work[w] /\ x \in WorkSet
  BY <1>1 DEF WorkInv
<1>3. PICK r : r = [x EXCEPT !.pc = "keep", !.seen = tags]
  OBVIOUS
<1>4. /\ x.op = "enable" /\ x.pc = "exchange" /\ tags' = All
      /\ work' = [work EXCEPT ![w] = r]
      /\ UNCHANGED <<linker, original, atrace, finished>>
  BY <1>2, <1>3 DEF Exchange, In, Becomes
<1>5. r \in WorkSet /\ r.op = "enable" /\ r.pc = "keep" /\ r.seen = tags
  BY <1>1, <1>2, <1>3, <1>4 DEF WorkSet, Places, WorkInv
<1>6. \A v \in Workers : work'[v] = IF v = w THEN r ELSE work[v]
  BY <1>1, <1>4 DEF WorkInv
<1>7. \A v \in Workers : Keeps(work[v]) => Keeps(work'[v])
  BY <1>2, <1>4, <1>6 DEF Keeps
<1>8. tags # All => Keeps(work'[w])
  BY <1>5, <1>6 DEF Keeps
<1>9. original # All \/ \E v \in Workers : Keeps(work'[v])
  BY <1>1, <1>7, <1>8 DEF TagsInv
<1>10. TagsInv'
  BY <1>1, <1>4, <1>5, <1>6, <1>9 DEF TagsInv
<1>11. work' \in [Workers -> WorkSet]
  BY <1>1, <1>4, <1>5 DEF WorkInv
<1> QED
  BY <1>1, <1>4, <1>5, <1>6, <1>10, <1>11, TagsStep DEF WorkInv

\* Only the system's tags are kept.
LEMMA KeepInv ==
  ASSUME ClientsInv, NEW w \in Workers, Keep(w)
  PROVE  ClientsInv'
<1>1. WorkInv /\ TagsInv
  BY DEF ClientsInv
<1>2. PICK x : x = work[w] /\ x \in WorkSet
  BY <1>1 DEF WorkInv
<1>3. /\ x.op = "enable" /\ x.pc = "keep"
      /\ original' = IF x.seen # All THEN x.seen ELSE original
      /\ work' = [work EXCEPT ![w] = Idle2]
      /\ UNCHANGED <<linker, tags, atrace, finished>>
  BY <1>2 DEF Keep, In, Returns, Becomes
<1>4. \A v \in Workers : work'[v] = IF v = w THEN Idle2 ELSE work[v]
  BY <1>1, <1>3 DEF WorkInv
<1>5. TagsInv'
  <2>1. CASE x.seen # All
    <3>1. original' # All
      BY <1>3, <2>1
    <3> QED
      BY <1>1, <1>3, <1>4, <3>1, IdleOK DEF TagsInv
  <2>2. CASE x.seen = All
    <3>1. \A v \in Workers : Keeps(work[v]) => Keeps(work'[v])
      BY <1>2, <1>4, <2>2 DEF Keeps
    <3>2. \A v \in Workers : work[v].op = "enable" /\ work[v].pc = "exchange" =>
            work'[v] = work[v]
      BY <1>2, <1>3, <1>4
    <3> QED
      BY <1>1, <1>3, <1>4, <2>2, <3>1, <3>2, IdleOK DEF TagsInv
  <2> QED
    BY <2>1, <2>2
<1>6. work' \in [Workers -> WorkSet] /\ original' \in TagValues \cup {All}
  BY <1>1, <1>2, <1>3, IdleOK DEF WorkInv, WorkSet
<1> QED
  BY <1>1, <1>3, <1>4, <1>5, <1>6, IdleOK, TagsStep DEF WorkInv

\* restoreSystrace begins: a restore that follows an enable and overlaps none
\* has the system's tags.
LEMMA RestoreInv ==
  ASSUME ClientsInv, NEW w \in Workers, Restore(w)
  PROVE  ClientsInv'
<1>1. WorkInv /\ TagsInv /\ LinkerInv /\ FinishedOK
  BY DEF ClientsInv
<1>2. PICK c \in BOOLEAN : c = (~atrace.first /\ \A v \in Workers : work[v].op # "enable")
  OBVIOUS
<1>3. PICK r : r = [Idle2 EXCEPT !.op = "restore", !.pc = "store", !.seen = original,
                                 !.clean = c]
  OBVIOUS
<1>4. /\ work[w].op = "none" /\ work' = [work EXCEPT ![w] = r]
      /\ UNCHANGED <<linker, tags, original, atrace, finished>>
  BY <1>2, <1>3 DEF Restore, Begin, Becomes
<1>5. r \in WorkSet /\ r.op = "restore" /\ r.seen = original /\ r.clean = c
  BY <1>1, <1>3, IdleOK DEF WorkSet, Ops, Places, WorkInv
<1>6. r.clean => r.seen # All
  <2> SUFFICES ASSUME c = TRUE PROVE original # All
    BY <1>5
  <2>1. ~atrace.first /\ \A v \in Workers : work[v].op # "enable"
    BY <1>2
  <2> QED
    BY <1>1, <2>1 DEF TagsInv, Keeps
<1>7. LinkerInv' /\ FinishedOK' /\ CallOK(r)
  BY <1>1, <1>4, <1>5 DEF LinkerInv, FinishedOK, CallOK
<1> QED
  BY <1>1, <1>4, <1>5, <1>6, <1>7, ClientStep DEF WorkInv

\* The store of a restore, and the system's own change of the tags.
LEMMA StoreInv ==
  ASSUME ClientsInv, \/ \E w \in Workers : Store(w)
                     \/ \E v \in TagValues : SetTags(v)
  PROVE  ClientsInv'
<1>1. WorkInv /\ TagsInv
  BY DEF ClientsInv
<1>2. CASE \E v \in TagValues : SetTags(v)
  <2>1. /\ tags' \in TagValues /\ UNCHANGED <<linker, original, atrace, work, finished>>
    BY <1>2 DEF SetTags
  <2>2. tags' # All
    BY <2>1, AllAssumption
  <2>3. TagsInv'
    BY <1>1, <2>1, <2>2 DEF TagsInv
  <2> QED
    BY <1>1, <2>1, <2>3, TagsStep DEF WorkInv
<1>3. ASSUME NEW w \in Workers, Store(w)
      PROVE  ClientsInv'
  <2>1. PICK x : x = work[w] /\ x \in WorkSet
    BY <1>1 DEF WorkInv
  <2>2. /\ x.op = "restore"
        /\ tags' = IF x.seen # All THEN x.seen ELSE tags
        /\ work' = [work EXCEPT ![w] = Idle2]
        /\ UNCHANGED <<linker, original, atrace, finished>>
    BY <1>3, <2>1 DEF Store, In, Returns, Becomes
  <2>3. \A v \in Workers : work'[v] = IF v = w THEN Idle2 ELSE work[v]
    BY <1>1, <2>2 DEF WorkInv
  <2>4. \A v \in Workers : work[v].op = "enable" => work'[v] = work[v]
    BY <2>1, <2>2, <2>3
  <2>5. \A v \in Workers : Keeps(work[v]) => Keeps(work'[v])
    BY <2>4 DEF Keeps
  <2>6. tags # All => tags' # All
    BY <2>2
  <2>7. TagsInv'
    BY <1>1, <2>2, <2>3, <2>4, <2>5, <2>6, IdleOK DEF TagsInv
  <2>8. work' \in [Workers -> WorkSet] /\ tags' \in TagValues \cup {All}
    BY <1>1, <2>1, <2>2, IdleOK DEF WorkInv, WorkSet
  <2> QED
    BY <1>1, <2>2, <2>3, <2>7, <2>8, IdleOK, TagsStep DEF WorkInv
<1> QED
  BY <1>2, <1>3

\* enableThreadHook.
LEMMA ThreadHookInv ==
  ASSUME ClientsInv, NEW w \in Workers, enableThreadHook(w)
  PROVE  ClientsInv'
<1>1. WorkInv /\ TagsInv /\ LinkerInv /\ FinishedOK
      /\ \A v \in Workers : CallOK(work[v])
  BY DEF ClientsInv
<1>2. UNCHANGED <<work, tags, original, finished>>
  BY DEF enableThreadHook
<1>3. /\ atrace'.first = atrace.first
      /\ atrace' \in [first : BOOLEAN, installed : BOOLEAN, threads : BOOLEAN]
  BY <1>1 DEF enableThreadHook, WorkInv
<1>4. LinkerInv'
  <2>1. CASE linker' = linker
    BY <1>1, <2>1 DEF LinkerInv
  <2>2. CASE linker' # linker
    <3>1. "thread" \in Clients /\ HookOf("thread") = "pthread_create_hook"
      BY DEF Clients, HookOf
    <3>2. PICK patches \in BOOLEAN : linker' = [linker EXCEPT !["thread"] =
            hook_plt_method(linker_initialize(@), "pthread_create_hook", patches)]
      BY <2>2 DEF enableThreadHook
    <3>3. PICK a : a = linker_initialize(linker["thread"])
      OBVIOUS
    <3>4. LinkOK(a, "thread")
      BY <1>1, <3>1, <3>3, InitialisedOK DEF LinkerInv
    <3>5. PICK lk : lk = hook_plt_method(a, "pthread_create_hook", patches)
      OBVIOUS
    <3>6. LinkOK(lk, "thread")
      BY <3>1, <3>4, <3>5, HookedOK
    <3>7. lk \in UNION {LinkerSet(c) : c \in Clients}
      BY <3>1, <3>6 DEF LinkOK
    <3>8. linker' = [linker EXCEPT !["thread"] = lk]
      BY <3>2, <3>3, <3>5
    <3> QED
      BY <1>1, <3>1, <3>6, <3>7, <3>8 DEF LinkerInv
  <2> QED
    BY <2>1, <2>2
<1>5. WorkInv' /\ TagsInv' /\ FinishedOK'
  BY <1>1, <1>2, <1>3 DEF WorkInv, TagsInv, FinishedOK
<1>6. ASSUME NEW v \in Workers PROVE CallOK(work'[v])
  BY <1>1, <1>2
<1> QED
  BY <1>4, <1>5, <1>6 DEF ClientsInv

\* A call through a slot starts at the top of a list of the right shape.
LEMMA CallSlotInv ==
  ASSUME ClientsInv, NEW w \in Workers, NEW fd \in {"slice", "event", "other", "create"},
         CallSlot(w, fd)
  PROVE  ClientsInv'
<1>1. WorkInv /\ LinkerInv /\ FinishedOK
  BY DEF ClientsInv
<1>2. PICK c : c = Client(fd)
  OBVIOUS
<1>3. c \in Clients
  BY <1>2 DEF Client, Clients
<1>4. PICK lk : lk = linker[c]
  OBVIOUS
<1>5. LinkOK(lk, c)
  BY <1>1, <1>3, <1>4 DEF LinkerInv
<1>6. PICK list : list = IF lk.patched THEN lk.list ELSE <<"original">>
  OBVIOUS
<1>7. ListShape(list, HookOf(c)) /\ list # <<>>
  <2>1. CASE lk.patched
    BY <1>5, <1>6, <2>1 DEF LinkOK
  <2>2. CASE ~lk.patched
    BY <1>6, <2>2 DEF ListShape
  <2> QED
    BY <2>1, <2>2
<1>8. list \in Seq(HookNames) /\ Len(list) \in Nat /\ Len(list) >= 1
  <2>1. list \in Seq({"original", HookOf(c)}) /\ HookOf(c) \in HookNames
    BY <1>7 DEF ListShape, HookOf, HookNames
  <2>2. {"original", HookOf(c)} \subseteq HookNames
    BY <2>1 DEF HookNames
  <2> QED
    BY <1>7, <2>1, <2>2
<1>9. PICK n \in Nat : n = Len(list)
  BY <1>8
<1>10. PICK r : r = [Idle2 EXCEPT !.op = "call", !.fd = fd, !.list = list, !.i = n]
  OBVIOUS
<1>11. /\ r \in WorkSet /\ r.op = "call" /\ r.fd = fd /\ r.list = list /\ r.i = n
       /\ r.kernel = 0 /\ r.logged = 0
  <2>1. /\ r \in WorkSet /\ r.op = "call" /\ r.fd = fd /\ r.list = list /\ r.i = n
        /\ r.kernel = Idle2.kernel /\ r.logged = Idle2.logged
    BY <1>8, <1>10, IdleOK DEF WorkSet, Ops, Descriptors
  <2> QED
    BY <2>1 DEF Idle2
<1>12. /\ work[w].op = "none" /\ work' = [work EXCEPT ![w] = r]
       /\ UNCHANGED <<linker, tags, original, atrace, finished>>
  BY <1>2, <1>4, <1>6, <1>9, <1>10 DEF CallSlot, Begin, Becomes
<1>13. CallOK(r)
  BY <1>2, <1>7, <1>8, <1>9, <1>11 DEF CallOK
<1>14. LinkerInv' /\ FinishedOK'
  BY <1>1, <1>12 DEF LinkerInv, FinishedOK
<1> QED
  BY <1>1, <1>11, <1>12, <1>13, <1>14, ClientStep DEF WorkInv

\* A call ends in the original, or in write_hook.
LEMMA DoneInv ==
  ASSUME ClientsInv, NEW w \in Workers, NEW f, NEW k \in Nat, NEW n \in Nat,
         work[w].op = "call",
         work' = [work EXCEPT ![w] = Idle2],
         finished' = finished \cup {[fd |-> f, kernel |-> k, logged |-> n]},
         Outcome(f, k, n),
         UNCHANGED <<linker, tags, original, atrace>>
  PROVE  ClientsInv'
<1>1. WorkInv /\ LinkerInv /\ FinishedOK
  BY DEF ClientsInv
<1>2. PICK g : g = [fd |-> f, kernel |-> k, logged |-> n]
  OBVIOUS
<1>3. g.fd = f /\ g.kernel = k /\ g.logged = n
  BY <1>2
<1>4. FinishedOK'
  <2> SUFFICES ASSUME NEW y \in finished'
               PROVE  Outcome(y.fd, y.kernel, y.logged)
    BY DEF FinishedOK
  <2>1. CASE y \in finished
    BY <1>1, <2>1 DEF FinishedOK
  <2>2. CASE y = g
    BY <1>3, <2>2
  <2> QED
    BY <1>2, <2>1, <2>2
<1>5. LinkerInv'
  BY <1>1 DEF LinkerInv
<1> QED
  BY <1>1, <1>4, <1>5, IdleOK, ClientStep DEF WorkInv

\* The original function.
LEMMA OriginalInv ==
  ASSUME ClientsInv, NEW w \in Workers, Original(w)
  PROVE  ClientsInv'
<1>1. PICK x : x = work[w] /\ x \in WorkSet
  BY DEF ClientsInv, WorkInv
<1>2. /\ x.op = "call" /\ UNCHANGED <<linker, tags, original, atrace>>
      /\ Done(w, [x EXCEPT !.kernel = @ + 1])
  BY <1>1 DEF Original
<1>3. CallOK(x)
  BY <1>1 DEF ClientsInv
<1>4. PICK y : y = [x EXCEPT !.kernel = @ + 1]
  OBVIOUS
<1>5. /\ y.fd = x.fd /\ y.kernel = 1 /\ y.logged = x.logged /\ x.logged \in Nat
      /\ x.fd \in {"slice", "event", "other", "create"}
      /\ x.logged = 0 \/ (x.logged = 1 /\ x.fd = "create")
  BY <1>1, <1>2, <1>3, <1>4 DEF CallOK, WorkSet
<1>6. PICK f \in {"slice", "event", "other", "create"}, n \in Nat : f = x.fd /\ n = x.logged
  BY <1>5
<1>7. /\ work' = [work EXCEPT ![w] = Idle2]
      /\ finished' = finished \cup {[fd |-> f, kernel |-> 1, logged |-> n]}
  BY <1>2, <1>4, <1>5, <1>6 DEF Done, Returns, Becomes
<1>8. Outcome(f, 1, n)
  BY <1>5, <1>6 DEF Outcome
<1> QED
  BY <1>1, <1>2, <1>7, <1>8, DoneInv

\* A hook passes the call on to the original.
LEMMA PassOnInv ==
  ASSUME ClientsInv, NEW w \in Workers, NEW x, x = work[w], x.op = "call",
         NEW hook, hook # "original", x.list[x.i] = hook, NEW n \in {0, 1},
         n = 0 \/ x.fd = "create", NEW j,
         j = get_previous_from_hook(x.list, hook),
         work' = [work EXCEPT ![w] = [x EXCEPT !.logged = n, !.i = j]],
         UNCHANGED <<linker, tags, original, atrace, finished>>
  PROVE  ClientsInv'
<1>1. x \in WorkSet /\ CallOK(x)
  BY DEF ClientsInv, WorkInv
<1>2. /\ x.fd \in {"slice", "event", "other", "create"} /\ x.i \in 1 .. Len(x.list)
      /\ ListShape(x.list, HookOf(Client(x.fd))) /\ x.kernel = 0
  BY <1>1 DEF CallOK
<1>3. Len(x.list) \in Nat
  BY <1>1 DEF WorkSet
<1>4. x.i # 1 /\ hook = HookOf(Client(x.fd))
  BY <1>2 DEF ListShape
<1>5. Len(x.list) >= 2
  BY <1>2, <1>3, <1>4
<1>6. j = 1
  BY <1>2, <1>4, <1>5, PreviousIsOriginal
<1>7. PICK r : r = [x EXCEPT !.logged = n, !.i = j]
  OBVIOUS
<1>8. /\ r \in WorkSet /\ r.op = "call" /\ r.fd = x.fd /\ r.list = x.list
      /\ r.i = 1 /\ r.kernel = 0 /\ r.logged = n
  <2>1. PICK m \in Nat : m = n
    OBVIOUS
  <2>2. PICK i \in Nat : i = j /\ i = 1
    BY <1>6
  <2>3. r = [x EXCEPT !.logged = m, !.i = i]
    BY <1>7, <2>1, <2>2
  <2>4. r \in WorkSet
    BY <1>1, <2>3 DEF WorkSet
  <2>5. /\ r.op = x.op /\ r.fd = x.fd /\ r.list = x.list
        /\ r.i = i /\ r.kernel = x.kernel /\ r.logged = m
    BY <1>1, <2>3 DEF WorkSet
  <2> QED
    BY <1>2, <2>1, <2>2, <2>4, <2>5
<1>9. CallOK(r)
  BY <1>2, <1>3, <1>5, <1>8 DEF CallOK
<1>10. LinkerInv' /\ FinishedOK'
  BY DEF ClientsInv, LinkerInv, FinishedOK
<1> QED
  BY <1>7, <1>8, <1>9, <1>10, ClientStep DEF ClientsInv, WorkInv

\* write_hook swallows what goes to the marker and passes the rest on.
LEMMA WriteHookInv ==
  ASSUME ClientsInv, NEW w \in Workers, write_hook(w)
  PROVE  ClientsInv'
<1>1. PICK x : x = work[w] /\ x \in WorkSet
  BY DEF ClientsInv, WorkInv
<1>2. /\ x.op = "call" /\ x.list[x.i] = "write_hook"
      /\ UNCHANGED <<linker, tags, original, atrace>>
  BY <1>1 DEF write_hook
<1>3. CallOK(x)
  BY <1>1 DEF ClientsInv
<1>4. x.fd # "create" /\ x.logged = 0 /\ x.kernel = 0
  <2>1. x.fd # "create"
    BY <1>2, <1>3 DEF CallOK, ListShape, HookOf, Client
  <2> QED
    BY <1>2, <1>3, <2>1 DEF CallOK
<1>5. CASE should_log_systrace(w)
  <2>1. PICK n : n = IF x.fd = "slice" THEN 1 ELSE 0
    OBVIOUS
  <2>2. n \in {0, 1} /\ log_systrace(w) = n
    BY <1>1, <1>4, <2>1 DEF log_systrace
  <2>3. PICK y : y = [x EXCEPT !.logged = n]
    OBVIOUS
  <2>4. Done(w, y)
    BY <1>1, <1>5, <2>2, <2>3 DEF write_hook
  <2>5. y.fd = x.fd /\ y.kernel = 0 /\ y.logged = n
    BY <1>1, <1>4, <2>3 DEF WorkSet
  <2>6. PICK f : f = x.fd /\ f \in {"slice", "event"}
    BY <1>1, <1>5 DEF should_log_systrace
  <2>7. /\ work' = [work EXCEPT ![w] = Idle2]
        /\ finished' = finished \cup {[fd |-> f, kernel |-> 0, logged |-> n]}
    BY <2>4, <2>5, <2>6 DEF Done, Returns, Becomes
  <2>8. /\ n \in Nat
        /\ Outcome(f, 0, n)
    BY <2>1, <2>6 DEF Outcome
  <2> QED
    BY <1>1, <1>2, <2>7, <2>8, DoneInv
<1>6. CASE ~should_log_systrace(w)
  <2>1. PICK j : j = get_previous_from_hook(x.list, "write_hook")
    OBVIOUS
  <2>2. work' = [work EXCEPT ![w] = [x EXCEPT !.i = j]] /\ finished' = finished
    BY <1>1, <1>6, <2>1 DEF write_hook, Becomes
  <2>3. [x EXCEPT !.i = j] = [x EXCEPT !.logged = 0, !.i = j]
    BY <1>1, <1>4 DEF WorkSet
  <2> QED
    BY <1>1, <1>2, <2>1, <2>2, <2>3, PassOnInv
<1> QED
  BY <1>5, <1>6

\* pthread_create_hook calls back into Java, once, and passes the call on.
LEMMA CreateHookInv ==
  ASSUME ClientsInv, NEW w \in Workers, NEW attached \in BOOLEAN,
         pthread_create_hook(w, attached)
  PROVE  ClientsInv'
<1>1. PICK x : x = work[w] /\ x \in WorkSet
  BY DEF ClientsInv, WorkInv
<1>2. PICK j : j = get_previous_from_hook(x.list, "pthread_create_hook")
  OBVIOUS
<1>3. /\ x.op = "call" /\ x.list[x.i] = "pthread_create_hook"
      /\ work' = [work EXCEPT ![w] = [x EXCEPT !.logged = @ + 1, !.i = j]]
      /\ UNCHANGED <<linker, tags, original, atrace, finished>>
  BY <1>1, <1>2 DEF pthread_create_hook, Becomes
<1>4. CallOK(x)
  BY <1>1 DEF ClientsInv
<1>5. x.i # 1 /\ x.fd = "create"
  BY <1>3, <1>4 DEF CallOK, ListShape, HookOf, Client
<1>6. x.logged + 1 = 1
  BY <1>3, <1>4, <1>5 DEF CallOK
<1>7. work' = [work EXCEPT ![w] = [x EXCEPT !.logged = 1, !.i = j]]
  BY <1>3, <1>6
<1>8. 1 \in {0, 1} /\ "pthread_create_hook" # "original"
  OBVIOUS
<1>9. /\ 1 = 0 \/ x.fd = "create"
      /\ x = work[w] /\ x.op = "call" /\ x.list[x.i] = "pthread_create_hook"
      /\ UNCHANGED <<linker, tags, original, atrace, finished>>
  BY <1>1, <1>3, <1>5
<1> QED
  BY <1>2, <1>7, <1>8, <1>9, PassOnInv

\* The clients' invariant holds throughout: one case per action.
LEMMA ClientsInductive == ClientsSpec => []ClientsInv
<1>1. ClientsInit => ClientsInv
  <2> SUFFICES ASSUME ClientsInit PROVE ClientsInv
    OBVIOUS
  <2>1. PICK on \in BOOLEAN :
          linker = [c \in Clients |-> [enabled |-> on, ready |-> FALSE, list |-> <<>>,
                                       patched |-> FALSE, room |-> 0, blocks |-> 0]]
    BY DEF ClientsInit
  <2>2. PICK lk : lk = [enabled |-> on, ready |-> FALSE, list |-> <<>>,
                        patched |-> FALSE, room |-> 0, blocks |-> 0]
    OBVIOUS
  <2>3. ASSUME NEW c \in Clients PROVE LinkOK(lk, c)
    <3>1. lk \in LinkerSet(c) /\ lk.list = <<>> /\ lk.patched = FALSE
      BY <2>2 DEF LinkerSet
    <3> QED
      BY <3>1 DEF LinkOK, ListShape
  <2>4. LinkerInv
    BY <2>1, <2>2, <2>3 DEF LinkerInv, LinkOK
  <2>5. work = [w \in Workers |-> Idle2] /\ tags \in TagValues /\ original = All
        /\ atrace = [first |-> TRUE, installed |-> FALSE, threads |-> FALSE]
        /\ finished = {}
    BY DEF ClientsInit
  <2>6. WorkInv
    BY <2>5, IdleOK DEF WorkInv
  <2>7. TagsInv
    BY <2>5, AllAssumption, IdleOK DEF TagsInv
  <2> QED
    BY <2>4, <2>5, <2>6, <2>7, IdleOK DEF ClientsInv, FinishedOK
<1>2. ClientsInv /\ [ClientsNext]_clientVars => ClientsInv'
  <2> SUFFICES ASSUME ClientsInv, [ClientsNext]_clientVars PROVE ClientsInv'
    OBVIOUS
  <2>1. CASE UNCHANGED clientVars
    BY <2>1 DEF clientVars, ClientsInv, LinkerInv, WorkInv, FinishedOK, TagsInv
  <2> QED
    BY <2>1, InstallInv, EnableInv, ExchangeInv, KeepInv, RestoreInv, StoreInv,
       ThreadHookInv, CallSlotInv, OriginalInv, WriteHookInv, CreateHookInv
       DEF ClientsNext
<1> QED
  BY <1>1, <1>2, PTL DEF ClientsSpec

\* A write that did not reach the kernel was swallowed by an installed logger.
SwallowedInv == \A f \in finished : f.kernel = 0 => atrace.installed

LEMMA SwallowedInductive == ClientsSpec => []SwallowedInv
<1>1. ClientsInit => SwallowedInv
  BY DEF ClientsInit, SwallowedInv
<1>2. ClientsInv /\ SwallowedInv /\ [ClientsNext]_clientVars => SwallowedInv'
  <2> SUFFICES ASSUME ClientsInv, SwallowedInv, [ClientsNext]_clientVars
               PROVE  SwallowedInv'
    OBVIOUS
  <2>1. WorkInv /\ \A w \in Workers : CallOK(work[w])
    BY DEF ClientsInv
  <2>2. atrace.installed => atrace'.installed
    BY <2>1 DEF WorkInv, ClientsNext, clientVars, Install, hookLoadedLibs, Installed, Enable,
                Exchange, Keep, Restore, Store, enableThreadHook, CallSlot, Original,
                write_hook, pthread_create_hook, SetTags
  <2>3. finished' = finished \/ \E w \in Workers : Original(w) \/ write_hook(w)
    BY DEF ClientsNext, clientVars, Install, hookLoadedLibs, Installed, Enable, Exchange,
           Keep, Restore, Store, enableThreadHook, CallSlot, pthread_create_hook, SetTags
  <2>4. CASE finished' = finished
    BY <2>2, <2>4 DEF SwallowedInv
  <2>5. ASSUME NEW w \in Workers, Original(w) PROVE SwallowedInv'
    <3>1. PICK x, y : x = work[w] /\ y = [x EXCEPT !.kernel = @ + 1]
      OBVIOUS
    <3>2. x \in WorkSet /\ x.kernel = 0
      BY <2>1, <2>5, <3>1 DEF WorkInv, CallOK, Original
    <3>3. y.kernel = 1
      BY <3>1, <3>2 DEF WorkSet
    <3>4. finished' = finished \cup {[fd |-> y.fd, kernel |-> y.kernel, logged |-> y.logged]}
      BY <2>5, <3>1 DEF Original, Done
    <3> QED
      BY <2>2, <3>3, <3>4 DEF SwallowedInv
  <2>6. ASSUME NEW w \in Workers, write_hook(w), finished' # finished PROVE SwallowedInv'
    BY <2>2, <2>6 DEF SwallowedInv, write_hook, should_log_systrace
  <2> QED
    BY <2>3, <2>4, <2>5, <2>6
<1> QED
  BY <1>1, <1>2, ClientsInductive, PTL DEF ClientsSpec

\* For any number of threads and calls, and however often write_hook has been
\* added: what is not for the marker, and a thread's creation, happens exactly
\* once, a slice is logged or written, and only an installed logger swallows.
THEOREM CallsOnce == ClientsSpec => []HookedCallsOnce
<1>1. ClientsInv /\ SwallowedInv => HookedCallsOnce
  <2> SUFFICES ASSUME ClientsInv, SwallowedInv PROVE HookedCallsOnce
    OBVIOUS
  <2>1. FinishedOK /\ WorkInv /\ \A w \in Workers : CallOK(work[w])
    BY DEF ClientsInv
  <2>2. ASSUME NEW w \in Workers, work[w].op = "call" PROVE work[w].i >= 1
    BY <2>1, <2>2 DEF CallOK
  <2>3. ASSUME NEW f \in finished
        PROVE  CASE f.fd = "other"  -> f.kernel = 1 /\ f.logged = 0
                 [] f.fd = "slice"  -> f.kernel + f.logged = 1 /\ (f.logged = 1 => atrace.installed)
                 [] f.fd = "event"  -> f.logged = 0 /\ (f.kernel = 1 \/ (f.kernel = 0 /\ atrace.installed))
                 [] f.fd = "create" -> f.kernel = 1 /\ f.logged <= 1
    <3>1. PICK k, n : k = f.kernel /\ n = f.logged
      OBVIOUS
    <3>2. Outcome(f.fd, k, n) /\ (k = 0 => atrace.installed)
      BY <2>1, <3>1 DEF FinishedOK, SwallowedInv
    <3>3. CASE f.fd = "other"
      BY <3>1, <3>2, <3>3 DEF Outcome
    <3>4. CASE f.fd = "slice"
      BY <3>1, <3>2, <3>4 DEF Outcome
    <3>5. CASE f.fd = "event"
      BY <3>1, <3>2, <3>5 DEF Outcome
    <3>6. CASE f.fd = "create"
      BY <3>1, <3>2, <3>6 DEF Outcome
    <3> QED
      BY <3>2, <3>3, <3>4, <3>5, <3>6 DEF Outcome
  <2> QED
    BY <2>2, <2>3 DEF HookedCallsOnce
<1> QED
  BY <1>1, ClientsInductive, SwallowedInductive, PTL

\* A restore that follows an enable and overlaps none gives the system's tags
\* back, however many enables and restores went before.
THEOREM TagsAreRestored == ClientsSpec => TagsComeBack
<1>1. ClientsInv /\ [ClientsNext]_clientVars =>
        [\A w \in Workers : Store(w) /\ work[w].clean => tags' # All]_clientVars
  <2> SUFFICES ASSUME ClientsInv, NEW w \in Workers, Store(w), work[w].clean
               PROVE  tags' # All
    OBVIOUS
  <2>1. work[w].op = "restore" /\ work[w].seen # All
    BY DEF ClientsInv, TagsInv, Store, In
  <2> QED
    BY <2>1 DEF Store
<1> QED
  BY <1>1, ClientsInductive, PTL DEF ClientsSpec, TagsComeBack

-----------------------------------------------------------------------------
(* ElfLookup: what a lookup finds, for any symbols, hash values, buckets    *)
(* and filter.                                                              *)

\* A nonempty set of naturals has a least element, and Min is it.
LEMMA MinIsLeast ==
  ASSUME NEW S, S \subseteq Nat, S # {}
  PROVE  Min(S) \in S /\ \A y \in S : Min(S) <= y
<1> DEFINE R == OpToRel(<, Nat)
<1>0. IsWellFoundedOn(R, Nat)
  BY NatLessThanWellFounded
<1>1. \A x, y \in Nat : <<x, y>> \in R <=> x < y
  BY DEF OpToRel
<1> HIDE DEF R
<1>2. PICK x \in S : \A y \in S : ~ (<<y, x>> \in R)
  BY <1>0, WFMin
<1>3. \A y \in S : x <= y
  <2> SUFFICES ASSUME NEW y \in S PROVE x <= y
    OBVIOUS
  <2>1. ~ (y < x) /\ x \in Nat /\ y \in Nat
    BY <1>1, <1>2
  <2> QED
    BY <2>1
<1> QED
  BY <1>3 DEF Min

\* The least element of a set with one member.
LEMMA MinOfOne ==
  ASSUME NEW S, NEW i \in Nat, S \subseteq {i}, S # {}
  PROVE  Min(S) = i
<1>1. Min(S) \in S
  BY MinIsLeast
<1> QED
  BY <1>1

\* The symbol table lists every name exactly once.
LEMMA NamesListed ==
  /\ Cardinality(Names) \in Nat
  /\ SetToSeq(Names) \in [1 .. Cardinality(Names) -> Names]
  /\ IsInjective(SetToSeq(Names))
  /\ \A name \in Names : \E i \in 1 .. Cardinality(Names) : SetToSeq(Names)[i] = name
<1> DEFINE N == Cardinality(Names)
           D == 1 .. N
<1>1. N \in Nat /\ ExistsBijection(D, Names)
  BY ElfBounds, FS_CardinalityType
<1>2. \E f \in [D -> Names] : IsInjective(f)
  BY <1>1, Zenon DEF ExistsBijection, Bijection, Injection
<1>3. SetToSeq(Names) \in [D -> Names] /\ IsInjective(SetToSeq(Names))
  BY <1>2 DEF SetToSeq
<1>4. SetToSeq(Names) \in Injection(D, Names)
  BY <1>3 DEF Injection
<1>5. Cardinality(D) = N
  <2>1. 1 \in Int /\ N \in Int /\ (N - 1 + 1 = N)
    BY <1>1
  <2>2. Cardinality(D) = IF 1 > N THEN 0 ELSE N - 1 + 1
    BY <2>1, FS_Interval
  <2> QED
    BY <2>2, <1>1
<1>6. SetToSeq(Names) \in Surjection(D, Names)
  BY <1>4, <1>5, ElfBounds, FS_Injection, Zenon
<1> QED
  BY <1>1, <1>3, <1>6 DEF Surjection

\* What the static linker may have written.
LEMMA LibraryFacts ==
  ASSUME NEW l \in Libraries
  PROVE  /\ Cardinality(Names) \in Nat /\ Cardinality(Names) >= 2
         /\ l.syms \in [1 .. Cardinality(Names) -> Names]
         /\ DOMAIN l.syms = 1 .. Cardinality(Names)
         /\ Len(l.syms) = Cardinality(Names)
         /\ \A i, j \in 1 .. Cardinality(Names) : l.syms[i] = l.syms[j] => i = j
         /\ \A name \in Names : \E i \in 1 .. Cardinality(Names) : l.syms[i] = name
         /\ l.buckets \in Nat \ {0} /\ l.symoffset \in Nat \ {0}
         /\ \A name \in Names : l.hash[name] \in Nat
         /\ \A i \in 1 .. Cardinality(Names) : Bucket(l, i) \in Nat
         /\ Range(l.plt) \subseteq 1 .. Cardinality(Names)
         /\ l.rel \subseteq 1 .. Cardinality(Names)
         /\ Sorted(l)
<1>1. /\ l.syms = SetToSeq(Names) /\ l.buckets \in 1 .. MaxBuckets
      /\ l.symoffset \in 1 .. Cardinality(Names) + 1
      /\ l.hash \in [Names -> 0 .. NumHashes - 1] /\ l.rel \in SUBSET (1 .. Cardinality(Names))
      /\ l.plt \in Seq(1 .. Cardinality(Names)) /\ Sorted(l)
  BY ElfBounds DEF Libraries
<1>2. /\ Cardinality(Names) \in Nat /\ Cardinality(Names) >= 2
      /\ l.syms \in [1 .. Cardinality(Names) -> Names]
  BY <1>1, NamesListed, ElfBounds
<1>3. DOMAIN l.syms = 1 .. Cardinality(Names) /\ Len(l.syms) = Cardinality(Names)
  BY <1>2
<1>4. /\ \A i, j \in 1 .. Cardinality(Names) : l.syms[i] = l.syms[j] => i = j
      /\ \A name \in Names : \E i \in 1 .. Cardinality(Names) : l.syms[i] = name
  BY <1>1, <1>3, NamesListed, Zenon DEF IsInjective
<1>5. /\ l.buckets \in Nat \ {0} /\ l.symoffset \in Nat \ {0}
      /\ \A name \in Names : l.hash[name] \in Nat
  BY <1>1, <1>2, ElfBounds
<1>6. ASSUME NEW i \in 1 .. Cardinality(Names)
      PROVE  Bucket(l, i) \in Nat
  <2>1. l.hash[l.syms[i]] \in Nat
    BY <1>2, <1>5
  <2> QED
    BY <1>5, <2>1 DEF Bucket
<1>7. Range(l.plt) \subseteq 1 .. Cardinality(Names)
  <2>1. PICK S, d : S = 1 .. Cardinality(Names) /\ d = l.plt
    OBVIOUS
  <2>2. d \in Seq(S)
    BY <1>1, <2>1
  <2>3. \A x \in DOMAIN d : d[x] \in S
    BY <2>2
  <2> QED
    BY <2>1, <2>3, Zenon DEF Range
<1> QED
  BY <1>1, <1>2, <1>3, <1>4, <1>5, <1>6, <1>7

Prefix(d, k) == Range(SubSeq(d, 1, k))
Stops(d) == {k \in DOMAIN d : is_complete(Prefix(d, k))}

\* Wherever the constructor stops, it has read the PLT relocations and size.
LEMMA PltRead ==
  ASSUME NEW l \in Libraries, Parsed(l) # {}
  PROVE  pltRelocations(l) = l.plt
<1>1. Parsed(l) = IF Stops(l.dyn) = {} THEN {} ELSE Prefix(l.dyn, Min(Stops(l.dyn)))
  BY DEF Parsed, Stops, Prefix
<1>2. Stops(l.dyn) # {} /\ Stops(l.dyn) \subseteq Nat
  <2>1. l.dyn \in Seq(Tags)
    BY ElfBounds DEF Libraries
  <2>2. DOMAIN l.dyn \subseteq Nat
    BY <2>1
  <2> QED
    BY <1>1, <2>2 DEF Stops
<1>3. Min(Stops(l.dyn)) \in Stops(l.dyn)
  BY <1>2, MinIsLeast
<1>4. is_complete(Parsed(l))
  BY <1>1, <1>2, <1>3 DEF Stops
<1> QED
  BY <1>4, Zenon DEF pltRelocations, is_complete, Needed

GnuStart(l, name) == Buckets(l, l.hash[name] % l.buckets)
GnuEnds(l, n) == {i \in n .. Len(l.syms) : EndsChain(l, i)}
GnuHits(l, name, n) ==
  {i \in n .. Min(GnuEnds(l, n)) : l.hash[l.syms[i]] \div 2 = l.hash[name] \div 2 /\ l.syms[i] = name}

\* A chain that starts at a symbol of the table ends within it.
LEMMA ChainEnds ==
  ASSUME NEW l \in Libraries, NEW n \in 1 .. Cardinality(Names)
  PROVE  /\ Min(GnuEnds(l, n)) \in n .. Cardinality(Names)
         /\ EndsChain(l, Min(GnuEnds(l, n)))
<1> DEFINE N == Cardinality(Names)
<1>1. N \in Nat /\ DOMAIN l.syms = 1 .. N /\ Len(l.syms) = N
  BY LibraryFacts
<1>2. N + 1 \notin 1 .. N /\ N \in n .. N /\ n .. N \subseteq Nat
  BY <1>1
<1>3. EndsChain(l, N)
  BY <1>1, <1>2, Zenon DEF EndsChain
<1>4. GnuEnds(l, n) # {} /\ GnuEnds(l, n) \subseteq Nat
  BY <1>1, <1>2, <1>3 DEF GnuEnds
<1>5. Min(GnuEnds(l, n)) \in GnuEnds(l, n)
  BY <1>4, MinIsLeast
<1> QED
  BY <1>1, <1>5 DEF GnuEnds

\* The first symbol of a bucket is one of the table.
LEMMA BucketStarts ==
  ASSUME NEW l \in Libraries, NEW b, Buckets(l, b) # 0
  PROVE  /\ Buckets(l, b) \in 1 .. Cardinality(Names) \ Undefined(l)
         /\ Bucket(l, Buckets(l, b)) = b
         /\ \A i \in DOMAIN l.syms \ Undefined(l) : Bucket(l, i) = b => Buckets(l, b) <= i
<1> DEFINE in == {i \in DOMAIN l.syms \ Undefined(l) : Bucket(l, i) = b}
<1>1. Cardinality(Names) \in Nat /\ DOMAIN l.syms = 1 .. Cardinality(Names)
  BY LibraryFacts
<1>2. in # {} /\ Buckets(l, b) = Min(in)
  BY DEF Buckets
<1>3. in \subseteq Nat
  BY <1>1
<1>4. Min(in) \in in /\ \A y \in in : Min(in) <= y
  BY <1>2, <1>3, MinIsLeast
<1> QED
  BY <1>1, <1>2, <1>4

\* The chain of a defined symbol's bucket does not end before the symbol: the
\* defined symbols are sorted by bucket.
LEMMA ChainReaches ==
  ASSUME NEW l \in Libraries, NEW i \in 1 .. Cardinality(Names), i \notin Undefined(l)
  PROVE  /\ Buckets(l, Bucket(l, i)) \in 1 .. Cardinality(Names)
         /\ i \in Buckets(l, Bucket(l, i)) .. Min(GnuEnds(l, Buckets(l, Bucket(l, i))))
<1> DEFINE N == Cardinality(Names)
           n == Buckets(l, Bucket(l, i))
           e == Min(GnuEnds(l, n))
<1>1. /\ N \in Nat /\ DOMAIN l.syms = 1 .. N /\ l.symoffset \in Nat
      /\ \A j \in 1 .. N : Bucket(l, j) \in Nat
      /\ Sorted(l)
  BY LibraryFacts
<1>2. n # 0
  <2> DEFINE in == {j \in DOMAIN l.syms \ Undefined(l) : Bucket(l, j) = Bucket(l, i)}
  <2>1. i \in in
    BY <1>1
  <2>2. in \subseteq Nat
    BY <1>1
  <2>3. Min(in) \in in
    BY <2>1, <2>2, MinIsLeast
  <2>4. n = Min(in)
    BY <2>1 DEF Buckets
  <2> QED
    BY <1>1, <2>3, <2>4
<1>3. n \in 1 .. N \ Undefined(l) /\ Bucket(l, n) = Bucket(l, i) /\ n <= i
  BY <1>1, <1>2, BucketStarts
<1> HIDE DEF n
<1>4. e \in n .. N /\ EndsChain(l, e)
  BY <1>3, ChainEnds
<1> HIDE DEF e, N
<1>5. ASSUME e < i PROVE FALSE
  <2>1. e \in 1 .. N /\ e + 1 \in 1 .. N /\ n <= e /\ e + 1 <= i
    BY <1>1, <1>3, <1>4, <1>5 DEF N
  <2>2. n >= l.symoffset
    BY <1>1, <1>3 DEF Undefined
  <2>3. e \notin Undefined(l) /\ e + 1 \notin Undefined(l)
    BY <1>1, <1>3, <2>1, <2>2 DEF Undefined
  <2>4. Bucket(l, n) <= Bucket(l, e)
    <3>1. CASE n = e
      BY <1>1, <2>1, <3>1
    <3>2. CASE n < e
      BY <1>1, <1>3, <2>1, <2>3, <3>2 DEF Sorted
    <3> QED
      BY <1>3, <2>1, <3>1, <3>2
  <2>5. Bucket(l, e) <= Bucket(l, e + 1)
    <3>1. e < e + 1
      BY <2>1
    <3> QED
      BY <1>1, <2>1, <2>3, <3>1 DEF Sorted
  <2>6. Bucket(l, e + 1) <= Bucket(l, i)
    <3>1. CASE e + 1 = i
      BY <1>1, <2>1, <3>1
    <3>2. CASE e + 1 < i
      BY <1>1, <2>1, <2>3, <3>2 DEF Sorted, N
    <3> QED
      BY <2>1, <3>1, <3>2
  <2>7. Bucket(l, e) \in Nat /\ Bucket(l, e + 1) \in Nat /\ Bucket(l, i) \in Nat
    BY <1>1, <2>1 DEF N
  <2>8. Bucket(l, e + 1) = Bucket(l, e)
    BY <1>3, <2>4, <2>5, <2>6, <2>7
  <2>9. e + 1 \in DOMAIN l.syms \ Undefined(l)
    BY <1>1, <2>1, <2>3
  <2> QED
    BY <1>4, <2>8, <2>9, Zenon DEF EndsChain
<1> QED
  BY <1>1, <1>3, <1>4, <1>5 DEF n, e, N

\* The lookup in the GNU table with its parts named.
LEMMA GnuFind ==
  ASSUME NEW l, NEW name
  PROVE  gnu_find_symbol_by_name(l, name) =
           IF \/ ~(Bits(l.hash[name]) \subseteq Bloom(l, Word(l.hash[name])))
              \/ GnuStart(l, name) = 0 \/ GnuHits(l, name, GnuStart(l, name)) = {}
             THEN 0
             ELSE Min(GnuHits(l, name, GnuStart(l, name)))
BY DEF gnu_find_symbol_by_name, GnuStart, GnuEnds, GnuHits

\* The GNU table gives a defined symbol for its name, and nothing else.
LEMMA GnuFinds ==
  ASSUME NEW l \in Libraries, NEW i \in 1 .. Cardinality(Names)
  PROVE  /\ gnu_find_symbol_by_name(l, l.syms[i]) \in {0, i}
         /\ i \notin Undefined(l) => gnu_find_symbol_by_name(l, l.syms[i]) = i
<1> DEFINE N == Cardinality(Names)
           name == l.syms[i]
           n == GnuStart(l, name)
<1>1. /\ N \in Nat /\ DOMAIN l.syms = 1 .. N
      /\ \A j, k \in 1 .. N : l.syms[j] = l.syms[k] => j = k
  BY LibraryFacts
<1>2. n = Buckets(l, Bucket(l, i))
  BY DEF GnuStart, Bucket
<1>3. ASSUME n # 0 PROVE GnuHits(l, name, n) \subseteq {i}
  <2>1. n \in 1 .. N
    BY <1>2, <1>3, BucketStarts
  <2>2. Min(GnuEnds(l, n)) \in n .. N
    BY <2>1, ChainEnds
  <2>3. n .. Min(GnuEnds(l, n)) \subseteq 1 .. N
    BY <1>1, <2>1, <2>2
  <2> QED
    BY <1>1, <2>3, Zenon DEF GnuHits
<1>4. gnu_find_symbol_by_name(l, name) \in {0, i}
  <2>1. CASE n = 0 \/ GnuHits(l, name, n) = {}
    BY <2>1, GnuFind
  <2>2. CASE n # 0 /\ GnuHits(l, name, n) # {}
    <3>1. Min(GnuHits(l, name, n)) = i
      BY <1>1, <1>3, <2>2, MinOfOne
    <3> QED
      BY <3>1, GnuFind
  <2> QED
    BY <2>1, <2>2
<1>5. ASSUME i \notin Undefined(l) PROVE gnu_find_symbol_by_name(l, name) = i
  <2>1. n \in 1 .. N /\ i \in n .. Min(GnuEnds(l, n))
    BY <1>2, <1>5, ChainReaches
  <2>2. i \in GnuHits(l, name, n)
    BY <2>1 DEF GnuHits
  <2>3. n # 0
    BY <1>1, <2>1
  <2>4. Min(GnuHits(l, name, n)) = i
    BY <1>1, <1>3, <2>2, <2>3, MinOfOne
  <2>5. Bits(l.hash[name]) \subseteq Bloom(l, Word(l.hash[name]))
    <3> DEFINE there == {j \in DOMAIN l.syms \ Undefined(l) : Word(l.hash[l.syms[j]]) = Word(l.hash[name])}
    <3>1. i \in there
      BY <1>1, <1>5
    <3> QED
      BY <3>1, Zenon DEF Bloom
  <2> QED
    BY <2>2, <2>3, <2>4, <2>5, GnuFind
<1> QED
  BY <1>4, <1>5

\* The System V table gives every symbol for its name.
LEMMA ElfFinds ==
  ASSUME NEW l \in Libraries, NEW i \in 1 .. Cardinality(Names)
  PROVE  elf_find_symbol_by_name(l, l.syms[i]) = i
<1> DEFINE N == Cardinality(Names)
           hits == {j \in DOMAIN l.syms : /\ l.hash[l.syms[j]] % l.buckets = l.hash[l.syms[i]] % l.buckets
                                          /\ l.syms[j] = l.syms[i]}
<1>1. /\ N \in Nat /\ DOMAIN l.syms = 1 .. N
      /\ \A j, k \in 1 .. N : l.syms[j] = l.syms[k] => j = k
  BY LibraryFacts
<1>2. i \in hits /\ hits \subseteq {i}
  BY <1>1
<1>3. i \in Nat /\ hits # {}
  BY <1>1, <1>2
<1> HIDE DEF hits
<1>4. Min(hits) = i
  BY <1>2, <1>3, MinOfOne
<1> QED
  BY <1>3, <1>4 DEF hits, elf_find_symbol_by_name

\* The other relocations are scanned, or are empty to the lookup, or are taken to
\* be at address zero.
ReadsRel(l) == {"REL", "RELSZ"} \subseteq Parsed(l)
ReadsNull(l) == l.rel # {} /\ "RELSZ" \in Parsed(l) /\ "REL" \notin Parsed(l)

\* A lookup gives the symbol of that name or none, and gives it when the library
\* defines it, calls it through the PLT, or names it in relocations that were read.
LEMMA SymbolFound ==
  ASSUME NEW l \in Libraries, Parsed(l) # {}, NEW i \in 1 .. Cardinality(Names)
  PROVE  /\ find_symbol_by_name(l, l.syms[i]) \in {0, i, NullRead}
         /\ i \notin Undefined(l) \/ i \in Range(l.plt) => find_symbol_by_name(l, l.syms[i]) = i
         /\ i \in l.rel /\ ReadsRel(l) => find_symbol_by_name(l, l.syms[i]) = i
         /\ find_symbol_by_name(l, l.syms[i]) = NullRead => ReadsNull(l)
<1> DEFINE N == Cardinality(Names)
           name == l.syms[i]
           hashed == IF usesGnuHashTable(l) THEN gnu_find_symbol_by_name(l, name)
                     ELSE elf_find_symbol_by_name(l, name)
           inPlt == {j \in Range(l.plt) : l.syms[j] = name}
           inRel == {j \in l.rel : ReadsRel(l) /\ l.syms[j] = name}
           null == ReadsNull(l)
<1>1. /\ N \in Nat /\ Range(l.plt) \subseteq 1 .. N /\ l.rel \subseteq 1 .. N
      /\ \A j, k \in 1 .. N : l.syms[j] = l.syms[k] => j = k
  BY LibraryFacts
<1>2. hashed \in {0, i} /\ (i \notin Undefined(l) => hashed = i)
  BY GnuFinds, ElfFinds
<1>3. /\ inPlt \subseteq {i} /\ inRel \subseteq {i} /\ (i \in Range(l.plt) => inPlt # {})
      /\ i \in l.rel /\ ReadsRel(l) => inRel # {}
  BY <1>1
<1>4. i \in Nat /\ i # 0 /\ i # NullRead
  BY <1>1 DEF NullRead
<1>5. (inPlt # {} => Min(inPlt) = i) /\ (inRel # {} => Min(inRel) = i)
  BY <1>3, <1>4, MinOfOne
<1>6. find_symbol_by_name(l, name) =
        CASE hashed # 0 -> hashed
          [] hashed = 0 /\ inPlt # {} -> Min(inPlt)
          [] hashed = 0 /\ inPlt = {} /\ null -> NullRead
          [] hashed = 0 /\ inPlt = {} /\ ~null /\ inRel # {} -> Min(inRel)
          [] OTHER -> 0
  BY PltRead DEF find_symbol_by_name, ReadsRel, ReadsNull
<1>7. ReadsRel(l) => ~null
  BY DEF ReadsRel, ReadsNull
<1>8. NullRead # 0
  BY DEF NullRead
<1> HIDE DEF hashed, inPlt, inRel, null
<1>9. CASE hashed # 0
  BY <1>2, <1>4, <1>6, <1>9
<1>10. CASE hashed = 0 /\ inPlt # {}
  BY <1>2, <1>4, <1>5, <1>6, <1>10
<1>11. CASE hashed = 0 /\ inPlt = {} /\ null
  BY <1>2, <1>3, <1>6, <1>7, <1>8, <1>11 DEF null
<1>12. CASE hashed = 0 /\ inPlt = {} /\ ~null
  BY <1>2, <1>3, <1>4, <1>5, <1>6, <1>8, <1>12
<1> QED
  BY <1>9, <1>10, <1>11, <1>12

\* The library is one a static linker writes, and the answer given is what the
\* lookups compute.
ElfInv ==
  /\ lib \in Libraries
  /\ elfAsked # {} => Parsed(lib) # {}
  /\ \A q \in elfAsked :
       /\ q.name \in Names
       /\ q.sym = find_symbol_by_name(lib, q.name)
       /\ q.slots = get_plt_relocations(lib, q.sym)

\* Every reachable state satisfies ElfInv.
LEMMA ElfInductive == ElfSpec => []ElfInv
<1>1. ElfInit => ElfInv
  BY DEF ElfInit, ElfInv
<1>2. ElfInv /\ [ElfNext]_elfVars => ElfInv'
  <2> SUFFICES ASSUME ElfInv, [ElfNext]_elfVars PROVE ElfInv'
    OBVIOUS
  <2>1. CASE UNCHANGED elfVars
    BY <2>1 DEF ElfInv, elfVars
  <2>2. ASSUME NEW name \in Names, Ask(name) PROVE ElfInv'
    <3> DEFINE s == find_symbol_by_name(lib, name)
               slots == get_plt_relocations(lib, s)
    <3>1. /\ lib' = lib /\ elfAsked' = {[name |-> name, sym |-> s, slots |-> slots]}
          /\ Parsed(lib) # {}
      BY <2>2 DEF Ask
    <3>2. /\ find_symbol_by_name(lib', name) = s /\ get_plt_relocations(lib', s) = slots
          /\ Parsed(lib') = Parsed(lib)
      BY <3>1
    <3> HIDE DEF s, slots
    <3> QED
      BY <3>1, <3>2 DEF ElfInv, s, slots
  <2> QED
    BY <2>1, <2>2 DEF ElfNext
<1> QED
  BY <1>1, <1>2, PTL DEF ElfSpec

\* For any symbols, hash values, buckets and Bloom filter, any relocations and any
\* order of the dynamic section, complete or not: a lookup finds the symbol of that
\* name and all of its PLT slots, and misses one only that is undefined and named
\* by no relocation the constructor has read (elfSharedLibData.cpp:185).
THEOREM LookupsExact == ElfSpec => []LookupExact
<1>1. ElfInv => LookupExact
  <2> SUFFICES ASSUME ElfInv, NEW q \in elfAsked
               PROVE  LET i == IndexOf(q.name)
                          imported == i \in Range(lib.plt)
                      IN  /\ q.sym \in {0, i, NullRead}
                          /\ i \notin Undefined(lib) \/ imported => q.sym = i
                          /\ i \in lib.rel /\ {"REL", "RELSZ"} \subseteq Parsed(lib) => q.sym = i
                          /\ q.sym = NullRead => "RELSZ" \in Parsed(lib) /\ "REL" \notin Parsed(lib)
                          /\ imported => q.slots = {k \in DOMAIN lib.plt : lib.syms[lib.plt[k]] = q.name}
    BY DEF LookupExact
  <2> DEFINE i == IndexOf(q.name)
             N == Cardinality(Names)
  <2>1. /\ lib \in Libraries /\ q.name \in Names
        /\ q.sym = find_symbol_by_name(lib, q.name)
        /\ q.slots = get_plt_relocations(lib, q.sym) /\ Parsed(lib) # {}
    BY DEF ElfInv
  <2>2. /\ DOMAIN lib.syms = 1 .. N /\ Range(lib.plt) \subseteq 1 .. N
        /\ \A name \in Names : \E j \in 1 .. N : lib.syms[j] = name
        /\ \A j, k \in 1 .. N : lib.syms[j] = lib.syms[k] => j = k
    BY <2>1, LibraryFacts
  <2>3. i \in 1 .. N /\ lib.syms[i] = q.name
    BY <2>1, <2>2 DEF IndexOf
  <2> HIDE DEF i
  <2>4. /\ q.sym \in {0, i, NullRead}
        /\ i \notin Undefined(lib) \/ i \in Range(lib.plt) => q.sym = i
        /\ i \in lib.rel /\ {"REL", "RELSZ"} \subseteq Parsed(lib) => q.sym = i
        /\ q.sym = NullRead => "RELSZ" \in Parsed(lib) /\ "REL" \notin Parsed(lib)
    BY <2>1, <2>3, SymbolFound DEF ReadsRel, ReadsNull
  <2>5. ASSUME i \in Range(lib.plt)
        PROVE  q.slots = {k \in DOMAIN lib.plt : lib.syms[lib.plt[k]] = q.name}
    <3>1. q.slots = {k \in DOMAIN lib.plt : lib.plt[k] = i}
      BY <2>1, <2>4, <2>5, PltRead DEF get_plt_relocations
    <3>2. \A k \in DOMAIN lib.plt : lib.plt[k] \in 1 .. N
      BY <2>2 DEF Range
    <3>3. \A k \in DOMAIN lib.plt : lib.plt[k] = i <=> lib.syms[lib.plt[k]] = q.name
      BY <2>2, <2>3, <3>2
    <3> QED
      BY <3>1, <3>3
  <2> QED
    BY <2>4, <2>5 DEF i
<1> QED
  BY <1>1, ElfInductive, PTL
=============================================================================
