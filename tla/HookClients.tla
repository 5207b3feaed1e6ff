---------------------------- MODULE HookClients ----------------------------
(***************************************************************************)
(* The two users of the PLT hooking library: the systrace logger           *)
(* (ATraceLogger.cpp), which hooks write in libc.so, and the thread hook   *)
(* (threadHook.cpp), which hooks pthread_create in libart.so.  Each has a  *)
(* copy of the linker library, seen here through its interface: one GOT    *)
(* slot per client with its run list, trampolines carved out of blocks,    *)
(* and calls that walk the run list with CALL_PREV.  PltHook has the same  *)
(* code in full detail.                                                    *)
(***************************************************************************)
EXTENDS Integers, FiniteSets, Sequences, SequencesExt

CONSTANTS Workers,      \* threads
          TagValues,    \* what the system may set as enabled tags
          All,          \* UINT64_MAX: every tag
          MaxOps,       \* bound: calls of the clients' interfaces and calls through the slots
          BlockSize     \* trampolines per block of executable memory

\* The system never sets every bit of the 64.
ASSUME AllAssumption == All \notin TagValues
ASSUME BlockAssumption == BlockSize \in Nat \ {0}

VARIABLES linker,   \* of each client: enabled, initialised, run list, slot patched, room in its block
          tags,     \* *atrace_enabled_tags
          original, \* original_tags
          atrace,   \* first_enable, systrace_installed; thread_hooked
          work,     \* each thread's call into a client or through a slot
          finished, \* calls through the slots that have returned
          halted,   \* an uncaught exception or a null JNIEnv ended the process
          ops

clientVars == <<linker, tags, original, atrace, work, finished, halted, ops>>

Clients == {"atrace", "thread"}
Idle2 == [op |-> "none", pc |-> "", seen |-> All, list |-> <<>>, i |-> 0,
          fd |-> "", kernel |-> 0, logged |-> 0, clean |-> FALSE]

ClientsInit ==
    /\ \E on \in BOOLEAN :
          linker = [c \in Clients |-> [enabled |-> on, ready |-> FALSE, list |-> <<>>,
                                       patched |-> FALSE, room |-> 0, blocks |-> 0]]
    /\ tags \in TagValues /\ original = All
    /\ atrace = [first |-> TRUE, installed |-> FALSE, threads |-> FALSE]
    /\ work = [w \in Workers |-> Idle2] /\ finished = {}
    /\ halted = FALSE /\ ops = 0

Begin(w) == ~halted /\ work[w].op = "none" /\ ops < MaxOps /\ ops' = ops + 1
In(w, op, pc) == ~halted /\ work[w].op = op /\ work[w].pc = pc
Becomes(w, r) == work' = [work EXCEPT ![w] = r]
Returns(w) == Becomes(w, Idle2)

-----------------------------------------------------------------------------
(* The linker library, as its callers see it *)

\* linker_initialize: 1 when the library is disabled; repeated calls only look
\* for new libraries.
linker_initialize(lk) == IF lk.enabled THEN [lk EXCEPT !.ready = TRUE] ELSE lk

\* create_trampoline: out of the last block, or of a new one.
create_trampoline(lk) ==
    IF lk.room = 0 THEN [lk EXCEPT !.room = BlockSize - 1, !.blocks = @ + 1]
    ELSE [lk EXCEPT !.room = @ - 1]

\* hooks::add appends to a list that exists, without asking whether the hook is
\* in it; a new list starts with the original.
add(lk, hook) ==
    [lk EXCEPT !.list = IF lk.list = <<>> THEN <<"original", hook>> ELSE Append(@, hook)]

\* hook_plt_method on one slot: nothing when the library is unknown; a slot that
\* is not hooked yet gets a trampoline, and the patch may fail.
hook_plt_method(lk, hook, patches) ==
    IF ~lk.ready THEN lk
    ELSE IF lk.list # <<>> THEN add(lk, hook)
    ELSE [create_trampoline(add(lk, hook)) EXCEPT !.patched = patches]

\* get_previous_from_hook: below the first occurrence of the hook.
get_previous_from_hook(list, hook) == SelectInSeq(list, LAMBDA h : h = hook) - 1

-----------------------------------------------------------------------------
(* The systrace logger *)

\* installSystraceSnooper throws when a symbol or the descriptor is missing;
\* installSystraceHook catches.
Install(w) ==
    /\ Begin(w)
    /\ \/ Becomes(w, [Idle2 EXCEPT !.op = "install", !.pc = "hook"])
          /\ linker' = [linker EXCEPT !["atrace"] = linker_initialize(@)]
          /\ linker["atrace"].enabled
       \/ UNCHANGED <<work, linker>>
    /\ UNCHANGED <<tags, original, atrace, finished, halted>>

hookLoadedLibs(w) ==
    /\ In(w, "install", "hook")
    /\ \E patches \in BOOLEAN :
          linker' = [linker EXCEPT !["atrace"] = hook_plt_method(@, "write_hook", patches)]
    /\ Becomes(w, [work[w] EXCEPT !.pc = "installed"])
    /\ UNCHANGED <<tags, original, atrace, finished, halted, ops>>

Installed(w) ==
    /\ In(w, "install", "installed")
    /\ atrace' = [atrace EXCEPT !.installed = TRUE]
    /\ Returns(w)
    /\ UNCHANGED <<linker, tags, original, finished, halted, ops>>

\* enableSystrace: hooks again on every call but the first.
Enable(w) ==
    /\ Begin(w) /\ atrace.installed
    /\ linker' = IF atrace.first THEN linker
                 ELSE [linker EXCEPT !["atrace"] = hook_plt_method(@, "write_hook", TRUE)]
    /\ atrace' = [atrace EXCEPT !.first = FALSE]
    /\ work' = [v \in Workers |-> IF v = w THEN [Idle2 EXCEPT !.op = "enable", !.pc = "exchange"]
                                  ELSE [work[v] EXCEPT !.clean = FALSE]]
    /\ UNCHANGED <<tags, original, finished, halted>>

Exchange(w) ==
    /\ In(w, "enable", "exchange")
    /\ tags' = All
    /\ Becomes(w, [work[w] EXCEPT !.pc = "keep", !.seen = tags])
    /\ UNCHANGED <<linker, original, atrace, finished, halted, ops>>

\* Slip: the tags found are kept even when they are the ones set by an enable.
MutKeep(w) ==
    /\ In(w, "enable", "keep")
    /\ original' = work[w].seen
    /\ Returns(w)
    /\ UNCHANGED <<linker, tags, atrace, finished, halted, ops>>

Keep(w) ==
    /\ In(w, "enable", "keep")
    /\ original' = IF work[w].seen # All THEN work[w].seen ELSE original
    /\ Returns(w)
    /\ UNCHANGED <<linker, tags, atrace, finished, halted, ops>>

\* restoreSystrace: the load, then the store.  clean: no enable is under way, or
\* begins, while this runs, and one has completed.
Restore(w) ==
    /\ Begin(w) /\ atrace.installed
    /\ Becomes(w, [Idle2 EXCEPT !.op = "restore", !.pc = "store", !.seen = original,
                     !.clean = ~atrace.first /\ \A v \in Workers : work[v].op # "enable"])
    /\ UNCHANGED <<linker, tags, original, atrace, finished, halted>>

Store(w) ==
    /\ In(w, "restore", "store")
    /\ tags' = IF work[w].seen # All THEN work[w].seen ELSE tags
    /\ Returns(w)
    /\ UNCHANGED <<linker, original, atrace, finished, halted, ops>>

\* External: the system changes what is traced.
SetTags(v) ==
    /\ ~halted /\ ops < MaxOps /\ ops' = ops + 1
    /\ tags' = v
    /\ UNCHANGED <<linker, original, atrace, work, finished, halted>>

-----------------------------------------------------------------------------
(* The thread hook *)

\* enableThreadHook: the flag is set first; a failing linker is not retried, and
\* its exception is not caught.
enableThreadHook(w) ==
    /\ Begin(w)
    /\ IF atrace.threads THEN UNCHANGED <<atrace, linker, halted>>
       ELSE /\ atrace' = [atrace EXCEPT !.threads = TRUE]
            /\ halted' = ~linker["thread"].enabled
            /\ \E patches \in BOOLEAN :
                  linker' = [linker EXCEPT !["thread"] =
                      hook_plt_method(linker_initialize(@), "pthread_create_hook", patches)]
    /\ UNCHANGED <<work, tags, original, finished>>

-----------------------------------------------------------------------------
(* Calls through the slots *)

Client(fd) == IF fd = "create" THEN "thread" ELSE "atrace"

\* External: write on some descriptor, or pthread_create; the trampoline copies
\* the run list (push_hook_stack).
CallSlot(w, fd) ==
    /\ Begin(w)
    /\ LET lk == linker[Client(fd)]
           list == IF lk.patched THEN lk.list ELSE <<"original">>
       IN  Becomes(w, [Idle2 EXCEPT !.op = "call", !.fd = fd, !.list = list, !.i = Len(list)])
    /\ UNCHANGED <<linker, tags, original, atrace, finished, halted>>

Done(w, r) == Returns(w) /\ finished' = finished \cup {[fd |-> r.fd, kernel |-> r.kernel, logged |-> r.logged]}

Original(w) ==
    /\ ~halted /\ work[w].op = "call" /\ work[w].list[work[w].i] = "original"
    /\ Done(w, [work[w] EXCEPT !.kernel = @ + 1])
    /\ UNCHANGED <<linker, tags, original, atrace, halted, ops>>

\* What goes to the marker is the begin or end of a slice ('B', 'E') or another event.
should_log_systrace(w) == atrace.installed /\ work[w].fd \in {"slice", "event"}
log_systrace(w) == IF work[w].fd = "slice" THEN work[w].logged + 1 ELSE work[w].logged

\* Slip: what was logged is passed on as well.
MutWriteHook(w) ==
    /\ ~halted /\ work[w].op = "call" /\ work[w].list[work[w].i] = "write_hook"
    /\ Becomes(w, [work[w] EXCEPT !.i = get_previous_from_hook(work[w].list, "write_hook"),
                     !.logged = IF should_log_systrace(w) THEN log_systrace(w) ELSE @])
    /\ UNCHANGED <<linker, tags, original, atrace, finished, halted, ops>>

\* write_hook, and __write_chk_hook: everything for the marker is swallowed, also
\* what log_systrace does not print.
write_hook(w) ==
    /\ ~halted /\ work[w].op = "call" /\ work[w].list[work[w].i] = "write_hook"
    /\ IF should_log_systrace(w)
       THEN Done(w, [work[w] EXCEPT !.logged = log_systrace(w)])
       ELSE /\ Becomes(w, [work[w] EXCEPT !.i = get_previous_from_hook(work[w].list, "write_hook")])
            /\ finished' = finished
    /\ UNCHANGED <<linker, tags, original, atrace, halted, ops>>

\* printJavaStack uses the JNIEnv of the thread, which a thread that is not
\* attached does not have.
pthread_create_hook(w, attached) ==
    /\ ~halted /\ work[w].op = "call" /\ work[w].list[work[w].i] = "pthread_create_hook"
    /\ halted' = ~attached
    /\ Becomes(w, [work[w] EXCEPT !.logged = @ + 1,
                     !.i = get_previous_from_hook(work[w].list, "pthread_create_hook")])
    /\ UNCHANGED <<linker, tags, original, atrace, finished, ops>>

-----------------------------------------------------------------------------
ClientsNext ==
    \/ \E w \in Workers :
          \/ Install(w) \/ hookLoadedLibs(w) \/ Installed(w)
          \/ Enable(w) \/ Exchange(w) \/ Keep(w) \/ Restore(w) \/ Store(w)
          \/ enableThreadHook(w)
          \/ \E fd \in {"slice", "event", "other", "create"} : CallSlot(w, fd)
          \/ Original(w) \/ write_hook(w)
          \/ \E attached \in BOOLEAN : pthread_create_hook(w, attached)
    \/ \E v \in TagValues : SetTags(v)

ClientsSpec == ClientsInit /\ [][ClientsNext]_clientVars

(* However often the clients install and enable themselves while calls run, a   *)
(* write that is not for the marker reaches the kernel exactly once and is not  *)
(* logged, a thread is created exactly once, the begin or end of a slice is     *)
(* logged or written and not both, and any other event for the marker is        *)
(* written once until the logger is installed and never logged: from then on a  *)
(* hooked write of it is lost, though its caller is told it was written         *)
(* (ATraceLogger.cpp:41-88, threadHook.cpp:59-63).                              *)
HookedCallsOnce ==
    /\ \A f \in finished :
          CASE f.fd = "other"  -> f.kernel = 1 /\ f.logged = 0
            [] f.fd = "slice"  -> f.kernel + f.logged = 1 /\ (f.logged = 1 => atrace.installed)
            [] f.fd = "event"  -> f.logged = 0 /\ (f.kernel = 1 \/ (f.kernel = 0 /\ atrace.installed))
            [] f.fd = "create" -> f.kernel = 1 /\ f.logged <= 1
    /\ \A w \in Workers : work[w].op = "call" => work[w].i >= 1

(* A restore that follows an enable and overlaps none leaves the tags that the  *)
(* system set, not every tag (ATraceLogger.cpp:157-189).                        *)
TagsComeBack ==
    [][\A w \in Workers : Store(w) /\ work[w].clean => tags' # All]_clientVars
=============================================================================
