------------------------------ MODULE PltHook ------------------------------
(***************************************************************************)
(* PLT hooking: linker/linker.cpp, hooks.cpp and trampoline.cpp for one    *)
(* function of one library.  Threads hook and unhook it while other        *)
(* threads call it through its GOT slots.                                  *)
(*                                                                         *)
(* A hooked slot points to the trampoline of a hook id; the trampoline     *)
(* copies the run list of its id (the original function first, the hooks   *)
(* after it, oldest first) to a per-thread stack and calls the last entry, *)
(* and CALL_PREV walks the copy towards the original.  Hooks and unhooks   *)
(* hold g_got_modification_lock; callers take no lock but the reader locks *)
(* of get_run_list, so a hook id outlives the slot it was made for.        *)
(***************************************************************************)
EXTENDS Integers, Sequences, SequencesExt

CONSTANTS
  Orig,      \* the function itself
  Slots,     \* the GOT slots of the function (get_plt_relocations)
  Hooks,     \* hook functions
  Mutators,  \* threads that hook and unhook
  Callers,   \* threads that call the function
  MaxId,     \* bound: hook ids
  MaxList,   \* bound: entries of a run list
  MaxDepth,  \* bound: calls nested in each other
  MayFail,   \* BOOLEAN: trampolines may be refused and GOT pages stay read-only
  Repeats,   \* BOOLEAN: a hook may be installed where it already is
  NoOne

ASSUME BoundsAssumption == MaxId \in Nat /\ MaxList \in Nat /\ MaxDepth \in Nat
ASSUME NoOneAssumption == NoOne \notin Mutators \cup Hooks \cup Slots
ASSUME NamesAssumption == Orig \notin Hooks \cup Nat /\ Hooks \cap Nat = {}

Ids == 1 .. MaxId

\* What a GOT slot or a run list can hold: the original function, a hook, or
\* the trampoline of an id.
Codes == {Orig} \cup Hooks \cup Ids

VARIABLES
  got,      \* got[s]: the code slot s points to
  byGot,    \* hooks_by_got_address: got address -> id, 0 if not there
  list,     \* hooks_by_id: id -> hooks, <<>> if not there
  nextId,   \* next_id
  lock,     \* g_got_modification_lock
  mpc,      \* where a mutator stands
  mhook,    \* its spec->hook_fn
  mtodo,    \* the slots its loop has not come to yet
  mslot,    \* the slot it is at
  pend,     \* pend[c]: a call that jumped to a trampoline that has not pushed
  calls,    \* calls[c]: the calls c is in, innermost last
  dead,     \* reason of abortWithReason, or "no"
  promised, \* history: <<s, h>>: hooking s with h succeeded, nobody unhooks h
  failed    \* history: slots registered without having been patched

table == <<got, byGot, list, nextId>>
mutVars == <<lock, mpc, mhook, mtodo, mslot>>
callVars == <<pend, calls>>
history == <<promised, failed>>
vars == <<got, byGot, list, nextId, lock, mpc, mhook, mtodo, mslot, pend,
          calls, dead, promised, failed>>

NoCall == [id |-> 0, patched |-> TRUE, must |-> {}]

Init ==
  /\ got = [s \in Slots |-> Orig]
  /\ byGot = [s \in Slots |-> 0]
  /\ list = [i \in Ids |-> <<>>]
  /\ nextId = 1
  /\ lock = NoOne
  /\ mpc = [m \in Mutators |-> "idle"]
  /\ mhook = [m \in Mutators |-> NoOne]
  /\ mtodo = [m \in Mutators |-> {}]
  /\ mslot = [m \in Mutators |-> NoOne]
  /\ pend = [c \in Callers |-> NoCall]
  /\ calls = [c \in Callers |-> <<>>]
  /\ dead = "no"
  /\ promised = {}
  /\ failed = {}

At(m, label) == dead = "no" /\ mpc[m] = label

Goto(m, label) == mpc' = [mpc EXCEPT ![m] = label]

\* The routine ends, its locals go out of scope.
Return(m) ==
  /\ Goto(m, "idle")
  /\ mhook' = [mhook EXCEPT ![m] = NoOne]
  /\ mtodo' = [mtodo EXCEPT ![m] = {}]
  /\ mslot' = [mslot EXCEPT ![m] = NoOne]

is_hooked(s) == byGot[s] # 0

-----------------------------------------------------------------------------
(* hook_single_lib *)

\* h is on no run list and nobody is about to put it there.
Fresh(h) ==
  /\ \A s \in Slots : is_hooked(s) => ~ Contains(list[byGot[s]], h)
  /\ \A m \in Mutators : mpc[m] # "idle" => mhook[m] # h

HookCall(m, h) ==
  /\ At(m, "idle")
  /\ Repeats \/ Fresh(h)
  /\ mhook' = [mhook EXCEPT ![m] = h]
  /\ mtodo' = [mtodo EXCEPT ![m] = Slots]
  /\ Goto(m, "next")
  /\ UNCHANGED <<table, lock, mslot, callVars, dead, history>>

\* verify_got_entry_for_spec: no checks if the slot is hooked already ...
HookVerify(m, s) ==
  /\ At(m, "next")
  /\ s \in mtodo[m]
  /\ mtodo' = [mtodo EXCEPT ![m] = @ \ {s}]
  /\ mslot' = [mslot EXCEPT ![m] = s]
  /\ Goto(m, IF is_hooked(s) THEN "lock" ELSE "check")
  /\ UNCHANGED <<table, lock, mhook, callVars, dead, history>>

\* ... otherwise, still without a lock, dladdr must find the function at
\* *got_addr; a trampoline put there meanwhile belongs to no library.
HookCheck(m) ==
  /\ At(m, "check")
  /\ Goto(m, IF got[mslot[m]] = Orig THEN "lock" ELSE "next")
  /\ UNCHANGED <<table, lock, mhook, mtodo, mslot, callVars, dead, history>>

\* patch_relocation_address_for_hook asks again, under the lock (the bounds
\* stop here, before it is taken).
HookLock(m) ==
  /\ At(m, "lock")
  /\ lock = NoOne
  /\ IF is_hooked(mslot[m])
       THEN Len(list[byGot[mslot[m]]]) < MaxList
       ELSE nextId \in Ids
  /\ lock' = m
  /\ Goto(m, IF is_hooked(mslot[m]) THEN "append" ELSE "register")
  /\ UNCHANGED <<table, mhook, mtodo, mslot, callVars, dead, history>>

Unhooking(h) ==
  \E m \in Mutators :
    mpc[m] \in {"ulock", "unext", "restore", "forget"} /\ mhook[m] = h

\* Hooking the slot has succeeded.
Promise(m) ==
  promised' = IF Unhooking(mhook[m])
                THEN promised
                ELSE promised \cup {<<mslot[m], mhook[m]>>}

\* hooks::add: ALREADY_HOOKED_APPENDED
HookAppend(m) ==
  LET id == byGot[mslot[m]] IN
  /\ At(m, "append")
  /\ list' = [list EXCEPT ![id] = Append(@, mhook[m])]
  /\ lock' = NoOne
  /\ Promise(m)
  /\ Goto(m, "next")
  /\ UNCHANGED <<got, byGot, nextId, mhook, mtodo, mslot, callVars, dead, failed>>

\* Slip: the lock is given up before the slot is patched.
MutRegisterUnlocks(m) ==
  LET s == mslot[m] IN
  /\ At(m, "register")
  /\ nextId' = nextId + 1
  /\ byGot' = [byGot EXCEPT ![s] = nextId]
  /\ list' = [list EXCEPT ![nextId] = <<got[s], mhook[m]>>]
  /\ lock' = NoOne
  /\ Goto(m, "patch")
  /\ UNCHANGED <<got, mhook, mtodo, mslot, callVars, dead, history>>

\* hooks::add: NEW_HOOK, whatever *plt_got_entry is becomes the original.
HookRegister(m) ==
  LET s == mslot[m] IN
  /\ At(m, "register")
  /\ nextId' = nextId + 1
  /\ byGot' = [byGot EXCEPT ![s] = nextId]
  /\ list' = [list EXCEPT ![nextId] = <<got[s], mhook[m]>>]
  /\ Goto(m, "patch")
  /\ UNCHANGED <<got, lock, mhook, mtodo, mslot, callVars, dead, history>>

\* create_trampoline, and unsafe_patch_relocation_address makes the slot
\* point to it.
HookPatch(m) ==
  LET s == mslot[m] IN
  /\ At(m, "patch")
  /\ got' = [got EXCEPT ![s] = byGot[s]]
  /\ lock' = NoOne
  /\ Promise(m)
  /\ Goto(m, "next")
  /\ UNCHANGED <<byGot, list, nextId, mhook, mtodo, mslot, callVars, dead, failed>>

\* The slot cannot be written (go on with the next one), or there is no
\* trampoline to be had (an exception that leaves hook_single_lib).
HookPatchFail(m) ==
  /\ MayFail
  /\ At(m, "patch")
  /\ lock' = NoOne
  /\ failed' = failed \cup {mslot[m]}
  /\ \/ Goto(m, "next") /\ UNCHANGED <<mhook, mtodo, mslot>>
     \/ Return(m)
  /\ UNCHANGED <<table, callVars, dead, promised>>

\* mprotect cannot make the page read-only again.
PatchAbort(m) ==
  /\ MayFail
  /\ mpc[m] \in {"patch", "restore"}
  /\ dead = "no"
  /\ dead' = "mprotect"
  /\ UNCHANGED <<table, mutVars, callVars, history>>

HookReturn(m) ==
  /\ At(m, "next")
  /\ mtodo[m] = {}
  /\ Return(m)
  /\ UNCHANGED <<table, lock, callVars, dead, history>>

-----------------------------------------------------------------------------
(* unhook_single_lib *)

UnhookCall(m, h) ==
  /\ At(m, "idle")
  /\ mhook' = [mhook EXCEPT ![m] = h]
  /\ mtodo' = [mtodo EXCEPT ![m] = Slots]
  /\ promised' = {p \in promised : p[2] # h}
  /\ pend' = [c \in Callers |-> [pend[c] EXCEPT !.must = @ \ {h}]]
  /\ Goto(m, "ulock")
  /\ UNCHANGED <<table, lock, mslot, calls, dead, failed>>

\* One lock for all the slots.
UnhookLock(m) ==
  /\ At(m, "ulock")
  /\ lock = NoOne
  /\ lock' = m
  /\ Goto(m, "unext")
  /\ UNCHANGED <<table, mhook, mtodo, mslot, callVars, dead, history>>

\* hooks::remove may take hook h out of run list l: it is there, and not as
\* the original function.
Removable(l, h) == Len(l) > 1 /\ Contains(l, h) /\ l[1] # h

\* Slip: the newest hook is popped instead of the one asked for.
MutErasesNewest(l, h) == Front(l)

\* What hooks::remove leaves of run list l: std::find and erase.
Removed(l, h) == RemoveFirst(l, h)

\* Not hooked, WRONG_HOOK_INFO, REMOVED_STILL_HOOKED or REMOVED_TRIVIAL.
UnhookSlot(m, s) ==
  LET id == byGot[s]
      rest == Removed(list[id], mhook[m])
  IN
  /\ At(m, "unext")
  /\ s \in mtodo[m]
  /\ mtodo' = [mtodo EXCEPT ![m] = @ \ {s}]
  /\ mslot' = [mslot EXCEPT ![m] = s]
  /\ IF is_hooked(s) /\ Removable(list[id], mhook[m])
       THEN /\ list' = [list EXCEPT ![id] = rest]
            /\ Goto(m, IF Len(rest) = 1 THEN "restore" ELSE "unext")
       ELSE UNCHANGED <<list, mpc>>
  /\ UNCHANGED <<got, byGot, nextId, lock, mhook, callVars, dead, history>>

\* Only the original is left: the slot gets it back ...
UnhookRestore(m) ==
  LET s == mslot[m] IN
  /\ At(m, "restore")
  /\ got' = [got EXCEPT ![s] = list[byGot[s]][1]]
  /\ Goto(m, "forget")
  /\ UNCHANGED <<byGot, list, nextId, lock, mhook, mtodo, mslot, callVars, dead,
                 history>>

\* ... or abortWithReason("Unable to unhook GOT slot").
UnhookRestoreFail(m) ==
  /\ MayFail
  /\ At(m, "restore")
  /\ dead' = "unhook"
  /\ UNCHANGED <<table, mutVars, callVars, history>>

\* Slip: the entry of hooks_by_id goes too.
MutUnhookForgetsId(m) ==
  LET s == mslot[m] IN
  /\ At(m, "forget")
  /\ byGot' = [byGot EXCEPT ![s] = 0]
  /\ list' = [list EXCEPT ![byGot[s]] = <<>>]
  /\ failed' = failed \ {s}
  /\ Goto(m, "unext")
  /\ UNCHANGED <<got, nextId, lock, mhook, mtodo, mslot, callVars, dead, promised>>

\* hooks::remove of the original: REMOVED_FULLY takes the slot out of
\* hooks_by_got_address and leaves hooks_by_id alone.
UnhookForget(m) ==
  LET s == mslot[m] IN
  /\ At(m, "forget")
  /\ IF Len(list[byGot[s]]) = 1
       THEN /\ byGot' = [byGot EXCEPT ![s] = 0]
            /\ failed' = failed \ {s}
            /\ UNCHANGED dead
       ELSE /\ dead' = "modified"
            /\ UNCHANGED <<byGot, failed>>
  /\ Goto(m, "unext")
  /\ UNCHANGED <<got, list, nextId, lock, mhook, mtodo, mslot, callVars, promised>>

UnhookReturn(m) ==
  /\ At(m, "unext")
  /\ mtodo[m] = {}
  /\ lock' = NoOne
  /\ Return(m)
  /\ UNCHANGED <<table, callVars, dead, history>>

-----------------------------------------------------------------------------
(* Calling the function *)

\* c may call: from outside, or from inside a function that runs.
MayCall(c) == dead = "no" /\ pend[c] = NoCall /\ Len(calls[c]) < MaxDepth

\* Hooks that a call through s must run.
Must(s) == {h \in Hooks : <<s, h>> \in promised}

\* The slot holds the original function.
CallOriginal(c, s) ==
  /\ MayCall(c)
  /\ got[s] = Orig
  /\ calls' = [calls EXCEPT ![c] =
       Append(@, [tls |-> FALSE, list |-> <<Orig>>, chain |-> <<Orig>>,
                  patched |-> s \notin failed, must |-> Must(s)])]
  /\ UNCHANGED <<table, mutVars, pend, dead, history>>

\* The slot holds a trampoline: jump to it ...
CallTrampoline(c, s) ==
  /\ MayCall(c)
  /\ got[s] \in Ids
  /\ pend' = [pend EXCEPT ![c] =
       [id |-> got[s], patched |-> s \notin failed, must |-> Must(s)]]
  /\ UNCHANGED <<table, mutVars, calls, dead, history>>

\* ... push_hook_stack copies the run list and calls its last entry.
push_hook_stack(c) ==
  LET run == list[pend[c].id] IN
  /\ dead = "no"
  /\ pend[c] # NoCall
  /\ IF run = <<>>
       THEN /\ dead' = "empty run list"
            /\ UNCHANGED calls
       ELSE /\ calls' = [calls EXCEPT ![c] =
                 Append(@, [tls |-> TRUE, list |-> run, chain |-> <<Last(run)>>,
                            patched |-> pend[c].patched, must |-> pend[c].must])]
            /\ UNCHANGED dead
  /\ pend' = [pend EXCEPT ![c] = NoCall]
  /\ UNCHANGED <<table, mutVars, history>>

\* The position CALL_PREV finds: std::find, 0 if absent.
Position(l, h) == SelectInSeq(l, LAMBDA x : x = h)

\* get_previous_from_hook
Previous(l, h) == l[Position(l, h) - 1]

\* A running hook calls CALL_PREV.
CallPrev(c) ==
  LET top == Last(calls[c])
      hook == Last(top.chain)
  IN
  /\ dead = "no"
  /\ pend[c] = NoCall
  /\ calls[c] # <<>>
  /\ hook \in Hooks
  /\ IF top.tls /\ Position(top.list, hook) > 1
       THEN /\ calls' = [calls EXCEPT ![c] = Append(Front(@),
                 [top EXCEPT !.chain = Append(@, Previous(top.list, hook))])]
            /\ UNCHANGED dead
       ELSE /\ dead' = "CALL_PREV"
            /\ UNCHANGED calls
  /\ UNCHANGED <<table, mutVars, pend, history>>

\* The function that runs returns; pop_hook_stack when it was the outermost
\* of its call.
FunctionReturn(c) ==
  LET top == Last(calls[c]) IN
  /\ dead = "no"
  /\ pend[c] = NoCall
  /\ calls[c] # <<>>
  /\ calls' = [calls EXCEPT ![c] =
       IF Len(top.chain) = 1
         THEN Front(@)
         ELSE Append(Front(@), [top EXCEPT !.chain = Front(@)])]
  /\ UNCHANGED <<table, mutVars, pend, dead, history>>

-----------------------------------------------------------------------------

MutatorStep(m) ==
  \/ \E s \in Slots : HookVerify(m, s) \/ UnhookSlot(m, s)
  \/ HookCheck(m) \/ HookLock(m) \/ HookAppend(m) \/ HookRegister(m)
  \/ HookPatch(m) \/ HookPatchFail(m) \/ PatchAbort(m) \/ HookReturn(m)
  \/ UnhookLock(m) \/ UnhookRestore(m) \/ UnhookRestoreFail(m)
  \/ UnhookForget(m) \/ UnhookReturn(m)

CallStep(c) == push_hook_stack(c) \/ CallPrev(c) \/ FunctionReturn(c)

Next ==
  \/ \E m \in Mutators :
       \/ \E h \in Hooks : HookCall(m, h) \/ UnhookCall(m, h)
       \/ MutatorStep(m)
  \/ \E c \in Callers :
       \/ \E s \in Slots : CallOriginal(c, s) \/ CallTrampoline(c, s)
       \/ CallStep(c)

SafeSpec == Init /\ [][Next]_vars

-----------------------------------------------------------------------------
(* Properties *)

TypeOK ==
  /\ got \in [Slots -> Codes]
  /\ byGot \in [Slots -> 0 .. MaxId]
  /\ list \in [Ids -> Seq(Codes)]
  /\ nextId \in 1 .. (MaxId + 1)
  /\ lock \in Mutators \cup {NoOne}
  /\ mpc \in [Mutators -> {"idle", "next", "check", "lock", "append",
                           "register", "patch", "ulock", "unext", "restore",
                           "forget"}]
  /\ mhook \in [Mutators -> Hooks \cup {NoOne}]
  /\ mtodo \in [Mutators -> SUBSET Slots]
  /\ mslot \in [Mutators -> Slots \cup {NoOne}]
  /\ dead \in {"no", "mprotect", "unhook", "modified", "empty run list",
               "CALL_PREV"}
  /\ promised \subseteq Slots \X Hooks
  /\ failed \subseteq Slots

\* Every run list ends in the original function with nothing but hooks before
\* it, so re-hooking never takes a trampoline for the original and no call goes
\* round in circles; and while nobody modifies the GOT, a slot that points to a
\* trampoline points to the one registered for it, with a hook to run
\* (linker.cpp:154-194, 290-318).
GotMatchesIndex ==
  /\ \A i \in Ids : list[i] # <<>> =>
       /\ list[i][1] = Orig
       /\ \A k \in 2 .. Len(list[i]) : list[i][k] \in Hooks
  /\ lock = NoOne =>
       \A s \in Slots :
         got[s] # Orig => byGot[s] = got[s] /\ Len(list[got[s]]) > 1

\* Whatever hooks and unhooks a call races with, it never meets the conditions
\* that trampoline.cpp and linker.cpp abort on as impossible.
NoImpossibleAbort ==
  dead \notin {"modified", "empty run list", "CALL_PREV"}

\* The call has gone all the way to the original function.
Complete(call) == Last(call.chain) = Orig

\* Within one call every hook runs at most once, newest first, and a call that
\* begins after hooking succeeded and reaches the original before anybody
\* unhooks has run the hook on its way, on slots that were patched when they
\* were registered (trampoline.cpp:120-251).
HooksRun ==
  \A c \in Callers : \A k \in 1 .. Len(calls[c]) :
    LET call == calls[c][k] IN
    /\ \A i, j \in 1 .. Len(call.chain) :
         i < j => \E a, b \in 1 .. Len(call.list) :
                    /\ a > b
                    /\ call.list[a] = call.chain[i]
                    /\ call.list[b] = call.chain[j]
    /\ Complete(call) /\ call.patched => call.must \subseteq ToSet(call.chain)

\* linker.h: hooking is "effectively hijacking all invocations of given
\* function in given library. Returns 0 on success".
SuccessHijacks ==
  \A c \in Callers : \A k \in 1 .. Len(calls[c]) :
    LET call == calls[c][k] IN
    Complete(call) => call.must \subseteq ToSet(call.chain)
=============================================================================
