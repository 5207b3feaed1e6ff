------------------------------- MODULE Sigmux -------------------------------
(***************************************************************************)
(* The registration list of linker/sigmux.c.  Handlers are executions of   *)
(* sigmux_handle_signal (threads hit by a signal); they walk the list with *)
(* no lock, inside a phaser section.  Mutators are threads in              *)
(* sigmux_register and sigmux_unregister, serialised by                    *)
(* sigmux_global.lock.  The phaser appears as its abstract specification   *)
(* GracePeriod, which Phaser implements.                                   *)
(*                                                                         *)
(* Regs are heap addresses: a freed registration may be handed out again   *)
(* by calloc.  Writes a reader cannot see (prev pointers, the fields of a  *)
(* registration not yet published) happen with the write it can see.       *)
(***************************************************************************)
EXTENDS Integers, FiniteSets

CONSTANTS
  Handlers,  \* executions of sigmux_handle_signal
  Mutators,  \* threads calling sigmux_register / sigmux_unregister
  Regs,      \* addresses a struct sigmux_registration can have
  Signals,   \* signal numbers that sigmux_init was called on
  FlagSets,  \* the FLAGS arguments of sigmux_handle_signal, as sets of names
  Head,      \* &sigmux_global.handlers
  NoOne      \* the lock is free

Passes == {"normal", "low", "default"}

ASSUME HeadAssumption == Head \notin Regs
ASSUME NoOneAssumption == NoOne \notin Mutators
ASSUME SignalsAssumption == Signals # {}
ASSUME FlagsAssumption == FlagSets \subseteq SUBSET Passes

Nodes == Regs \cup {Head}

AnySignal == CHOOSE s \in Signals : TRUE

VARIABLES
  next, prev,     \* the links of every node
  mem,            \* mem[r]: "free", "fresh" (allocated), "linked", "unlinked"
  low,            \* low[r]: registered with SIGMUX_LOW_PRIORITY
  signals,        \* signals[r]: the signals registered for
  older,          \* history: older[r]: registered before r and still in the list
  cookies,        \* registrations returned to a caller and not yet given back
  lock,           \* holder of sigmux_global.lock
  mpc, mreg,      \* where a mutator stands, and its reg
  active, draining, owed,  \* the phaser: see GracePeriod
  hpc,            \* where a handler stands
  sig, flags,     \* its signum and FLAGS
  pass,           \* the priority pass it is in
  reglist, it,    \* the head it loaded, and its iterator
  must,           \* history: matching registrations linked since its load
  ran             \* history: registrations whose handler it called

listVars == <<next, prev, mem, low, signals, older>>
mutVars == <<cookies, lock, mpc, mreg>>
gpState == <<active, draining, owed>>
handlerVars == <<hpc, sig, flags, pass, reglist, it, must, ran>>
vars == <<next, prev, mem, low, signals, older, cookies, lock, mpc, mreg,
          active, draining, owed,
          hpc, sig, flags, pass, reglist, it, must, ran>>

GP == INSTANCE GracePeriod WITH Readers <- Handlers

Init ==
  /\ next = [n \in Nodes |-> Head]
  /\ prev = [n \in Nodes |-> Head]
  /\ mem = [r \in Regs |-> "free"]
  /\ low = [r \in Regs |-> FALSE]
  /\ signals = [r \in Regs |-> {}]
  /\ older = [r \in Regs |-> {}]
  /\ cookies = {}
  /\ lock = NoOne
  /\ mpc = [m \in Mutators |-> "idle"]
  /\ mreg = [m \in Mutators |-> Head]
  /\ GP!GPInit
  /\ hpc = [h \in Handlers |-> "idle"]
  /\ sig = [h \in Handlers |-> AnySignal]
  /\ flags = [h \in Handlers |-> {}]
  /\ pass = [h \in Handlers |-> "normal"]
  /\ reglist = [h \in Handlers |-> Head]
  /\ it = [h \in Handlers |-> Head]
  /\ must = [h \in Handlers |-> {}]
  /\ ran = [h \in Handlers |-> {}]

Linked == {r \in Regs : mem[r] = "linked"}

Priority(r) == IF low[r] THEN "low" ELSE "normal"

-----------------------------------------------------------------------------
(* sigmux_register *)

\* calloc (of any free address) and the fields, before the lock is taken.
RegisterAlloc(m) ==
  /\ mpc[m] = "idle"
  /\ \E r \in Regs, isLow \in BOOLEAN, sigs \in SUBSET Signals :
       /\ mem[r] = "free"
       /\ mem' = [mem EXCEPT ![r] = "fresh"]
       /\ low' = [low EXCEPT ![r] = isLow]
       /\ signals' = [signals EXCEPT ![r] = sigs]
       /\ mreg' = [mreg EXCEPT ![m] = r]
  /\ mpc' = [mpc EXCEPT ![m] = "register"]
  /\ UNCHANGED <<next, prev, older, cookies, lock, gpState, handlerVars>>

RegisterLock(m) ==
  /\ mpc[m] = "register"
  /\ lock = NoOne
  /\ lock' = m
  /\ mpc' = [mpc EXCEPT ![m] = "publish"]
  /\ UNCHANGED <<listVars, cookies, mreg, gpState, handlerVars>>

\* Slip: the store that publishes the registration comes before the store of
\* its own next pointer.
MutPublishNoNext(m) ==
  LET r == mreg[m] IN
  /\ mpc[m] = "publish"
  /\ next' = [next EXCEPT ![Head] = r]
  /\ prev' = [prev EXCEPT ![r] = Head, ![next[Head]] = r]
  /\ mem' = [mem EXCEPT ![r] = "linked"]
  /\ older' = [older EXCEPT ![r] = Linked]
  /\ mpc' = [mpc EXCEPT ![m] = "registered"]
  /\ UNCHANGED <<low, signals, cookies, lock, mreg, gpState, handlerVars>>

\* Slip: the registration is appended, not prepended.
MutPublishAtTail(m) ==
  LET r == mreg[m] IN
  /\ mpc[m] = "publish"
  /\ next' = [next EXCEPT ![r] = Head, ![prev[Head]] = r]
  /\ prev' = [prev EXCEPT ![r] = prev[Head], ![Head] = r]
  /\ mem' = [mem EXCEPT ![r] = "linked"]
  /\ older' = [older EXCEPT ![r] = Linked]
  /\ mpc' = [mpc EXCEPT ![m] = "registered"]
  /\ UNCHANGED <<low, signals, cookies, lock, mreg, gpState, handlerVars>>

\* The four stores; the release store to handlers.next makes them visible.
RegisterPublish(m) ==
  LET r == mreg[m] IN
  /\ mpc[m] = "publish"
  /\ next' = [next EXCEPT ![r] = next[Head], ![Head] = r]
  /\ prev' = [prev EXCEPT ![r] = Head, ![next[Head]] = r]
  /\ mem' = [mem EXCEPT ![r] = "linked"]
  /\ older' = [older EXCEPT ![r] = Linked]
  /\ mpc' = [mpc EXCEPT ![m] = "registered"]
  /\ UNCHANGED <<low, signals, cookies, lock, mreg, gpState, handlerVars>>

\* Unlock and return the cookie.
RegisterReturn(m) ==
  /\ mpc[m] = "registered"
  /\ lock' = NoOne
  /\ cookies' = cookies \cup {mreg[m]}
  /\ mreg' = [mreg EXCEPT ![m] = Head]
  /\ mpc' = [mpc EXCEPT ![m] = "idle"]
  /\ UNCHANGED <<listVars, gpState, handlerVars>>

-----------------------------------------------------------------------------
(* sigmux_unregister *)

\* A cookie is given back once, by whoever holds it.
UnregisterCall(m) ==
  /\ mpc[m] = "idle"
  /\ \E r \in cookies :
       /\ cookies' = cookies \ {r}
       /\ mreg' = [mreg EXCEPT ![m] = r]
  /\ mpc' = [mpc EXCEPT ![m] = "unregister"]
  /\ UNCHANGED <<listVars, lock, gpState, handlerVars>>

UnregisterLock(m) ==
  /\ mpc[m] = "unregister"
  /\ lock = NoOne
  /\ lock' = m
  /\ mpc' = [mpc EXCEPT ![m] = "unlink"]
  /\ UNCHANGED <<listVars, cookies, mreg, gpState, handlerVars>>

\* Slip: only the backward link is repaired, readers still reach r.
MutUnlinkPrevOnly(m) ==
  LET r == mreg[m] IN
  /\ mpc[m] = "unlink"
  /\ prev' = [prev EXCEPT ![next[r]] = prev[r]]
  /\ mem' = [mem EXCEPT ![r] = "unlinked"]
  /\ older' = [k \in Regs |-> older[k] \ {r}]
  /\ must' = [h \in Handlers |-> must[h] \ {r}]
  /\ mpc' = [mpc EXCEPT ![m] = "drain"]
  /\ UNCHANGED <<next, low, signals, cookies, lock, mreg, gpState,
                 hpc, sig, flags, pass, reglist, it, ran>>

UnregisterUnlink(m) ==
  LET r == mreg[m] IN
  /\ mpc[m] = "unlink"
  /\ next' = [next EXCEPT ![prev[r]] = next[r]]
  /\ prev' = [prev EXCEPT ![next[r]] = prev[r]]
  /\ mem' = [mem EXCEPT ![r] = "unlinked"]
  /\ older' = [k \in Regs |-> older[k] \ {r}]
  /\ must' = [h \in Handlers |-> must[h] \ {r}]
  /\ mpc' = [mpc EXCEPT ![m] = "drain"]
  /\ UNCHANGED <<low, signals, cookies, lock, mreg, gpState,
                 hpc, sig, flags, pass, reglist, it, ran>>

\* Slip: phaser_drain is called on nothing; unlock at once.
MutNoDrain(m) ==
  /\ mpc[m] = "drain"
  /\ mpc' = [mpc EXCEPT ![m] = "drained"]
  /\ UNCHANGED <<listVars, cookies, lock, mreg, gpState, handlerVars>>

UnregisterDrain(m) ==
  /\ mpc[m] = "drain"
  /\ GP!DrainBegin
  /\ mpc' = [mpc EXCEPT ![m] = "draining"]
  /\ UNCHANGED <<listVars, cookies, lock, mreg, handlerVars>>

UnregisterDrained(m) ==
  /\ mpc[m] = "draining"
  /\ GP!DrainReturn
  /\ mpc' = [mpc EXCEPT ![m] = "drained"]
  /\ UNCHANGED <<listVars, cookies, lock, mreg, handlerVars>>

UnregisterUnlock(m) ==
  /\ mpc[m] = "drained"
  /\ lock' = NoOne
  /\ mpc' = [mpc EXCEPT ![m] = "free"]
  /\ UNCHANGED <<listVars, cookies, mreg, gpState, handlerVars>>

\* free(reg), outside the lock; what the block held is forgotten.
UnregisterFree(m) ==
  LET r == mreg[m] IN
  /\ mpc[m] = "free"
  /\ mem' = [mem EXCEPT ![r] = "free"]
  /\ next' = [next EXCEPT ![r] = Head]
  /\ prev' = [prev EXCEPT ![r] = Head]
  /\ low' = [low EXCEPT ![r] = FALSE]
  /\ signals' = [signals EXCEPT ![r] = {}]
  /\ older' = [older EXCEPT ![r] = {}]
  /\ mreg' = [mreg EXCEPT ![m] = Head]
  /\ mpc' = [mpc EXCEPT ![m] = "idle"]
  /\ UNCHANGED <<cookies, lock, gpState, handlerVars>>

-----------------------------------------------------------------------------
(* sigmux_handle_signal *)

\* sigmux_handle_signal is left: its locals are gone.
Leave(h) ==
  /\ hpc' = [hpc EXCEPT ![h] = "idle"]
  /\ pass' = [pass EXCEPT ![h] = "normal"]
  /\ reglist' = [reglist EXCEPT ![h] = Head]
  /\ it' = [it EXCEPT ![h] = Head]
  /\ must' = [must EXCEPT ![h] = {}]
  /\ ran' = [ran EXCEPT ![h] = {}]
  /\ sig' = [sig EXCEPT ![h] = AnySignal]
  /\ flags' = [flags EXCEPT ![h] = {}]

\* A signal arrives; phaser_enter.
HandlerEnter(h) ==
  /\ hpc[h] = "idle"
  /\ GP!SectionEnter(h)
  /\ \E s \in Signals, f \in FlagSets :
       /\ sig' = [sig EXCEPT ![h] = s]
       /\ flags' = [flags EXCEPT ![h] = f]
  /\ hpc' = [hpc EXCEPT ![h] = "load"]
  /\ UNCHANGED <<listVars, mutVars, pass, reglist, it, must, ran>>

\* reglist = handlers.next, read once for both passes.
HandlerLoad(h) ==
  /\ hpc[h] = "load"
  /\ reglist' = [reglist EXCEPT ![h] = next[Head]]
  /\ it' = [it EXCEPT ![h] = next[Head]]
  /\ pass' = [pass EXCEPT ![h] = "normal"]
  /\ must' = [must EXCEPT ![h] =
                {r \in Linked : sig[h] \in signals[r] /\ Priority(r) \in flags[h]}]
  /\ hpc' = [hpc EXCEPT ![h] = "walk"]
  /\ UNCHANGED <<listVars, mutVars, gpState, sig, flags, ran>>

PassOver(h) == it[h] = Head \/ pass[h] \notin flags[h]

Matches(h) == pass[h] = Priority(it[h]) /\ sig[h] \in signals[it[h]]

\* A registration that is not for this pass or signal: it = it->next.
WalkSkip(h) ==
  /\ hpc[h] = "walk"
  /\ ~PassOver(h)
  /\ ~Matches(h)
  /\ it' = [it EXCEPT ![h] = next[it[h]]]
  /\ UNCHANGED <<listVars, mutVars, gpState, hpc, sig, flags, pass, reglist,
                 must, ran>>

\* reg->handler(&siginfo, reg->handler_data) is called ...
WalkInvoke(h) ==
  /\ hpc[h] = "walk"
  /\ ~PassOver(h)
  /\ Matches(h)
  /\ ran' = [ran EXCEPT ![h] = @ \cup {it[h]}]
  /\ hpc' = [hpc EXCEPT ![h] = "invoke"]
  /\ UNCHANGED <<listVars, mutVars, gpState, sig, flags, pass, reglist, it,
                 must>>

\* ... and returns SIGMUX_CONTINUE_SEARCH: it = it->next ...
InvokeSearch(h) ==
  /\ hpc[h] = "invoke"
  /\ it' = [it EXCEPT ![h] = next[it[h]]]
  /\ hpc' = [hpc EXCEPT ![h] = "walk"]
  /\ UNCHANGED <<listVars, mutVars, gpState, sig, flags, pass, reglist, must,
                 ran>>

\* ... or SIGMUX_CONTINUE_EXECUTION: both loops end.
InvokeExecute(h) ==
  /\ hpc[h] = "invoke"
  /\ hpc' = [hpc EXCEPT ![h] = "handled"]
  /\ UNCHANGED <<listVars, mutVars, gpState, sig, flags, pass, reglist, it,
                 must, ran>>

\* Slip: siglongjmp is called without phaser_exit.
MutLongjmpNoExit(h) ==
  /\ hpc[h] = "invoke"
  /\ Leave(h)
  /\ UNCHANGED <<listVars, mutVars, gpState>>

\* ... or leaves through sigmux_longjmp, which calls phaser_exit first.
InvokeLongjmp(h) ==
  /\ hpc[h] = "invoke"
  /\ GP!SectionExit(h)
  /\ Leave(h)
  /\ UNCHANGED <<listVars, mutVars>>

\* The normal pass is over: the low-priority pass starts at reglist again.
WalkNextPass(h) ==
  /\ hpc[h] = "walk"
  /\ PassOver(h)
  /\ pass[h] = "normal"
  /\ pass' = [pass EXCEPT ![h] = "low"]
  /\ it' = [it EXCEPT ![h] = reglist[h]]
  /\ UNCHANGED <<listVars, mutVars, gpState, hpc, sig, flags, reglist, must,
                 ran>>

\* No handler took the signal (next_handler is copied here: SigmuxAction).
WalkEnd(h) ==
  /\ hpc[h] = "walk"
  /\ PassOver(h)
  /\ pass[h] = "low"
  /\ hpc' = [hpc EXCEPT ![h] = "unhandled"]
  /\ UNCHANGED <<listVars, mutVars, gpState, sig, flags, pass, reglist, it,
                 must, ran>>

\* phaser_exit, and return (or invoke_sighandler on the local copy).
HandlerExit(h) ==
  /\ hpc[h] \in {"handled", "unhandled"}
  /\ GP!SectionExit(h)
  /\ Leave(h)
  /\ UNCHANGED <<listVars, mutVars>>

-----------------------------------------------------------------------------

RegisterStep(m) == RegisterLock(m) \/ RegisterPublish(m) \/ RegisterReturn(m)

UnregisterStep(m) ==
  \/ UnregisterLock(m)
  \/ UnregisterUnlink(m)
  \/ UnregisterDrain(m)
  \/ UnregisterDrained(m)
  \/ UnregisterUnlock(m)
  \/ UnregisterFree(m)

MutatorStep(m) == RegisterStep(m) \/ UnregisterStep(m)

HandlerStep(h) ==
  \/ HandlerLoad(h)
  \/ WalkSkip(h)
  \/ WalkInvoke(h)
  \/ InvokeSearch(h)
  \/ InvokeExecute(h)
  \/ InvokeLongjmp(h)
  \/ WalkNextPass(h)
  \/ WalkEnd(h)
  \/ HandlerExit(h)

Next ==
  \/ \E m \in Mutators : RegisterAlloc(m) \/ UnregisterCall(m) \/ MutatorStep(m)
  \/ \E h \in Handlers : HandlerEnter(h) \/ HandlerStep(h)

SafeSpec == Init /\ [][Next]_vars

\* Threads run and handlers return; nobody is obliged to call in, and
\* signals need not arrive.
Fairness ==
  /\ \A m \in Mutators : WF_vars(MutatorStep(m))
  /\ \A h \in Handlers : WF_vars(HandlerStep(h))

Spec == SafeSpec /\ Fairness

-----------------------------------------------------------------------------
(* Properties *)

TypeOK ==
  /\ next \in [Nodes -> Nodes]
  /\ prev \in [Nodes -> Nodes]
  /\ mem \in [Regs -> {"free", "fresh", "linked", "unlinked"}]
  /\ low \in [Regs -> BOOLEAN]
  /\ signals \in [Regs -> SUBSET Signals]
  /\ older \in [Regs -> SUBSET Regs]
  /\ cookies \subseteq Regs
  /\ lock \in Mutators \cup {NoOne}
  /\ mpc \in [Mutators -> {"idle", "register", "publish", "registered",
                           "unregister", "unlink", "drain", "draining",
                           "drained", "free"}]
  /\ mreg \in [Mutators -> Nodes]
  /\ GP!GPTypeOK
  /\ hpc \in [Handlers -> {"idle", "load", "walk", "invoke", "handled",
                           "unhandled"}]
  /\ sig \in [Handlers -> Signals]
  /\ flags \in [Handlers -> SUBSET Passes]
  /\ pass \in [Handlers -> {"normal", "low"}]
  /\ reglist \in [Handlers -> Nodes]
  /\ it \in [Handlers -> Nodes]
  /\ must \in [Handlers -> SUBSET Regs]
  /\ ran \in [Handlers -> SUBSET Regs]

Walking(h) == hpc[h] \in {"walk", "invoke"}

\* A handler only dereferences registrations that are in memory: neither its
\* iterator nor the list head it starts the second pass from is freed (or
\* handed out again by calloc) while it walks, whatever is unregistered
\* meanwhile.
NoUseAfterFree ==
  \A h \in Handlers : Walking(h) =>
    /\ it[h] \in Regs => mem[it[h]] \in {"linked", "unlinked"}
    /\ reglist[h] \in Regs => mem[reglist[h]] \in {"linked", "unlinked"}

\* Forward and backward links agree on the nodes in the list, so that an
\* unlink repairs the list it is given, in whatever order components
\* unregister ("Components can register and unregister their handlers in
\* arbitrary order", sigmux.h).
ListConsistent ==
  \A n \in Linked \cup {Head} :
    /\ next[n] \in Linked \cup {Head}
    /\ prev[n] \in Linked \cup {Head}
    /\ prev[next[n]] = n
    /\ next[prev[n]] = n

\* The list, the lock and the phaser together implement the table of handlers
\* that sigmux.h describes: "sigmux invokes all registered handlers for that
\* signal until one returns SIGMUX_CONTINUE_EXECUTION", and a registration is
\* gone only when no delivery can call its handler any more.
Table == INSTANCE SignalTable WITH
  Entries <- Regs, Deliveries <- Handlers,
  status <- [r \in Regs |-> CASE mem[r] = "linked" -> "registered"
                              [] mem[r] = "unlinked" -> "leaving"
                              [] OTHER -> "free"],
  begun <- active, due <- must, called <- ran,
  outcome <- [h \in Handlers |-> CASE hpc[h] = "handled" -> "answered"
                                  [] hpc[h] = "unhandled" -> "nobody"
                                  [] OTHER -> "open"],
  waiting <- draining, waitFor <- owed

ImplementsTable == Table!TableSpec

\* A low-priority handler is tried "only after all handlers that did not
\* specify SIGMUX_LOW_PRIORITY returned SIGMUX_CONTINUE_SEARCH", and "handlers
\* for a given signal are invoked in reverse order of registration" within a
\* priority (sigmux.h), also when registrations come and go during the walk.
CallOrder ==
  \A h \in Handlers : hpc[h] = "invoke" =>
    /\ low[it[h]] => {r \in must[h] : ~low[r]} \subseteq ran[h]
    /\ \A r \in ran[h] : low[r] = low[it[h]] => r \notin older[it[h]]

\* Every call ends: a mutator that has the lock gives it back, although it
\* drains inside the lock, and every walk ends however the list changes under it.
CallsEnd ==
  /\ \A m \in Mutators : lock = m ~> lock # m
  /\ \A h \in Handlers : hpc[h] # "idle" ~> hpc[h] = "idle"
=============================================================================
