---------------------------- MODULE SigmuxAction ----------------------------
(***************************************************************************)
(* The chained disposition of one signal in linker/sigmux.c: what          *)
(* sigmux_init saves, sigmux_sigaction replaces and sigmux_handle_signal   *)
(* falls back on.  Two struct sigaction per signal take turns as           *)
(* orig_sigact (read by handlers inside a phaser section) and alt_sigact   *)
(* (written under the lock).  The walk over the registrations is module    *)
(* Sigmux; here it answers CONTINUE_SEARCH or CONTINUE_EXECUTION.          *)
(*                                                                         *)
(* A struct sigaction is its handler and its SA_RESETHAND bit; structure   *)
(* assignment copies the two in either order.                              *)
(***************************************************************************)
EXTENDS Integers, FiniteSets

CONSTANTS
  Handlers,      \* executions of sigmux_handle_signal_1
  Mutators,      \* threads in sigmux_init / sigmux_sigaction
  Functions,     \* signal handlers of the application
  AppValues,     \* the sa_handler values the application passes
  OneShot,       \* those of AppValues it passes with SA_RESETHAND
  Initialised,   \* BOOLEAN: start after a successful sigmux_init
  DefaultFatal,  \* signal_default_fatal_p(signum)
  AlwaysFatal,   \* signal_always_fatal_p(signum)
  NoOne          \* nobody

ASSUME NoOneAssumption == NoOne \notin Mutators
ASSUME FatalAssumption == AlwaysFatal => DefaultFatal
ASSUME InitialisedAssumption == Initialised \in BOOLEAN

\* SIG_DFL (and NULL), SIG_IGN, and the application's functions.
Values == {"dfl", "ign"} \cup Functions

ASSUME AppValuesAssumption == OneShot \subseteq AppValues /\ AppValues \subseteq Values

Acts == [handler : Values, oneShot : BOOLEAN]

\* What the application passes to sigaction.
AppActs ==
  {[handler |-> v, oneShot |-> v \in OneShot] : v \in AppValues}

Zero == [handler |-> "dfl", oneShot |-> FALSE]  \* calloc

\* sigmux_handle_signal_1, as the kernel sees it.
Seized == [handler |-> "sigmux", oneShot |-> FALSE]

Slots == {"a", "b"}

Other(s) == IF s = "a" THEN "b" ELSE "a"

VARIABLES
  sa,         \* sa[s]: the contents of struct sigaction s
  orig,       \* orig_sigact[signum]; alt_sigact[signum] is the other one
  initsig,    \* signum is in sigmux_global.initsig
  kernel,     \* the kernel's disposition: the application's, or Seized
  lock,       \* sigmux_global.lock
  mpc,        \* where a mutator stands
  mact,       \* its act argument (or the kernel's old action in sigmux_init)
  active, draining, owed,  \* the phaser: see GracePeriod
  hpc,        \* where a handler stands
  src,        \* next_handler_snapshot
  copied,     \* fields of next_handler already copied
  local,      \* next_handler
  lost,       \* its compare-exchange failed
  alive,      \* FALSE once invoke_sighandler has raised the signal
  killer,     \* who did
  installed   \* history: actions the application has installed

slotVars == <<sa, orig, initsig, kernel>>
mutVars == <<lock, mpc, mact>>
gpState == <<active, draining, owed>>
handlerVars == <<hpc, src, copied, local, lost>>
outcome == <<alive, killer, installed>>
vars == <<sa, orig, initsig, kernel, lock, mpc, mact, active, draining, owed,
          hpc, src, copied, local, lost, alive, killer, installed>>

GP == INSTANCE GracePeriod WITH Readers <- Handlers

\* Before sigmux_init the application's own action is in the kernel.
Init ==
  /\ \E act \in AppActs :
       IF Initialised
         THEN /\ sa = [s \in Slots |-> IF s = "a" THEN act ELSE Zero]
              /\ kernel = Seized
              /\ installed = {act}
         ELSE /\ sa = [s \in Slots |-> Zero]
              /\ kernel = act
              /\ installed = {act}
  /\ orig = "a"
  /\ initsig = Initialised
  /\ lock = NoOne
  /\ mpc = [m \in Mutators |-> "idle"]
  /\ mact = [m \in Mutators |-> Zero]
  /\ GP!GPInit
  /\ hpc = [h \in Handlers |-> "idle"]
  /\ src = [h \in Handlers |-> "a"]
  /\ copied = [h \in Handlers |-> {}]
  /\ local = [h \in Handlers |-> Zero]
  /\ lost = [h \in Handlers |-> FALSE]
  /\ alive = TRUE
  /\ killer = NoOne

Goto(m, label) == mpc' = [mpc EXCEPT ![m] = label]

HGoto(h, label) == hpc' = [hpc EXCEPT ![h] = label]

-----------------------------------------------------------------------------
(* sigmux_init *)

\* Lock, and allocate both structures unless the signal is initialised.
InitCall(m) ==
  /\ alive
  /\ mpc[m] = "idle"
  /\ lock = NoOne
  /\ lock' = m
  /\ Goto(m, IF initsig THEN "unlock" ELSE "seize")
  /\ UNCHANGED <<slotVars, mact, gpState, handlerVars, outcome>>

\* The allocations or the real sigaction fail: ret = -1.
InitFail(m) ==
  /\ alive
  /\ mpc[m] = "seize"
  /\ Goto(m, "unlock")
  /\ UNCHANGED <<slotVars, lock, mact, gpState, handlerVars, outcome>>

\* The kernel installs sigmux_handle_signal_1 ...
InitSeize(m) ==
  /\ alive
  /\ mpc[m] = "seize"
  /\ kernel' = Seized
  /\ mact' = [mact EXCEPT ![m] = kernel]
  /\ Goto(m, "save")
  /\ UNCHANGED <<sa, orig, initsig, lock, gpState, handlerVars, outcome>>

\* ... then the old action is written to *orig_sigact, and initsig is set.
InitSave(m) ==
  /\ alive
  /\ mpc[m] = "save"
  /\ sa' = [sa EXCEPT ![orig] = mact[m]]
  /\ initsig' = TRUE
  /\ Goto(m, "unlock")
  /\ UNCHANGED <<orig, kernel, lock, mact, gpState, handlerVars, outcome>>

-----------------------------------------------------------------------------
(* sigmux_sigaction *)

\* Not hooked: the lock is released again ...
SigactionUnhooked(m) ==
  /\ alive
  /\ mpc[m] = "idle"
  /\ lock = NoOne
  /\ ~initsig
  /\ mact' \in {[mact EXCEPT ![m] = act] : act \in AppActs}
  /\ Goto(m, "direct")
  /\ UNCHANGED <<slotVars, lock, gpState, handlerVars, outcome>>

\* ... and then the real sigaction is called, whoever has hooked meanwhile.
SigactionDirect(m) ==
  /\ alive
  /\ mpc[m] = "direct"
  /\ kernel' = mact[m]
  /\ installed' = installed \cup {mact[m]}
  /\ mact' = [mact EXCEPT ![m] = Zero]
  /\ Goto(m, "idle")
  /\ UNCHANGED <<sa, orig, initsig, lock, gpState, handlerVars, alive, killer>>

\* Hooked: keep the lock.  A NULL act makes the call a query; what oldact
\* receives is not modelled.
SigactionCall(m) ==
  /\ alive
  /\ mpc[m] = "idle"
  /\ lock = NoOne
  /\ initsig
  /\ lock' = m
  /\ \/ /\ mact' \in {[mact EXCEPT ![m] = act] : act \in AppActs}
        /\ Goto(m, "write")
     \/ /\ UNCHANGED mact
        /\ Goto(m, "unlock")
  /\ UNCHANGED <<slotVars, gpState, handlerVars, outcome>>

\* *alt_sigact = *act, the first half ...
SigactionWrite(m) ==
  /\ alive
  /\ mpc[m] = "write"
  /\ sa' = [sa EXCEPT ![Other(orig)].handler = mact[m].handler]
  /\ Goto(m, "write2")
  /\ UNCHANGED <<orig, initsig, kernel, lock, mact, gpState, handlerVars,
                 outcome>>

\* ... and the second.
SigactionWrite2(m) ==
  /\ alive
  /\ mpc[m] = "write2"
  /\ sa' = [sa EXCEPT ![Other(orig)].oneShot = mact[m].oneShot]
  /\ Goto(m, "exchange")
  /\ UNCHANGED <<orig, initsig, kernel, lock, mact, gpState, handlerVars,
                 outcome>>

\* orig_sigact and alt_sigact change places: the action is installed.
SigactionExchange(m) ==
  /\ alive
  /\ mpc[m] = "exchange"
  /\ orig' = Other(orig)
  /\ installed' = installed \cup {mact[m]}
  /\ Goto(m, "drain")
  /\ UNCHANGED <<sa, initsig, kernel, lock, mact, gpState, handlerVars,
                 alive, killer>>

\* Slip: phaser_drain is left out, so the next call may write a structure
\* that a handler still copies from.
MutSigactionNoDrain(m) ==
  /\ alive
  /\ mpc[m] = "drain"
  /\ Goto(m, "unlock")
  /\ UNCHANGED <<slotVars, lock, mact, gpState, handlerVars, outcome>>

SigactionDrain(m) ==
  /\ alive
  /\ mpc[m] = "drain"
  /\ GP!DrainBegin
  /\ Goto(m, "draining")
  /\ UNCHANGED <<slotVars, lock, mact, handlerVars, outcome>>

SigactionDrained(m) ==
  /\ alive
  /\ mpc[m] = "draining"
  /\ GP!DrainReturn
  /\ Goto(m, "unlock")
  /\ UNCHANGED <<slotVars, lock, mact, handlerVars, outcome>>

\* Unlock and return.
Unlock(m) ==
  /\ alive
  /\ mpc[m] = "unlock"
  /\ lock' = NoOne
  /\ mact' = [mact EXCEPT ![m] = Zero]
  /\ Goto(m, "idle")
  /\ UNCHANGED <<slotVars, gpState, handlerVars, outcome>>

-----------------------------------------------------------------------------
(* sigmux_handle_signal *)

HandlerEnter(h) ==
  /\ alive
  /\ hpc[h] = "idle"
  /\ kernel = Seized
  /\ GP!SectionEnter(h)
  /\ HGoto(h, "search")
  /\ UNCHANGED <<slotVars, mutVars, src, copied, local, lost, outcome>>

\* The locals of sigmux_handle_signal go out of scope.
Return(h) ==
  /\ src' = [src EXCEPT ![h] = "a"]
  /\ copied' = [copied EXCEPT ![h] = {}]
  /\ local' = [local EXCEPT ![h] = Zero]
  /\ lost' = [lost EXCEPT ![h] = FALSE]
  /\ HGoto(h, "idle")

\* A registered handler took the signal.
SearchExecute(h) ==
  /\ alive
  /\ hpc[h] = "search"
  /\ GP!SectionExit(h)
  /\ Return(h)
  /\ UNCHANGED <<slotVars, mutVars, outcome>>

\* Nobody did: read orig_sigact[signum].
SearchSnapshot(h) ==
  /\ alive
  /\ hpc[h] = "search"
  /\ src' = [src EXCEPT ![h] = orig]
  /\ HGoto(h, "copy")
  /\ UNCHANGED <<slotVars, mutVars, gpState, copied, local, lost, outcome>>

\* next_handler = *next_handler_snapshot, one field at a time.
CopyField(h) ==
  /\ alive
  /\ hpc[h] = "copy"
  /\ \E f \in {"handler", "oneShot"} \ copied[h] :
       /\ local' = [local EXCEPT ![h] =
                      IF f = "handler"
                        THEN [@ EXCEPT !.handler = sa[src[h]].handler]
                        ELSE [@ EXCEPT !.oneShot = sa[src[h]].oneShot]]
       /\ copied' = [copied EXCEPT ![h] = @ \cup {f}]
  /\ UNCHANGED <<slotVars, mutVars, gpState, hpc, src, lost, outcome>>

\* The copy is complete: SA_RESETHAND decides whether to compete.
Copied(h) ==
  /\ alive
  /\ hpc[h] = "copy"
  /\ copied[h] = {"handler", "oneShot"}
  /\ HGoto(h, IF local[h].oneShot THEN "cas" ELSE "exit")
  /\ UNCHANGED <<slotVars, mutVars, gpState, src, copied, local, lost, outcome>>

\* Compare-exchange of the handler with SIG_DFL; on failure next_handler gets
\* what was found.
OneShotCAS(h) ==
  LET found == sa[src[h]].handler IN
  /\ alive
  /\ hpc[h] = "cas"
  /\ IF found = local[h].handler
       THEN /\ sa' = [sa EXCEPT ![src[h]].handler = "dfl"]
            /\ UNCHANGED <<local, lost>>
       ELSE /\ local' = [local EXCEPT ![h].handler = found]
            /\ lost' = [lost EXCEPT ![h] = TRUE]
            /\ UNCHANGED sa
  /\ HGoto(h, "clear")
  /\ UNCHANGED <<orig, initsig, kernel, mutVars, gpState, src, copied, outcome>>

\* sa_flags &= ~SA_RESETHAND
OneShotClear(h) ==
  /\ alive
  /\ hpc[h] = "clear"
  /\ sa' = [sa EXCEPT ![src[h]].oneShot = FALSE]
  /\ HGoto(h, "exit")
  /\ UNCHANGED <<orig, initsig, kernel, mutVars, gpState, src, copied, local,
                 lost, outcome>>

\* Slip: the section is left open when the default handler is to be called.
MutHandlerExitOpen(h) ==
  /\ alive
  /\ hpc[h] = "exit"
  /\ HGoto(h, "invoke")
  /\ UNCHANGED <<slotVars, mutVars, gpState, src, copied, local, lost, outcome>>

\* phaser_exit, before the handler is called: it may return non-locally.
HandlerExit(h) ==
  /\ alive
  /\ hpc[h] = "exit"
  /\ GP!SectionExit(h)
  /\ HGoto(h, "invoke")
  /\ UNCHANGED <<slotVars, mutVars, src, copied, local, lost, outcome>>

\* invoke_sighandler on the local copy.
InvokeFunction(h) ==
  /\ alive
  /\ hpc[h] = "invoke"
  /\ local[h].handler \in Functions
  /\ Return(h)
  /\ UNCHANGED <<slotVars, mutVars, gpState, outcome>>

Kills(v) == AlwaysFatal \/ (v = "dfl" /\ DefaultFatal)

\* set_signal_handler_to_default, raise, abort.
InvokeFatal(h) ==
  /\ alive
  /\ hpc[h] = "invoke"
  /\ local[h].handler \notin Functions
  /\ Kills(local[h].handler)
  /\ alive' = FALSE
  /\ killer' = h
  /\ UNCHANGED <<slotVars, mutVars, gpState, handlerVars, installed>>

\* SIG_IGN, or a default action that does nothing.
InvokeNothing(h) ==
  /\ alive
  /\ hpc[h] = "invoke"
  /\ local[h].handler \notin Functions
  /\ ~Kills(local[h].handler)
  /\ Return(h)
  /\ UNCHANGED <<slotVars, mutVars, gpState, outcome>>

-----------------------------------------------------------------------------

MutatorStep(m) ==
  \/ InitFail(m) \/ InitSeize(m) \/ InitSave(m)
  \/ SigactionDirect(m)
  \/ SigactionWrite(m) \/ SigactionWrite2(m)
  \/ SigactionExchange(m) \/ SigactionDrain(m) \/ SigactionDrained(m)
  \/ Unlock(m)

HandlerStep(h) ==
  \/ SearchExecute(h) \/ SearchSnapshot(h) \/ CopyField(h) \/ Copied(h)
  \/ OneShotCAS(h) \/ OneShotClear(h) \/ HandlerExit(h)
  \/ InvokeFunction(h) \/ InvokeFatal(h) \/ InvokeNothing(h)

Next ==
  \/ \E m \in Mutators :
       InitCall(m) \/ SigactionUnhooked(m) \/ SigactionCall(m) \/ MutatorStep(m)
  \/ \E h \in Handlers : HandlerEnter(h) \/ HandlerStep(h)

SafeSpec == Init /\ [][Next]_vars

\* Threads run and handlers return; signals need not arrive.
Spec ==
  /\ SafeSpec
  /\ \A m \in Mutators : WF_vars(MutatorStep(m))
  /\ \A h \in Handlers : WF_vars(HandlerStep(h))

-----------------------------------------------------------------------------
(* Properties *)

TypeOK ==
  /\ sa \in [Slots -> Acts]
  /\ orig \in Slots
  /\ initsig \in BOOLEAN
  /\ kernel \in Acts \cup {Seized}
  /\ lock \in Mutators \cup {NoOne}
  /\ mpc \in [Mutators -> {"idle", "seize", "save", "direct", "write", "write2",
                           "exchange", "drain", "draining", "unlock"}]
  /\ mact \in [Mutators -> Acts]
  /\ GP!GPTypeOK
  /\ hpc \in [Handlers -> {"idle", "search", "copy", "cas", "clear", "exit",
                           "invoke"}]
  /\ src \in [Handlers -> Slots]
  /\ copied \in [Handlers -> SUBSET {"handler", "oneShot"}]
  /\ local \in [Handlers -> Acts]
  /\ lost \in [Handlers -> BOOLEAN]
  /\ alive \in BOOLEAN
  /\ killer \in Handlers \cup {NoOne}
  /\ installed \subseteq Acts

\* Handler h is using the structure it took a snapshot of.
Uses(h) == hpc[h] \in {"copy", "cas", "clear"}

\* The structure sigmux_sigaction writes is never one that a handler copies
\* from or resets: the drain of the previous call has waited for them ("we'd
\* race with concurrent callers to sigmux_sigaction").
SpareUnread ==
  \A m \in Mutators, h \in Handlers :
    mpc[m] \in {"write", "write2"} /\ Uses(h) => src[h] = orig

\* What a one-shot reset in progress can leave of an action.
Resets(act) ==
  IF act.oneShot
    THEN [handler : {act.handler, "dfl"}, oneShot : BOOLEAN]
    ELSE {act}

\* What a handler falls back on is one action the application installed
\* (reset or being reset if it is a one-shot one), or the zeros sigmux_init
\* starts from: never the handler of one action with the flags of another.
FallsBackOnInstalled ==
  \A h \in Handlers :
    hpc[h] = "invoke" =>
      local[h] \in {Zero} \cup UNION {Resets(act) : act \in installed}

\* sigmux_sigaction and sigmux_init return.
LockReleased == \A m \in Mutators : lock = m ~> (lock # m \/ ~alive)

\* sigmux.c: "If we lose, it ends up with SIG_DFL (or NULL), which tells us to
\* ignore the signal in invoke_sighandler."
LoserIgnores == \A h \in Handlers : killer = h => ~lost[h]

\* sigmux.h: "If a signal handler is installed when sigmux_init is called,
\* sigmux will invoke that handler when no sigmux-registered handler opts to
\* handle a signal."
InitKeepsHandler ==
  (\A act \in installed : act.handler \in Functions) => alive
=============================================================================
