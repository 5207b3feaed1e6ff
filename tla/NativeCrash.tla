---------------------------- MODULE NativeCrash ----------------------------
(***************************************************************************)
(* The native part of the app: loading the library (android_jni.cpp) and   *)
(* the handler for SIGSEGV (native_crash_cache.cpp), which writes nothing, *)
(* puts the default action back and sets an alarm, so that the process     *)
(* dies when the faulting instruction runs again or, at the latest, when   *)
(* the alarm rings.                                                        *)
(***************************************************************************)
EXTENDS Integers, FiniteSets

CONSTANTS CrashThreads,
          Dump,         \* the thread that nativeInit creates
          MaxInits      \* bound: calls of initCrash

ASSUME CrashBounds == Dump \in CrashThreads /\ MaxInits \in Nat

VARIABLES loaded,     \* what JNI_OnLoad returned
          segv,       \* the action of SIGSEGV: "default", "my_handler" or "other"
          alrm,       \* the action of SIGALRM: "default" or "other"
          sa_old,
          stacks,     \* threads with an alternate signal stack
          where,      \* of each thread: what it does, and the fault it met
          alarm,      \* an alarm is set
          inits, entered,  \* calls of init_sigaction; of each thread, of my_handler
          died

crashVars == <<loaded, segv, alrm, sa_old, stacks, where, alarm, inits, entered, died>>

Running == [pc |-> "run", fault |-> "none"]

CrashInit ==
    /\ loaded = "no" /\ segv \in {"default", "other"} /\ alrm \in {"default", "other"}
    /\ sa_old = "none" /\ stacks = {} /\ alarm = FALSE
    /\ where = [t \in CrashThreads |-> IF t = Dump THEN [Running EXCEPT !.pc = "none"] ELSE Running]
    /\ inits = 0 /\ entered = [t \in CrashThreads |-> 0] /\ died = FALSE

Live(t, pc) == ~died /\ where[t].pc = pc
Moves(t, pc) == where' = [where EXCEPT ![t].pc = pc]

\* JNI_OnLoad: GetEnv, then registerNativeMethods, which finds the class or not.
JNI_OnLoad(t, env, found, registered) ==
    /\ Live(t, "run") /\ loaded = "no"
    /\ loaded' = IF env /\ found /\ registered THEN "JNI_VERSION_1_4" ELSE "JNI_ERR"
    /\ UNCHANGED <<segv, alrm, sa_old, stacks, where, alarm, inits, entered, died>>

\* init_stack: of the calling thread only, and on failure it goes on.
init_stack(t, succeeds) ==
    /\ Live(t, "run") /\ inits < MaxInits
    /\ stacks' = IF succeeds THEN stacks \cup {t} ELSE stacks
    /\ Moves(t, "init_sigaction")
    /\ UNCHANGED <<loaded, segv, alrm, sa_old, alarm, inits, entered, died>>

init_sigaction(t) ==
    /\ Live(t, "init_sigaction") /\ inits < MaxInits
    /\ sa_old' = segv /\ segv' = "my_handler" /\ inits' = inits + 1
    /\ Moves(t, "run")
    /\ UNCHANGED <<loaded, alrm, stacks, alarm, entered, died>>

\* nativeInit: DumpThreadEntry calls through a JavaVM pointer that is null.
nativeInit(t, created) ==
    /\ Live(t, "run") /\ where[Dump].pc = "none"
    /\ where' = IF created THEN [where EXCEPT ![Dump] = [pc |-> "fault", fault |-> "null"]] ELSE where
    /\ UNCHANGED <<loaded, segv, alrm, sa_old, stacks, alarm, inits, entered, died>>

\* A null access (nativeCrashTest), the end of the stack, or a signal that
\* another process sent.
Meets(t, fault) ==
    /\ Live(t, "run") /\ where[t].fault = "none"
    /\ where' = [where EXCEPT ![t] = [pc |-> "fault", fault |-> fault]]
    /\ UNCHANGED <<loaded, segv, alrm, sa_old, stacks, alarm, inits, entered, died>>

\* External: the kernel acts on the signal.  Without a stack to run the handler
\* on, the process dies.
Delivered(t) ==
    /\ Live(t, "fault")
    /\ IF segv = "my_handler" /\ (where[t].fault # "overflow" \/ t \in stacks)
       THEN /\ Moves(t, "handler") /\ died' = FALSE
            /\ entered' = [entered EXCEPT ![t] = @ + 1]
       ELSE died' = TRUE /\ UNCHANGED <<where, entered>>
    /\ UNCHANGED <<loaded, segv, alrm, sa_old, stacks, alarm, inits>>

\* Slip: the handler stays installed for the signal it handles.
MutResetFirst(t) ==
    /\ Live(t, "handler") /\ Moves(t, "reset")
    /\ UNCHANGED <<loaded, segv, alrm, sa_old, stacks, alarm, inits, entered, died>>

\* my_handler: dladdr on a pointer without a value changes nothing; then
\* signal(code, SIG_DFL), signal(SIGALRM, SIG_DFL), alarm(8).
ResetFirst(t) ==
    /\ Live(t, "handler") /\ Moves(t, "reset") /\ segv' = "default"
    /\ UNCHANGED <<loaded, alrm, sa_old, stacks, alarm, inits, entered, died>>

ResetAlarm(t) ==
    /\ Live(t, "reset") /\ Moves(t, "alarm") /\ alrm' = "default"
    /\ UNCHANGED <<loaded, segv, sa_old, stacks, alarm, inits, entered, died>>

\* A fault happens again when the handler returns; a signal that was sent is over.
SetAlarm(t) ==
    /\ Live(t, "alarm") /\ alarm' = TRUE
    /\ Moves(t, IF where[t].fault = "sent" THEN "run" ELSE "fault")
    /\ UNCHANGED <<loaded, segv, alrm, sa_old, stacks, inits, entered, died>>

\* External: eight seconds later.
Rings ==
    /\ ~died /\ alarm /\ alarm' = FALSE /\ died' = (alrm = "default")
    /\ UNCHANGED <<loaded, segv, alrm, sa_old, stacks, where, inits, entered>>

CrashNext ==
    \/ \E t \in CrashThreads :
          \/ \E env, found, registered \in BOOLEAN : JNI_OnLoad(t, env, found, registered)
          \/ \E ok \in BOOLEAN : init_stack(t, ok) \/ nativeInit(t, ok)
          \/ init_sigaction(t)
          \/ \E fault \in {"null", "overflow", "sent"} : Meets(t, fault)
          \/ Delivered(t) \/ ResetFirst(t) \/ ResetAlarm(t) \/ SetAlarm(t)
    \/ Rings

CrashSpec == CrashInit /\ [][CrashNext]_crashVars

(* A crash ends: the handler runs for a fault once for each time it was         *)
(* installed, whatever other threads do meanwhile, and once it has returned     *)
(* an alarm that kills is pending or has rung (native_crash_cache.cpp:50-59).   *)
CrashEnds ==
    ~died => \A t \in CrashThreads :
        /\ entered[t] <= inits
        /\ entered[t] > 0 /\ where[t].pc \in {"run", "fault"} => alarm /\ alrm = "default"
=============================================================================
