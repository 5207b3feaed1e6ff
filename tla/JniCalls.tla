------------------------------ MODULE JniCalls ------------------------------
(***************************************************************************)
(* fbjni's view of a thread that crosses between Java and C++: the         *)
(* thread-local record behind Environment::current, the two RAII classes   *)
(* that maintain it (JniEnvCacher around every registered native method,   *)
(* ThreadScope around C++ that wants to be attached), and exceptions,      *)
(* which are translated at every crossing.                                 *)
(*                                                                         *)
(* All of it but g_vm belongs to one thread, so the state is a record per  *)
(* thread and an operation a function on that record.  A frame is          *)
(*   "java"    Java code,                                                  *)
(*   "native"  a registered native method with its JniEnvCacher,           *)
(*   "scope"   a C++ block with a ThreadScope,                             *)
(*   "ext"     a C++ block that attaches without fbjni, correctly.         *)
(* flag is thisCached_ or thisAttached_ (for "ext": it attached); env and  *)
(* attached are the TLData the frame carries.                              *)
(***************************************************************************)
EXTENDS Naturals, Sequences

CONSTANTS Threads,       \* they share g_vm only
          Throwables,    \* exceptions Java code throws
          MaxDepth,      \* bound on the frames of a thread
          MaxNest        \* bound on nested C++ exceptions

ASSUME BoundsAssumption == MaxDepth \in Nat /\ MaxNest \in Nat \ {0}

VARIABLES vm,       \* g_vm # nullptr
          th,       \* the state of each thread
          asserted, \* an FBJNI_ASSERT has failed
          dead      \* std::terminate has run

callsVars == <<vm, th, asserted, dead>>

(***************************************************************************)
(* C++ exception types with their base classes, and the catch clauses of   *)
(* the translation in the order they are written.                          *)
(***************************************************************************)
Bases == [JniException  |-> {"JniException", "exception"},
          ios_failure   |-> {"ios_failure", "system_error", "runtime_error", "exception"},
          bad_alloc     |-> {"bad_alloc", "exception"},
          out_of_range  |-> {"out_of_range", "exception"},
          system_error  |-> {"system_error", "runtime_error", "exception"},
          runtime_error |-> {"runtime_error", "exception"},
          exception     |-> {"exception"},
          charptr       |-> {"charptr"},
          other         |-> {}]

CppTypes == DOMAIN Bases

JavaClass == [ios_failure   |-> "IOException",
              bad_alloc     |-> "OutOfMemoryError",
              out_of_range  |-> "ArrayIndexOutOfBoundsException",
              system_error  |-> "CppSystemErrorException",
              runtime_error |-> "RuntimeException",
              exception     |-> "CppException",
              charptr       |-> "UnknownCppException",
              other         |-> "UnknownCppException"]

\* Slip: the general clauses stand before the special ones.
MutClausesByGenerality == <<"JniException", "runtime_error", "ios_failure", "bad_alloc",
                            "out_of_range", "system_error", "exception", "charptr">>

Clauses == <<"JniException", "ios_failure", "bad_alloc", "out_of_range",
             "system_error", "runtime_error", "exception", "charptr">>

\* A throwable is the sequence of its own name and the names of its causes;
\* a C++ exception its type and, for a JniException, the throwable it wraps.
convertCppExceptionToJavaException(e) ==
    LET matching == {i \in DOMAIN Clauses : Clauses[i] \in Bases[e.type]}
        caught   == Clauses[CHOOSE i \in matching : \A j \in matching : i <= j]
    IN  IF matching = {} THEN <<JavaClass["other"]>>
        ELSE IF caught = "JniException" THEN e.throwable
        ELSE <<JavaClass[caught]>>

\* Throwable.initCause throws when a cause has been set already; the empty
\* sequence stands for that failure, which leaves denest and ends in
\* std::terminate.
initCause(current, previous) ==
    IF Len(current) = 1 /\ previous # <<>> THEN current \o previous ELSE <<>>

\* denest visits the innermost exception of the chain first.
getJavaExceptionForCppException(chain) ==
    LET n == Len(chain)
        previous[i \in 1 .. n + 1] ==
            IF i > n THEN <<>>
            ELSE IF i = n THEN convertCppExceptionToJavaException(chain[i])
            ELSE initCause(convertCppExceptionToJavaException(chain[i]), previous[i + 1])
    IN  previous[1]

-----------------------------------------------------------------------------
(* The thread-local data. *)

Frame(kind, flag, env, attached) ==
    [kind |-> kind, flag |-> flag, env |-> env, attached |-> attached]

InJava(s) == IF s.stack = <<>> THEN s.java ELSE s.stack[Len(s.stack)].kind = "java"

Top(s) == IF s.stack = <<>> THEN "none" ELSE s.stack[Len(s.stack)].kind

TopFlag(s) == s.stack[Len(s.stack)].flag

Push(s, frame) == [s EXCEPT !.stack = Append(@, frame)]

Pop(s) == [s EXCEPT !.stack = SubSeq(@, 1, Len(@) - 1)]

HasRoom(s, n) == Len(s.stack) + n <= MaxDepth

\* tls is 0 or the index of the frame whose TLData it points to.
cachedOrNull(s) == s.tls # 0 /\ s.stack[s.tls].env

\* currentOrNull: the cached env, or whatever the VM says of this thread.
currentOrNull(s) == vm /\ (cachedOrNull(s) \/ s.att)

\* Slip: the cacher installs its own record although a scope has one.
MutCacherOwnData(s) ==
    [Push(s, Frame("native", TRUE, TRUE, FALSE)) EXCEPT !.tls = Len(s.stack) + 1]

JniEnvCacher(s) ==
    IF cachedOrNull(s) THEN Push(s, Frame("native", FALSE, FALSE, FALSE))
    ELSE IF s.tls = 0
         THEN [Push(s, Frame("native", TRUE, TRUE, FALSE)) EXCEPT !.tls = Len(s.stack) + 1]
         ELSE [Push(s, Frame("native", TRUE, FALSE, FALSE)) EXCEPT !.stack[s.tls].env = TRUE]

CacherAsserts(s) == TopFlag(s) => s.tls # 0 /\ s.stack[s.tls].env

JniEnvCacherGone(s) ==
    IF ~TopFlag(s) THEN Pop(s)
    ELSE Pop([s EXCEPT !.stack[s.tls].env = FALSE,
                       !.tls = IF s.stack[s.tls].attached THEN @ ELSE 0])

\* Slip: the scope attaches, and will detach, although the thread is attached.
MutScopeAlwaysAttaches(s) ==
    [Push(s, Frame("scope", TRUE, FALSE, TRUE)) EXCEPT !.tls = Len(s.stack) + 1, !.att = TRUE]

ThreadScope(s) ==
    IF s.att THEN Push(s, Frame("scope", FALSE, FALSE, FALSE))
    ELSE [Push(s, Frame("scope", TRUE, FALSE, TRUE)) EXCEPT !.tls = Len(s.stack) + 1,
                                                            !.att = TRUE]

ScopeAsserts(s) ==
    TopFlag(s) => s.tls # 0 /\ ~s.stack[s.tls].env /\ s.stack[s.tls].attached /\ vm

ThreadScopeGone(s) ==
    IF TopFlag(s) THEN [Pop(s) EXCEPT !.att = FALSE, !.tls = 0] ELSE Pop(s)

-----------------------------------------------------------------------------
(* Steps of a thread. *)

\* java: the VM started the thread, which is attached for ever.
Thread(java) == [java |-> java, att |-> java, tls |-> 0, stack |-> <<>>,
                 cpp |-> <<>>, pending |-> <<>>, ensured |-> FALSE]

CallsInit ==
    /\ vm \in BOOLEAN   \* another thread may have loaded the library
    /\ th \in [Threads -> {Thread(java) : java \in BOOLEAN}]
    /\ asserted = FALSE
    /\ dead = FALSE

Move(t, s) == /\ ~dead /\ ~asserted
              /\ th' = [th EXCEPT ![t] = s]

Quiet == UNCHANGED <<vm, asserted, dead>>

\* An FBJNI_ASSERT guards the step.
Asserting(cond) == asserted' = ~cond /\ UNCHANGED <<vm, dead>>

CppRuns(t) == ~InJava(th[t]) /\ th[t].cpp = <<>>

JavaRuns(t) == InJava(th[t]) /\ th[t].pending = <<>>

\* facebook::jni::initialize, called by JNI_OnLoad: the first call stores the
\* VM; init_fn may throw, and the exception is left for Java.
Initialize(t, failure) ==
    /\ JavaRuns(t)
    /\ vm' = TRUE
    /\ Move(t, [th[t] EXCEPT !.pending = getJavaExceptionForCppException(failure)])
    /\ UNCHANGED <<asserted, dead>>

CallNative(t) ==
    /\ vm /\ JavaRuns(t) /\ HasRoom(th[t], 1)
    /\ Move(t, JniEnvCacher(th[t]))
    /\ Quiet

NativeReturn(t) ==
    /\ CppRuns(t) /\ Top(th[t]) = "native"
    /\ Move(t, JniEnvCacherGone(th[t]))
    /\ Asserting(CacherAsserts(th[t]))

\* The catch (...) of the wrappers: the C++ exception becomes the pending
\* Java exception before the cacher is destroyed.
translatePendingCppExceptionToJavaException(t) ==
    LET s == th[t]
        exc == getJavaExceptionForCppException(s.cpp)
    IN  /\ s.cpp # <<>> /\ Top(s) = "native"
        /\ Move(t, [JniEnvCacherGone(s) EXCEPT !.cpp = <<>>, !.pending = exc])
        /\ asserted' = ~CacherAsserts(s)
        /\ dead' = (exc = <<>>)
        /\ vm' = vm

EnterScope(t) ==
    LET s == th[t]
    IN  /\ CppRuns(t) /\ HasRoom(s, 1)
        /\ IF ~vm
           THEN /\ Move(t, [s EXCEPT !.cpp = <<[type |-> "runtime_error", throwable |-> <<>>]>>])
                /\ Quiet
           ELSE /\ Move(t, ThreadScope(s))
                /\ Asserting(s.att \/ s.tls = 0)

\* The end of the block, or an exception that leaves it.
LeaveScope(t) ==
    /\ ~InJava(th[t]) /\ Top(th[t]) = "scope"
    /\ Move(t, ThreadScopeGone(th[t]))
    /\ Asserting(ScopeAsserts(th[t]))

EnterExt(t) ==
    LET s == th[t]
    IN  /\ vm /\ CppRuns(t) /\ HasRoom(s, 1)
        /\ Move(t, [Push(s, Frame("ext", ~s.att, FALSE, FALSE)) EXCEPT !.att = TRUE])
        /\ Quiet

LeaveExt(t) ==
    LET s == th[t]
    IN  /\ ~InJava(s) /\ Top(s) = "ext"
        /\ Move(t, [Pop(s) EXCEPT !.att = @ /\ ~TopFlag(s)])
        /\ Quiet

ensureCurrentThreadIsAttached(t) ==
    /\ vm /\ CppRuns(t)
    /\ ~currentOrNull(th[t])
    /\ Move(t, [th[t] EXCEPT !.att = TRUE, !.ensured = TRUE])
    /\ Quiet

\* A JMethod call: it needs the env; a thread that has none throws.
CallJava(t) ==
    LET s == th[t]
    IN  /\ vm /\ CppRuns(t) /\ HasRoom(s, 1)
        /\ Move(t, IF currentOrNull(s) THEN Push(s, Frame("java", FALSE, FALSE, FALSE))
                   ELSE [s EXCEPT !.cpp = <<[type |-> "runtime_error", throwable |-> <<>>]>>])
        /\ Quiet

\* Looking up a class, method or field, registering natives, or making an object
\* fails with what Java threw.  findClass says itself that there is no env.
LookupFails(t) ==
    /\ CppRuns(t)
    /\ Move(t, [th[t] EXCEPT !.cpp =
                  IF currentOrNull(th[t])
                  THEN <<[type |-> "JniException", throwable |-> <<"NoSuchMethodError">>]>>
                  ELSE <<[type |-> "runtime_error", throwable |-> <<>>]>>])
    /\ Quiet

\* Field accesses are noexcept: a thread that has no env terminates.
GetOrSetField(t) ==
    /\ vm /\ CppRuns(t)
    /\ Move(t, th[t])
    /\ dead' = ~currentOrNull(th[t])
    /\ UNCHANGED <<vm, asserted>>

\* The closure runs below a Java frame of the application's class loader,
\* unless a native method of this thread is already there.
WithClassLoader(t) ==
    LET s == th[t]
    IN  /\ vm /\ CppRuns(t) /\ HasRoom(s, 3)
        /\ ~cachedOrNull(s)
        /\ Move(t, JniEnvCacher(Push(ThreadScope(s), Frame("java", FALSE, FALSE, FALSE))))
        /\ Asserting(s.att \/ s.tls = 0)

JavaReturn(t) ==
    /\ JavaRuns(t) /\ th[t].stack # <<>>
    /\ Move(t, Pop(th[t]))
    /\ Quiet

JavaThrow(t, id) ==
    /\ JavaRuns(t)
    /\ Move(t, [th[t] EXCEPT !.pending = <<id>>])
    /\ Quiet

JavaCatch(t) ==
    /\ InJava(th[t]) /\ th[t].pending # <<>>
    /\ Move(t, [th[t] EXCEPT !.pending = <<>>])
    /\ Quiet

\* The exception leaves Java for the C++ that called it: the pending
\* exception is cleared and thrown as a JniException.
throwPendingJniExceptionAsCppException(t) ==
    LET s == th[t]
    IN  /\ InJava(s) /\ s.pending # <<>> /\ s.stack # <<>>
        /\ Move(t, [Pop(s) EXCEPT !.pending = <<>>,
                                  !.cpp = <<[type |-> "JniException", throwable |-> s.pending]>>])
        /\ Quiet

\* What a new JniException wraps: a throwable just made, with or without a
\* cause, or the RuntimeException of a failed JNI call that left nothing pending.
NewThrowables == {<<"NewJavaException">>, <<"NewJavaException", "itsCause">>, <<"RuntimeException">>}

\* Making one needs the env.
NewExceptions(s) ==
    {[type |-> c, throwable |-> <<>>] : c \in CppTypes \ {"JniException"}}
        \cup IF vm /\ currentOrNull(s)
             THEN {[type |-> "JniException", throwable |-> x] : x \in NewThrowables} ELSE {}

CppThrow(t) ==
    /\ CppRuns(t)
    /\ \E e \in NewExceptions(th[t]) : Move(t, [th[t] EXCEPT !.cpp = <<e>>])
    /\ Quiet

\* std::throw_with_nested nests in objects of class type only.
CppNest(t) ==
    /\ th[t].cpp # <<>> /\ Len(th[t].cpp) < MaxNest
    /\ ~InJava(th[t])
    /\ \E e \in NewExceptions(th[t]) :
          /\ e.type # "charptr"
          /\ Move(t, [th[t] EXCEPT !.cpp = <<e>> \o @])
    /\ Quiet

\* A hybrid class may replace the std::exception that leaves its method.
mapException(t) ==
    /\ th[t].cpp # <<>> /\ Top(th[t]) = "native"
    /\ "exception" \in Bases[th[t].cpp[1].type]
    /\ \E e \in NewExceptions(th[t]) : Move(t, [th[t] EXCEPT !.cpp = <<e>>])
    /\ Quiet

HoldsJniException(s) == \E i \in DOMAIN s.cpp : s.cpp[i].type = "JniException"

\* JniException::what attaches the thread for the time of asking Java.
populateWhat(t) ==
    /\ ~InJava(th[t]) /\ HoldsJniException(th[t])
    /\ Move(t, ThreadScopeGone(ThreadScope(th[t])))
    /\ Asserting(th[t].att \/ th[t].tls = 0)

\* C++ handles the exception; ~JniException attaches the thread for the
\* time of deleting its global reference.
CppCatch(t) ==
    LET s == th[t]
        wraps == HoldsJniException(s)
    IN  /\ s.cpp # <<>>
        /\ Move(t, [IF wraps THEN ThreadScopeGone(ThreadScope(s)) ELSE s EXCEPT !.cpp = <<>>])
        /\ Asserting(wraps => s.att \/ s.tls = 0)

\* Nobody catches: lyra's terminate handler logs and aborts.
Uncaught(t) ==
    /\ th[t].cpp # <<>> /\ th[t].stack = <<>>
    /\ dead' = TRUE
    /\ Move(t, th[t])
    /\ UNCHANGED <<vm, asserted>>

CallsNext ==
    \E t \in Threads :
        \/ \E f \in {<<>>} \cup {<<[type |-> c, throwable |-> <<>>]>> : c \in CppTypes \ {"JniException"}} :
               Initialize(t, f)
        \/ CallNative(t) \/ NativeReturn(t)
        \/ translatePendingCppExceptionToJavaException(t)
        \/ EnterScope(t) \/ LeaveScope(t)
        \/ EnterExt(t) \/ LeaveExt(t)
        \/ ensureCurrentThreadIsAttached(t)
        \/ CallJava(t) \/ LookupFails(t) \/ GetOrSetField(t) \/ WithClassLoader(t)
        \/ JavaReturn(t) \/ JavaCatch(t)
        \/ \E id \in Throwables : JavaThrow(t, id)
        \/ throwPendingJniExceptionAsCppException(t)
        \/ CppThrow(t) \/ CppNest(t) \/ mapException(t)
        \/ populateWhat(t) \/ CppCatch(t) \/ Uncaught(t)

CallsSpec == CallsInit /\ [][CallsNext]_callsVars

-----------------------------------------------------------------------------
(***************************************************************************)
(* What the crossings promise.                                             *)
(***************************************************************************)

\* The thread-local pointer never dangles and the assertions of the two
\* destructors never fail, although native methods, scopes and foreign
\* attachments nest in any order: tls points to a live frame that installed
\* itself, exactly one live record is installed when some live frame believes
\* that it installed one, and a cached env belongs to an attached thread.
\* (Environment.cpp:144-150 argues this in a comment.)
TlsSound ==
    /\ ~asserted
    /\ \A t \in Threads :
        LET s == th[t]
            owners == {i \in DOMAIN s.stack : s.stack[i].env \/ s.stack[i].attached}
        IN  /\ s.tls \in {0} \cup DOMAIN s.stack
            /\ owners = {s.tls} \ {0}
            /\ cachedOrNull(s) => s.att
            /\ cachedOrNull(s) <=> \E i \in DOMAIN s.stack :
                                     s.stack[i].kind = "native" /\ s.stack[i].flag

\* ~ThreadScope and ~JniException detach a thread only when no Java code is
\* below them on its stack and they attached it, and a thread the VM did not
\* start is left as it was found: it is attached, when no C++ block of its own
\* is open, only after ensureCurrentThreadIsAttached.
DetachSafe ==
    [][\A t \in Threads :
          /\ th[t].att /\ ~th'[t].att
                => /\ ~th[t].java
                   /\ ~th[t].ensured
                   /\ \A i \in DOMAIN th'[t].stack : th'[t].stack[i].kind \notin {"java", "native"}
          /\ th'[t].stack = <<>> /\ ~th[t].java /\ ~th'[t].ensured => ~th'[t].att]_callsVars

\* The class Java sees for one C++ exception: that of its nearest base with a
\* Java counterpart.
NearestClass(type) ==
    LET known == Bases[type] \cap DOMAIN JavaClass
    IN  IF type = "other" THEN "UnknownCppException"
        ELSE JavaClass[CHOOSE b \in known : \A c \in known : c \in Bases[b]]

\* When a wrapper hands a C++ exception to Java, what arrives has one throwable
\* per nested exception, outermost first, each of the nearest class, and a
\* throwable that came from Java is the very one Java threw; only a throwable
\* that already has a cause and would get a second one is lost (with the process).
ExceptionsArrive ==
    [][\A t \in Threads :
          (th[t].cpp # <<>> /\ Top(th[t]) = "native" /\ th'[t].cpp = <<>> /\ Top(th'[t]) # "native"
              /\ ~dead')
            => LET chain == th[t].cpp
                   arrived == th'[t].pending
               IN  /\ Len(arrived) >= Len(chain)
                   /\ \A i \in DOMAIN chain :
                         IF chain[i].type = "JniException"
                         THEN IF i = Len(chain)
                              THEN SubSeq(arrived, i, Len(arrived)) = chain[i].throwable
                              ELSE <<arrived[i]>> = chain[i].throwable
                         ELSE arrived[i] = NearestClass(chain[i].type)]_callsVars

=============================================================================
