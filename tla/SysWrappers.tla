----------------------------- MODULE SysWrappers -----------------------------
(***************************************************************************)
(* linux_syscall_support.h: the functions around the system calls.  Each   *)
(* tries the current call and, on a kernel without it, an older one with   *)
(* narrower arguments, or rearranges its arguments for the kernel.  A step *)
(* is one call; it records what it was given and what came of it.          *)
(***************************************************************************)
EXTENDS Integers, FiniteSets, Sequences

CONSTANTS NSig,        \* KERNEL_NSIG, scaled down
          WordBits,    \* bits of an unsigned long in a signal set
          Half,        \* 2^16 for user ids, 2^32 for halves of an offset, scaled down
          MaxWraps     \* calls in a behaviour

VARIABLES os,          \* the kernel's side of the process
          libc,        \* errno, the set passed to calls, the set they fill in
          lastCall,    \* the last call, with the state before it
          wraps        \* calls made

wrapVars == <<os, libc, lastCall, wraps>>

\* KERNEL_NSIG is a multiple of the word size on every architecture.
ASSUME WrapBounds ==
  /\ NSig \in Nat \ {0} /\ WordBits \in Nat \ {0} /\ NSig % WordBits = 0
  /\ Half \in Nat /\ Half >= 2 /\ MaxWraps \in Nat

\* mips is the 32-bit ABI; n32 and mips64 are the others; ppc is PowerPC of 32 bits.
WrapArches == {"i386", "x86_64", "arm", "mips", "n32", "mips64", "aarch64", "ppc"}
\* External: 64-bit registers, and the other kernels that pair registers.
WideRegisters == {"x86_64", "n32", "mips64", "aarch64"}
PairsRegisters == {"arm", "mips", "ppc"}

\* Where the header has the wrappers of each group.
HasSignalCalls == os.arch \notin {"aarch64", "n32", "mips64"}
HasIds == os.arch \in {"i386", "arm", "x86_64"}

ENOSYS == 38
Invalid == 22          \* EINVAL
EFAULT == 14
Stale == 5             \* an errno from some earlier call

----------------------------------------------------------------------------
(* struct kernel_sigset_t.                                                 *)

SetWords == (NSig + WordBits - 1) \div WordBits
SigSets == [0 .. SetWords - 1 -> SUBSET (0 .. WordBits - 1)]
EmptySet == [w \in 0 .. SetWords - 1 |-> {}]
FullSet == [w \in 0 .. SetWords - 1 |-> 0 .. WordBits - 1]
WordOf(signum) == (signum - 1) \div WordBits
BitOf(signum) == (signum - 1) % WordBits
Signals == 1 .. NSig
FirstWord == 1 .. WordBits
BadSignal(signum) == signum < 1 \/ signum > SetWords * WordBits

\* External: the signals a kernel reads from a set, and how it stores them.
Members(s) == {g \in Signals : BitOf(g) \in s[WordOf(g)]}
Stored(gs) == [w \in 0 .. SetWords - 1 |-> {BitOf(g) : g \in {h \in gs : WordOf(h) = w}}]

\* Slip: signals are numbered from the first bit.
MutAdd(s, signum) ==
  LET n == signum % NSig IN [s EXCEPT ![n \div WordBits] = @ \cup {n % WordBits}]

sigaddset(s, signum) == [s EXCEPT ![WordOf(signum)] = @ \cup {BitOf(signum)}]
sigdelset(s, signum) == [s EXCEPT ![WordOf(signum)] = @ \ {BitOf(signum)}]
sigismember(s, signum) == IF BitOf(signum) \in s[WordOf(signum)] THEN 1 ELSE 0

\* errno is only set for a bad number.
OnSet(op, signum) ==
  LET checked == op \in {"sigaddset", "sigdelset", "sigismember"}
      bad == checked /\ BadSignal(signum)
      s == CASE op = "sigemptyset" -> EmptySet
             [] op = "sigfillset" -> FullSet
             [] op = "sigaddset" /\ ~bad -> sigaddset(libc.set, signum)
             [] op = "sigdelset" /\ ~bad -> sigdelset(libc.set, signum)
             [] OTHER -> libc.set
      rc == IF bad THEN -1 ELSE IF op = "sigismember" THEN sigismember(libc.set, signum) ELSE 0
  IN  /\ libc' = [libc EXCEPT !.set = s, !.errno = IF bad THEN Invalid ELSE @]
      /\ lastCall' = [op |-> op, signum |-> signum, was |-> libc.set, rc |-> rc]
      /\ UNCHANGED os

----------------------------------------------------------------------------
(* Signal calls.  A call of the kernel is its effect, or an error number.  *)

Masked(how, mask, gs) ==
  CASE how = "block" -> mask \cup gs [] how = "unblock" -> mask \ gs [] OTHER -> gs

\* External: rt_sigprocmask sees all signals, _sigprocmask those of the first word.
KernelMask(rt, how, given) ==
  LET seen == IF rt THEN Signals ELSE FirstWord
      gs == Members(given) \cap seen
  IN  IF rt /\ ~os.rt THEN [err |-> ENOSYS, mask |-> os.mask, old |-> {}]
      ELSE IF how \notin {"block", "unblock", "set", "null"} THEN [err |-> Invalid, mask |-> os.mask, old |-> {}]
      ELSE [err |-> 0, old |-> os.mask \cap seen,
            mask |-> IF how = "null" THEN os.mask
                     ELSE Masked(how, os.mask \cap seen, gs) \cup (os.mask \ seen)]

\* how is "null" when there is no set.
sigprocmask(how) ==
  /\ HasSignalCalls
  /\ LET olderrno == libc.errno
         first == KernelMask(TRUE, how, libc.set)
         again == first.err = ENOSYS
         last == IF again THEN KernelMask(FALSE, how, libc.set) ELSE first
         errno == IF last.err # 0 THEN last.err ELSE IF again THEN olderrno ELSE libc.errno
         emptied == IF again THEN EmptySet ELSE libc.old
         old == IF last.err # 0 THEN emptied ELSE Stored(last.old)
     IN  /\ os' = [os EXCEPT !.mask = last.mask]
         /\ libc' = [libc EXCEPT !.errno = errno, !.old = old]
         /\ lastCall' = [op |-> "sigprocmask", how |-> how, was |-> os.mask, errnoWas |-> olderrno,
                         rc |-> IF last.err # 0 THEN -1 ELSE 0]

\* The older call fills the first word of an emptied set.
sigpending ==
  /\ HasSignalCalls
  /\ libc' = [libc EXCEPT !.old = IF os.rt THEN Stored(os.pending)
                                  ELSE [EmptySet EXCEPT ![0] = Stored(os.pending \cap FirstWord)[0]]]
  /\ lastCall' = [op |-> "sigpending", errnoWas |-> libc.errno]
  /\ UNCHANGED os

\* Until a signal arrives the mask is the given one, or its first word.
sigsuspend ==
  /\ HasSignalCalls
  /\ libc' = [libc EXCEPT !.errno = 4]
  /\ lastCall' = [op |-> "sigsuspend", during |-> IF os.rt THEN Members(libc.set) ELSE Members(libc.set) \cap FirstWord]
  /\ UNCHANGED os

\* SA_RESTORER is added where the kernel cannot return from a handler by itself.
WithRestorer(act) ==
  IF act.restorer # "none" THEN act
  ELSE CASE os.arch = "x86_64" -> [act EXCEPT !.restorer = "restore_rt"]
         [] os.arch = "i386" -> [act EXCEPT !.restorer = IF act.siginfo THEN "restore_rt" ELSE "restore"]
         [] OTHER -> act

\* The older call gets act itself, with the first word of its mask; what it answers
\* is laid over a copy of act, or over zeros.
sigaction(act, null) ==
  /\ HasSignalCalls
  /\ LET rt == os.rt \/ os.arch = "x86_64"
         narrow(m) == [EmptySet EXCEPT ![0] = m[0]]
         installed == IF null THEN os.action
                      ELSE IF rt THEN WithRestorer(act)
                      ELSE [act EXCEPT !.mask = narrow(@)]
         under == IF null THEN EmptySet ELSE act.mask
         old == IF rt THEN os.action
                ELSE [os.action EXCEPT !.mask = [under EXCEPT ![0] = os.action.mask[0]]]
     IN  /\ os' = [os EXCEPT !.action = installed]
         /\ lastCall' = [op |-> "sigaction", was |-> os.action, old |-> old, given |-> act, null |-> null]
         /\ UNCHANGED libc

----------------------------------------------------------------------------
(* User and group ids.  The older calls have 16-bit ids.                   *)

UserIds == {0, Half - 1, Half, Half + 1}

\* The older call writes 16 bits into an integer that was cleared.
getresuid32(null) ==
  LET again == ~os.rt
      cleared == 0
      out == IF again THEN cleared + (os.uid % Half) ELSE os.uid
  IN  /\ HasIds
      /\ libc' = [libc EXCEPT !.errno = IF again THEN ENOSYS ELSE IF null THEN EFAULT ELSE @]
      /\ lastCall' = [op |-> "getresuid32", was |-> os.uid, out |-> out,
                      rc |-> IF ~null THEN 0 ELSE IF again THEN EFAULT ELSE -1]
      /\ UNCHANGED os

\* setresuid32, setresgid32, setfsuid32, setfsgid32; x86-64 has the calls alone.
setresuid32(id) ==
  LET again == ~os.rt
      tooLarge == id >= Half
  IN  /\ HasIds
      /\ os' = [os EXCEPT !.uid = IF ~again THEN id ELSE IF tooLarge THEN @ ELSE id % Half]
      /\ libc' = [libc EXCEPT !.errno = IF again THEN ENOSYS ELSE @]
      /\ lastCall' = [op |-> "setresuid32", was |-> os.uid, id |-> id,
                      rc |-> IF again /\ tooLarge THEN Invalid ELSE 0]

----------------------------------------------------------------------------
(* Rearranged arguments.                                                   *)

\* union { loff_t off; unsigned arg[2]; }
Halves(off) == IF os.big THEN <<off \div Half, off % Half>> ELSE <<off % Half, off \div Half>>
LLARG_PAD == IF os.arch \in {"arm", "mips", "n32"} THEN <<0>> ELSE <<>>
Narrow == os.arch \notin {"x86_64", "mips64"}

Offsets == {0, 1, Half - 1, Half, Half + 1, Half * Half - 1}

pread64(off) == <<0, 0, 0>> \o (IF Narrow THEN LLARG_PAD \o Halves(off) ELSE <<off>>)
readahead(off) == <<0>> \o (IF Narrow THEN LLARG_PAD \o Halves(off) ELSE <<off>>) \o <<0>>
fadvise64(off, len) ==
  IF Narrow THEN <<0, off % Half, off \div Half, len % Half, len \div Half, 0>> ELSE <<0, off, len, 0>>
fallocate(off, len) == <<0, 0>> \o Halves(off) \o Halves(len)

\* External: the kernel reads a 64-bit argument from one register if it is wide enough,
\* else from the next two, or from the next pair that starts at an odd position.
KernelReads(args, i) ==
  LET j == IF os.arch \in PairsRegisters /\ i % 2 = 0 THEN i + 1 ELSE i
      at(k) == IF k \in DOMAIN args THEN args[k] ELSE Stale
  IN  IF os.arch \in WideRegisters THEN at(i)
      ELSE IF os.big THEN at(j) * Half + at(j + 1) ELSE at(j + 1) * Half + at(j)

Splits(off, len) ==
  /\ lastCall' = [op |-> "offset", off |-> off, len |-> len,
                  read |-> {KernelReads(pread64(off), 4), KernelReads(readahead(off), 2)}
                             \cup (IF os.arch = "i386"
                                   THEN {KernelReads(fadvise64(off, len), 2), KernelReads(fallocate(off, len), 3)}
                                   ELSE IF os.arch = "x86_64" THEN {KernelReads(fadvise64(off, len), 2)} ELSE {}),
                  readLen |-> IF os.arch = "i386"
                              THEN {KernelReads(fadvise64(off, len), 4), KernelReads(fallocate(off, len), 5)}
                              ELSE {}]
  /\ UNCHANGED <<os, libc>>

\* Only aarch64, which has ppoll instead.
poll(timeout) ==
  /\ os.arch = "aarch64"
  /\ lastCall' = [op |-> "poll", timeout |-> timeout, null |-> timeout < 0,
                  sec |-> timeout \div 1000, nsec |-> (timeout % 1000) * 1000000]
  /\ UNCHANGED <<os, libc>>

\* PTRACE_DETACH, then SIGCONT by tkill, or by kill where there is no tkill; the
\* result and errno are those of ptrace.
ptrace_detach(fails) ==
  LET err == IF fails THEN 3 ELSE libc.errno
      afterTkill == IF os.rt THEN err ELSE ENOSYS
      killed == afterTkill = ENOSYS
  IN  /\ libc' = [libc EXCEPT !.errno = err]
      /\ lastCall' = [op |-> "ptrace_detach", rc |-> IF fails THEN -1 ELSE 0, errnoWas |-> libc.errno,
                      woken |-> (IF os.rt THEN {"thread"} ELSE {}) \cup (IF killed THEN {"process"} ELSE {})]
      /\ UNCHANGED os

----------------------------------------------------------------------------
WrapInit ==
  /\ os \in [rt : BOOLEAN, arch : WrapArches, big : BOOLEAN, mask : {{}, {NSig}},
             pending : {{1, NSig}}, uid : {1},
             action : {[handler |-> "old", siginfo |-> FALSE, restorer |-> "none", mask |-> EmptySet]}]
  /\ os.big => os.arch \in {"mips", "n32", "mips64", "ppc"}
  /\ os.arch = "ppc" => os.big
  /\ os.arch \in WideRegisters => os.rt
  /\ libc = [set |-> EmptySet, old |-> FullSet, errno |-> Stale]
  /\ lastCall = [op |-> "none"]
  /\ wraps = 0

WrapNext ==
  /\ wraps < MaxWraps /\ wraps' = wraps + 1
  /\ \/ \E op \in {"sigaddset", "sigdelset", "sigismember"}, signum \in 0 .. NSig + 1 : OnSet(op, signum)
     \/ \E op \in {"sigemptyset", "sigfillset"} : OnSet(op, 0)
     \/ \E how \in {"block", "unblock", "set", "null", "bad"} : sigprocmask(how)
     \/ sigpending
     \/ sigsuspend
     \/ \E h \in {"new"}, info \in BOOLEAN, r \in {"none", "user"}, null \in BOOLEAN :
          sigaction([handler |-> h, siginfo |-> info, restorer |-> r, mask |-> libc.set], null)
     \/ \E null \in BOOLEAN : getresuid32(null)
     \/ \E id \in UserIds : setresuid32(id)
     \/ \E off \in Offsets : Splits(off, Half * Half - 1 - off)
     \/ \E timeout \in {-1, 0, 1, 999, 1000, 1001} : poll(timeout)
     \/ \E fails \in BOOLEAN : ptrace_detach(fails)

WrapSpec == WrapInit /\ [][WrapNext]_wrapVars

----------------------------------------------------------------------------
(* What a call c must have done.  An old kernel knows the signals of the       *)
(* first word.                                                                 *)

Lower(gs) == gs \cap FirstWord
Known(gs) == IF os.rt THEN gs ELSE Lower(gs)

\* A signal set holds exactly the signals that were added.
SetsExact(c) ==
  /\ c.op \in {"sigaddset", "sigdelset", "sigismember"} =>
       IF c.signum \in Signals
       THEN /\ c.op = "sigaddset" => Members(libc.set) = Members(c.was) \cup {c.signum}
            /\ c.op = "sigdelset" => Members(libc.set) = Members(c.was) \ {c.signum}
            /\ c.op = "sigismember" => libc.set = c.was /\ (c.rc = 1) = (c.signum \in Members(c.was))
            /\ c.rc >= 0
       ELSE c.rc = -1 /\ libc.errno = Invalid /\ libc.set = c.was
  /\ c.op = "sigfillset" => Members(libc.set) = Signals
  /\ c.op = "sigemptyset" => Members(libc.set) = {}

\* The mask that was in force comes back, and a call that succeeds leaves errno alone.
MasksExact(c) ==
  /\ c.op = "sigprocmask" =>
       IF c.rc = 0
       THEN /\ Members(libc.old) = Known(c.was) /\ libc.errno = c.errnoWas
            /\ Known(os.mask) = IF c.how = "null" THEN Known(c.was)
                                ELSE Masked(c.how, Known(c.was), Known(Members(libc.set)))
            /\ os.mask \ Known(os.mask) = c.was \ Known(c.was)
       ELSE c.how = "bad" /\ os.mask = c.was /\ libc.errno = Invalid
  /\ c.op = "sigpending" => Members(libc.old) = Known(os.pending) /\ libc.errno = c.errnoWas
  /\ c.op = "sigsuspend" => c.during = Known(Members(libc.set))

\* A handler is installed with the restorer that fits the frame it gets.  The mask of
\* the old action comes back, but over the new one: behind the word that an old kernel
\* fills in, it is the new one.
ActionsExact(c) ==
  c.op = "sigaction" =>
    /\ c.old.handler = c.was.handler /\ c.old.siginfo = c.was.siginfo
    /\ Members(c.old.mask) = Members(c.was.mask)
                                \cup (IF os.rt \/ c.null THEN {} ELSE Members(c.given.mask) \ FirstWord)
    /\ IF c.null THEN os.action = c.was
       ELSE /\ os.action.handler = c.given.handler
            /\ Members(os.action.mask) = Known(Members(c.given.mask))
            /\ c.given.restorer = "user" => os.action.restorer = "user"
            /\ os.arch \in {"i386", "x86_64"} /\ os.rt /\ os.action.restorer # "user" =>
                 os.action.restorer = IF os.arch = "x86_64" \/ os.action.siginfo
                                      THEN "restore_rt" ELSE "restore"

\* An id is set in full or not at all.
IdsExact(c) ==
  /\ c.op = "getresuid32" => (c.rc = 0 => c.out = c.was)
  /\ c.op = "setresuid32" => os.uid = IF c.rc = 0 THEN c.id ELSE c.was

\* The kernel reads the offset that was given, unless it takes it from one register and
\* gets halves (AArch64, n32), or from a pair and gets no pad (PowerPC).  A timeout is
\* the same number of milliseconds; a detached thread is always woken.
ArgumentsExact(c) ==
  /\ c.op = "offset" /\ os.arch \notin {"aarch64", "n32", "ppc"} =>
       c.read \subseteq {c.off} /\ c.readLen \subseteq {c.len}
  /\ c.op = "poll" =>
       /\ c.null = (c.timeout < 0)
       /\ ~c.null => c.sec * 1000 + c.nsec \div 1000000 = c.timeout /\ c.nsec < 1000000000
  /\ c.op = "ptrace_detach" =>
       /\ c.woken # {} /\ (os.rt => "thread" \in c.woken)
       /\ c.rc = 0 => libc.errno = c.errnoWas

(* A wrapper does what its name says on an old kernel as on a new one: a       *)
(* signal set holds exactly the signals that were added; the mask that was in  *)
(* force comes back and no signal of a set that was not filled in, as far as   *)
(* the kernel knows; a call that succeeds leaves errno alone; a handler is     *)
(* installed with the restorer that fits the frame it gets, and the old one    *)
(* comes back, except that on an old kernel the upper words of its mask are    *)
(* those of the new one; an id is set in full or not at all; the kernel reads  *)
(* the offset that was given on i386, x86-64, ARM and the 32- and 64-bit ABIs  *)
(* of MIPS; a timeout is the same number of milliseconds; and a detached       *)
(* thread is always woken (linux_syscall_support.h:3234-4025).                 *)
WrappersExact ==
  /\ SetsExact(lastCall) /\ MasksExact(lastCall) /\ ActionsExact(lastCall)
  /\ IdsExact(lastCall) /\ ArgumentsExact(lastCall)
=============================================================================
