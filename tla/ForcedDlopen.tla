---------------------------- MODULE ForcedDlopen ----------------------------
(***************************************************************************)
(* dlopen.c: from API level 24 on the dynamic linker refuses callers that  *)
(* are not part of the system, so a stub calls it with a return address    *)
(* inside the runtime's FatalError, whose first bytes are overwritten with *)
(* code that returns to the true caller.  Instructions are executed one by *)
(* one; the stack is a sequence, its top first.                            *)
(***************************************************************************)
EXTENDS Integers, Sequences

CONSTANTS Arches,      \* a subset of {"i386", "x86_64", "aarch64", "arm"}
          Page         \* PAGE_SIZE, scaled down

PatchBytes == 8        \* the longest code that is written over FatalError

ASSUME DlBounds ==
    /\ Arches \subseteq {"i386", "x86_64", "aarch64", "arm"}
    /\ Page \in Nat /\ Page >= PatchBytes

VARIABLES sdk,        \* SDK_INT, 0 before ndk_init
          cpu,        \* the architecture, the stack, lr, the frame pointer, what is executed
          fatal,      \* offset of FatalError in its page, pages made writable
          dlcalls,    \* calls into the linker: the caller each one saw
          level       \* the API level of the device

dlVars == <<sdk, cpu, fatal, dlcalls, level>>

Stub ==
    [i386    |-> <<"movl_fake", "push_called", "ret">>,
     x86_64  |-> <<"push_fake", "jmp_called">>,
     aarch64 |-> <<"stp_fp_lr", "mov_fp", "mov_lr_fake", "jmp_called">>,
     arm     |-> <<"str_lr", "mov_lr_fake", "jmp_called">>]

\* Slip: the code in FatalError only returns, as on x86_64, where i386 pushes first.
MutBack ==
    [i386    |-> <<"ret">>,
     x86_64  |-> <<"ret">>,
     aarch64 |-> <<"ldp_fp_lr", "bx_lr">>,
     arm     |-> <<"ret">>]

\* quick_on_stack_back
Back ==
    [i386    |-> <<"push_third", "ret">>,
     x86_64  |-> <<"ret">>,
     aarch64 |-> <<"ldp_fp_lr", "bx_lr">>,
     arm     |-> <<"ret">>]

ByStack == {"i386", "x86_64"}          \* the return address is on the stack

Idle(a) == [arch |-> a, at |-> "caller", i |-> 1, stack |-> <<"base">>,
            lr |-> "base_lr", fp |-> "base_fp"]

DlInit ==
    /\ level \in {23, 24} /\ sdk = 0
    /\ cpu \in {Idle(a) : a \in Arches}
    /\ fatal = [offset |-> 0, pages |-> 0]
    /\ dlcalls = <<>>

\* FatalError's page, and the next one when the patch might reach into it.
ndk_init(offset) ==
    /\ sdk <= 0 /\ cpu.at = "caller" /\ cpu.stack = <<"base">>
    /\ sdk' = level
    /\ fatal' = IF level >= 24
                THEN [offset |-> offset, pages |-> IF offset + PatchBytes >= Page THEN 2 ELSE 1]
                ELSE fatal
    /\ UNCHANGED <<cpu, dlcalls, level>>

\* ndk_dlopen, ndk_dlclose, ndk_dlerror, ndk_dlsym, ndk_dladdr: through the stub
\* or directly.  On i386 the arguments lie above the return address.
Args(forced) == IF forced THEN <<"p1", "p2", "fake", "called">> ELSE <<"p1", "p2">>

Call ==
    /\ cpu.at = "caller" /\ cpu.stack = <<"base">> /\ Len(dlcalls) < 2
    /\ LET forced == sdk >= 24
           to == IF forced THEN "stub" ELSE "linker"
           args == IF cpu.arch = "i386" THEN Args(forced) ELSE <<>>
       IN  cpu' = [cpu EXCEPT !.at = to, !.i = 1,
                     !.stack = (IF cpu.arch \in ByStack THEN <<"caller">> ELSE <<>>) \o args \o @,
                     !.lr = IF cpu.arch \in ByStack THEN @ ELSE "caller"]
    /\ UNCHANGED <<sdk, fatal, dlcalls, level>>

Code == IF cpu.at = "stub" THEN Stub[cpu.arch] ELSE Back[cpu.arch]

Place(target) ==
    CASE target = "called" -> "linker"
      [] target = "fake" -> "back"
      [] OTHER -> target

Jump(target, c) == [c EXCEPT !.at = Place(target), !.i = 1]

Executed(op, c) ==
    LET on == [c EXCEPT !.i = @ + 1]  s == c.stack
    IN  CASE op = "movl_fake"   -> [on EXCEPT !.stack = <<s[4]>> \o SubSeq(s, 2, 3) \o <<s[1]>>
                                                     \o SubSeq(s, 5, Len(s))]
          [] op = "push_called" -> [on EXCEPT !.stack = <<s[5]>> \o s]
          [] op = "push_fake"   -> [on EXCEPT !.stack = <<"fake">> \o s]
          [] op = "push_third"  -> [on EXCEPT !.stack = <<s[3]>> \o s]
          [] op = "stp_fp_lr"   -> [on EXCEPT !.stack = <<c.fp, c.lr>> \o s]
          [] op = "str_lr"      -> [on EXCEPT !.stack = <<c.lr>> \o s]
          [] op = "mov_fp"      -> [on EXCEPT !.fp = "stub_frame"]
          [] op = "mov_lr_fake" -> [on EXCEPT !.lr = "fake"]
          [] op = "ldp_fp_lr"   -> [on EXCEPT !.fp = s[1], !.lr = s[2], !.stack = SubSeq(s, 3, Len(s))]
          [] op = "jmp_called"  -> Jump("called", c)
          [] op = "bx_lr"       -> Jump(c.lr, c)
          [] op = "ret"         -> Jump(s[1], [c EXCEPT !.stack = Tail(s)])

Execute ==
    /\ cpu.at \in {"stub", "back"} /\ cpu.i <= Len(Code)
    /\ cpu' = Executed(Code[cpu.i], cpu)
    /\ UNCHANGED <<sdk, fatal, dlcalls, level>>

\* External: the linker notes who called it and returns there.
LinkerReturns ==
    /\ cpu.at = "linker"
    /\ LET stacked == cpu.arch \in ByStack
           from == IF stacked THEN cpu.stack[1] ELSE cpu.lr
       IN  /\ dlcalls' = Append(dlcalls, [saw |-> from, sdk |-> sdk])
           /\ cpu' = Jump(from, IF stacked THEN [cpu EXCEPT !.stack = Tail(@)] ELSE cpu)
    /\ UNCHANGED <<sdk, fatal, level>>

\* The caller drops the arguments it pushed (cdecl).
Drop ==
    /\ cpu.at = "caller" /\ cpu.stack # <<"base">>
    /\ LET n == IF cpu.arch # "i386" THEN 0 ELSE IF sdk >= 24 THEN 4 ELSE 2
       IN  cpu' = [cpu EXCEPT !.stack = SubSeq(@, n + 1, Len(@))]
    /\ UNCHANGED <<sdk, fatal, dlcalls, level>>

DlNext ==
    \/ \E offset \in 0 .. Page - 1 : ndk_init(offset)
    \/ Call \/ Execute \/ LinkerReturns \/ Drop

DlSpec == DlInit /\ [][DlNext]_dlVars

(* Whatever the architecture, a call comes back to its caller with the stack   *)
(* and the frame pointer as they were, the linker sees a caller inside the     *)
(* runtime whenever it asks for one, and no byte of FatalError was patched on  *)
(* a page that is not writable (dlopen.c:26-185).                              *)
ForcedCallSound ==
    /\ cpu.at \in {"caller", "stub", "linker", "back"}
    /\ cpu.at \in {"stub", "back"} => cpu.i <= Len(Code)
    /\ cpu.at = "caller" => /\ cpu.fp = "base_fp"
                            /\ cpu.stack[Len(cpu.stack)] = "base"
                            /\ cpu.arch # "i386" => cpu.stack = <<"base">>
                            /\ Len(cpu.stack) \in {1, 3, 5}
    /\ \A i \in DOMAIN dlcalls : dlcalls[i].sdk >= 24 => dlcalls[i].saw = "fake"
    /\ sdk >= 24 => fatal.offset + PatchBytes <= fatal.pages * Page
=============================================================================
