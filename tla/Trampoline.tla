----------------------------- MODULE Trampoline -----------------------------
(***************************************************************************)
(* trampoline_x86.c and trampoline_arm.c: a hooked call enters a copy of   *)
(* the template, which asks push_hook_stack which hook to run, runs it on  *)
(* the caller's arguments and goes back to where pop_hook_stack says.  The *)
(* template is executed instruction by instruction, for calls that nest:   *)
(* a hook may call through another trampoline.                             *)
(***************************************************************************)
EXTENDS Processor

CONSTANTS MaxNest      \* calls through trampolines that are active at a time

VARIABLES tcpu,        \* the processor, its FPU stack, the architecture
          hookInfo,    \* the thread's trampoline_hook_info stack, the newest last
          acts         \* the calls in progress: what each passed and what has to come back

trampVars == <<tcpu, hookInfo, acts>>

----------------------------------------------------------------------------
(* Addresses.                                                              *)
CodeAt == 100          \* the copy of the template
DataAt == 200          \* trampoline_data
Push == 901
PopAt == 902
Hook == 903
InCaller == 801
InHook == 802
HookIdent == 7
StackTop == 4096

\* class trampoline: what its constructor writes behind the copied code.
trampoline == DataAt :> Push @@ (DataAt + 4) :> PopAt @@ (DataAt + 8) :> HookIdent
L_push_hook_stack == 0
L_pop_hook_stack == 4
L_hook_id == 8

PushX(r) == PushOn("esp", 4, r)
PopX(r) == PopFrom("esp", 4, r)
Fstpt == <<"fstpt", "esp", "esp", 0>>
Fldt == <<"fldt", "esp", "esp", 0>>

\* The address of trampoline_data is computed from that of the code; t is the
\* processor's latch for a push from memory.
X86Template ==
  PushX("ebp") \o <<Mov("ebp", "esp"), PutN("ecx", DataAt), Ld("t", "ebp", 4)>> \o PushX("t")
    \o <<Inc("ecx", L_hook_id), Ld("eax", "ecx", 0)>> \o PushX("eax")
    \o <<Inc("ecx", L_push_hook_stack - L_hook_id), Ld("eax", "ecx", 0), CallReg("eax"), Mov("esp", "ebp")>>
    \o PopX("ebp") \o <<Inc("esp", 4), CallReg("eax")>>
    \o PushX("eax") \o PushX("edx") \o <<Inc("esp", -10), Fstpt>>
    \o PushX("ebp") \o <<Mov("ebp", "esp"), Align16("esp"), PutN("ecx", DataAt), Inc("ecx", L_pop_hook_stack),
                         Ld("eax", "ecx", 0), CallReg("eax"), Mov("ecx", "eax"), Mov("esp", "ebp")>>
    \o PopX("ebp") \o <<Fldt, Inc("esp", 10)>> \o PopX("edx") \o PopX("eax")
    \o PushX("ecx") \o <<<<"ret", "esp", "esp", 0>>>>

Arguments == <<"r0", "r1", "r2", "r3">>
PushArguments == <<Inc("sp", -16)>> \o [k \in 1 .. 4 |-> St(Arguments[k], "sp", 4 * k - 4)]
PopArguments == [k \in 1 .. 4 |-> Ld(Arguments[k], "sp", 4 * k - 4)] \o <<Inc("sp", 16)>>

\* Slip: the hook's results are not saved while pop_hook_stack runs.
MutArmTemplate ==
  PushArguments
    \o <<PutN("ip", DataAt), Ld("r0", "ip", L_hook_id), Mov("r1", "lr"), Ld("ip", "ip", L_push_hook_stack),
         CallReg("ip"), Mov("ip", "r0")>> \o PopArguments \o <<CallReg("ip")>>
    \o <<PutN("ip", DataAt), Ld("ip", "ip", L_pop_hook_stack), CallReg("ip"), Mov("lr", "r0")>>
    \o <<<<"bx", "lr", "lr", 0>>>>

ArmTemplate ==
  PushArguments
    \o <<PutN("ip", DataAt), Ld("r0", "ip", L_hook_id), Mov("r1", "lr"), Ld("ip", "ip", L_push_hook_stack),
         CallReg("ip"), Mov("ip", "r0")>> \o PopArguments \o <<CallReg("ip")>>
    \o PushArguments
    \o <<PutN("ip", DataAt), Ld("ip", "ip", L_pop_hook_stack), CallReg("ip"), Mov("lr", "r0")>> \o PopArguments
    \o <<<<"bx", "lr", "lr", 0>>>>

Template == IF tcpu.arch = "x86" THEN X86Template ELSE ArmTemplate
Sp == IF tcpu.arch = "x86" THEN "esp" ELSE "sp"
Scratch == IF tcpu.arch = "x86" THEN {"eax", "ecx", "edx", "t"} ELSE {"r0", "r1", "r2", "r3", "ip", "lr"}
ResultRegs == IF tcpu.arch = "x86" THEN <<"eax", "edx">> ELSE Arguments

----------------------------------------------------------------------------
(* External: the calling conventions.                                      *)

Goes(c, address) ==
  CASE address \in CodeAt + 1 .. CodeAt + Len(Template) -> [c EXCEPT !.at = "template", !.i = address - CodeAt]
    [] address = Push -> [c EXCEPT !.at = "push"]
    [] address = PopAt -> [c EXCEPT !.at = "pop"]
    [] address = Hook -> [c EXCEPT !.at = "hook"]
    [] address \in {InCaller, InHook} -> [c EXCEPT !.at = "returned"]
    [] OTHER -> [c EXCEPT !.at = "lost"]

Calls(c, address, back) ==
  IF tcpu.arch = "x86"
  THEN Goes([c EXCEPT !.reg["esp"] = @ - 4, !.mem = (c.reg["esp"] - 4) :> back @@ @], address)
  ELSE Goes([c EXCEPT !.reg["lr"] = back], address)

\* A called function leaves results, junk in the other scratch registers and
\* nothing below the stack.
Comes(c, results) ==
  LET sp == c.reg[Sp]
      back == IF tcpu.arch = "x86" THEN FetchWord(c, sp) ELSE c.reg["lr"]
      value(r) == IF \E k \in DOMAIN results : ResultRegs[k] = r
                  THEN results[CHOOSE k \in DOMAIN results : ResultRegs[k] = r]
                  ELSE IF r \in Scratch THEN Junk ELSE c.reg[r]
      after == [c EXCEPT !.reg = [r \in DOMAIN @ |-> IF r = "esp" THEN sp + 4 ELSE value(r)],
                         !.mem = [a \in {b \in DOMAIN @ : b >= sp \/ b \in DOMAIN trampoline} |-> @[a]]]
  IN  Goes(after, back)

Executes ==
  /\ tcpu.at = "template"
  /\ LET op == Template[tcpu.i]
     IN  tcpu' = CASE op[1] = "call" -> Calls(tcpu, tcpu.reg[op[2]], CodeAt + tcpu.i + 1)
                   [] op[1] = "ret" -> Goes([tcpu EXCEPT !.reg["esp"] = @ + 4], FetchWord(tcpu, tcpu.reg["esp"]))
                   [] op[1] = "bx" -> Goes(tcpu, tcpu.reg["lr"])
                   [] op[1] = "fstpt" ->
                        [tcpu EXCEPT !.i = @ + 1, !.st = IF @ = <<>> THEN @ ELSE Tail(@),
                           !.mem = tcpu.reg["esp"] :> (IF tcpu.st = <<>> THEN Junk ELSE Head(tcpu.st)) @@ @]
                   [] op[1] = "fldt" -> [tcpu EXCEPT !.i = @ + 1, !.st = <<FetchWord(tcpu, tcpu.reg["esp"])>> \o @]
                   [] OTHER -> Executed1(op, tcpu, Template)
  /\ UNCHANGED <<hookInfo, acts>>

Passed(k) == IF tcpu.arch = "x86" THEN FetchWord(tcpu, tcpu.reg["esp"] + 4 * k) ELSE tcpu.reg[Arguments[k]]
Aligned == IF tcpu.arch = "x86" THEN (tcpu.reg["esp"] + 4) % 16 = 0 ELSE tcpu.reg["sp"] % 8 = 0

\* push_hook_stack and pop_hook_stack, on the thread's own stack of calls.
push_hook_stack1 ==
  /\ tcpu.at = "push"
  /\ hookInfo' = Append(hookInfo, [id |-> Passed(1), return_address |-> Passed(2)])
  /\ tcpu' = Comes(tcpu, <<Hook>>)
  /\ UNCHANGED acts

pop_hook_stack1 ==
  /\ tcpu.at = "pop" /\ hookInfo # <<>>
  /\ hookInfo' = SubSeq(hookInfo, 1, Len(hookInfo) - 1)
  /\ tcpu' = Comes(tcpu, <<hookInfo[Len(hookInfo)].return_address>>)
  /\ UNCHANGED acts

\* External: somebody calls a hooked function with two arguments.
CallThrough(c, back) ==
  LET n == Len(acts) + 1
      below == c.reg[Sp] - 32 - (IF tcpu.arch = "x86" /\ back = InHook THEN 12 ELSE 0)
      args == <<10 * n + 1, 10 * n + 2>>
      ready == IF tcpu.arch = "x86"
               THEN [c EXCEPT !.reg["esp"] = below, !.mem = below :> args[1] @@ (below + 4) :> args[2] @@ @]
               ELSE [c EXCEPT !.reg = [@ EXCEPT !["r0"] = args[1], !["r1"] = args[2], !["sp"] = below],
                              !.mem = (below + 24) :> c.reg["lr"] @@ @]
  IN  /\ acts' = Append(acts, [args |-> args, back |-> back, sp |-> below, regs |-> c.reg, st |-> Len(c.st),
                               info |-> hookInfo, results |-> <<>>, float |-> FALSE])
      /\ tcpu' = Calls(ready, CodeAt + 1, back)

CallerCalls == tcpu.at = "caller" /\ CallThrough(tcpu, InCaller) /\ UNCHANGED hookInfo

\* External: the hook calls another hooked function, or returns two integers or
\* also a floating point number.
HookCalls ==
  /\ tcpu.at \in {"hook", "hook again"} /\ Len(acts) < MaxNest
  /\ CallThrough(tcpu, InHook) /\ UNCHANGED hookInfo

HookReturns(float) ==
  /\ tcpu.at \in {"hook", "hook again"}
  /\ LET n == Len(acts)
         results == <<70 + n, 80 + n>>
     IN  /\ acts' = [acts EXCEPT ![n].results = results, ![n].float = float]
         /\ tcpu' = [Comes(tcpu, results) EXCEPT !.st = IF float THEN <<90 + n>> \o @ ELSE @]
  /\ UNCHANGED hookInfo

\* External: back in the caller, or in the hook that called; a floating point
\* result is consumed.
Resumes ==
  /\ tcpu.at = "returned"
  /\ LET n == Len(acts)
         act == acts[n]
         c == [tcpu EXCEPT !.st = IF act.float THEN Tail(@) ELSE @, !.reg[Sp] = act.regs[Sp],
                 !.at = IF act.back = InHook THEN "hook again" ELSE "caller"]
     IN  /\ acts' = SubSeq(acts, 1, n - 1)
         /\ tcpu' = IF tcpu.arch = "arm" THEN [c EXCEPT !.reg["lr"] = FetchWord(tcpu, act.sp + 24)] ELSE c
  /\ UNCHANGED hookInfo

TrampInit ==
  /\ tcpu \in {[arch |-> "x86", at |-> "caller", i |-> 0, mem |-> trampoline, st |-> <<>>,
                reg |-> [eax |-> 1, ecx |-> 2, edx |-> 3, ebp |-> 4, ebx |-> 5, esp |-> StackTop, t |-> 0]],
               [arch |-> "arm", at |-> "caller", i |-> 0, mem |-> trampoline, st |-> <<>>,
                reg |-> [r0 |-> 1, r1 |-> 2, r2 |-> 3, r3 |-> 4, r4 |-> 5, ip |-> 6, lr |-> 7, sp |-> StackTop]]}
  /\ hookInfo = <<>> /\ acts = <<>>

TrampNext ==
  \/ CallerCalls \/ Executes \/ push_hook_stack1 \/ pop_hook_stack1
  \/ HookCalls \/ Resumes
  \/ \E float \in IF tcpu.arch = "x86" THEN BOOLEAN ELSE {FALSE} : HookReturns(float)

(* A hooked call cannot be told from a plain one: the hook finds the caller's  *)
(* arguments where the caller put them, on an aligned stack, and the caller    *)
(* gets the hook's results, integer or floating point, with its stack pointer, *)
(* its frame pointer and its other preserved registers as they were, however   *)
(* calls nest; the thread's stack of hook records is as deep as the calls in   *)
(* progress.  On x86 at most one register of the FPU stays occupied            *)
(* (trampoline_x86.c:17-170, trampoline_arm.c:17-54).                          *)
HookedCallTransparent ==
  LET n == Len(acts)
      act == acts[n]
  IN  /\ tcpu.at # "lost"
      /\ tcpu.at \in {"push", "pop", "hook"} => Aligned
      /\ tcpu.at = "push" => Passed(1) = HookIdent /\ Passed(2) = act.back
      /\ tcpu.at = "hook" => /\ \A k \in 1 .. 2 : Passed(k) = act.args[k]
                             /\ Len(hookInfo) = n
      /\ tcpu.at = "returned" =>
           /\ tcpu.reg[Sp] = act.sp /\ hookInfo = act.info
           /\ \A r \in DOMAIN tcpu.reg \ (Scratch \cup {Sp}) : tcpu.reg[r] = act.regs[r]
           /\ \A k \in DOMAIN act.results : tcpu.reg[ResultRegs[k]] = act.results[k]
           /\ act.float => Head(tcpu.st) = 90 + n
      /\ tcpu.at = "pop" => hookInfo # <<>>
      /\ Len(tcpu.st) <= 2 /\ (tcpu.at = "caller" => Len(tcpu.st) <= 1)
=============================================================================
