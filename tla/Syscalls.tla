------------------------------ MODULE Syscalls ------------------------------
(***************************************************************************)
(* linux_syscall_support.h: the inline assembly that enters the kernel, on *)
(* the architectures the header knows.  A statement is the registers its   *)
(* constraints give to its operands, its instructions and the registers it *)
(* declares as changed.  The compiler places the other operands in any     *)
(* registers that the constraints allow, and may keep a live value in      *)
(* every register that is not declared.  Instructions are executed one by  *)
(* one.  SYS_SYSCALL_ENTRYPOINT is not defined by this program.            *)
(***************************************************************************)
EXTENDS Processor, FiniteSetsExt

CONSTANTS SysArches    \* a subset of DOMAIN Abi

VARIABLES asm,         \* the statement: architecture, kind, placement, a null argument
          core,        \* what is executed: registers, memory, next instruction
          asmSeen,     \* what the kernel and the called function were given
          asmGot       \* the result and errno

asmVars == <<asm, core, asmSeen, asmGot>>

----------------------------------------------------------------------------
(* External: where each kernel finds the number and the arguments, where   *)
(* it leaves its answer, and which registers it may change.                *)

\* thumb2 is arm with __thumb2__ defined.
ArmAbi ==
  [word |-> 4, sp |-> "sp", nr |-> "r7", ret |-> "r0", err |-> "none",
   args |-> <<"r0", "r1", "r2", "r3", "r4", "r5">>, spoils |-> {}, others |-> {"r6", "r8", "lr"}]

Abi ==
  [i386    |-> [word |-> 4, sp |-> "esp", nr |-> "eax", ret |-> "eax", err |-> "none",
                args |-> <<"ebx", "ecx", "edx", "esi", "edi", "ebp">>, spoils |-> {},
                others |-> {}],
   x86_64  |-> [word |-> 8, sp |-> "rsp", nr |-> "rax", ret |-> "rax", err |-> "none",
                args |-> <<"rdi", "rsi", "rdx", "r10", "r8", "r9">>, spoils |-> {"rcx", "r11"},
                others |-> {"rbx", "rbp", "r12"}],
   arm     |-> ArmAbi,
   thumb2  |-> ArmAbi,
   aarch64 |-> [word |-> 8, sp |-> "sp", nr |-> "x8", ret |-> "x0", err |-> "none",
                args |-> <<"x0", "x1", "x2", "x3", "x4", "x5">>, spoils |-> {},
                others |-> {"x9", "x19"}],
   mips32  |-> [word |-> 4, sp |-> "$29", nr |-> "$2", ret |-> "$2", err |-> "$7",
                args |-> <<"$4", "$5", "$6", "$7">>, spoils |-> {"$8", "$9", "$10", "$25"},
                others |-> {"$16", "$17"}],
   mips64  |-> [word |-> 8, sp |-> "$29", nr |-> "$2", ret |-> "$2", err |-> "$7",
                args |-> <<"$4", "$5", "$6", "$7", "$8", "$9">>, spoils |-> {"$10", "$25"},
                others |-> {"$16", "$17"}],
   ppc     |-> [word |-> 4, sp |-> "r1", nr |-> "r0", ret |-> "r3", err |-> "cr",
                args |-> <<"r3", "r4", "r5", "r6", "r7", "r8">>,
                spoils |-> {"r4", "r5", "r6", "r7", "r8", "r9", "r10"},
                others |-> {"r14", "r15", "r27", "r28", "r29", "ctr"}]]

ArgRegs(a) == {Abi[a].args[i] : i \in DOMAIN Abi[a].args}
General(a) == ArgRegs(a) \cup Abi[a].spoils \cup Abi[a].others \cup {Abi[a].nr, Abi[a].ret}
Registers(a) == General(a) \cup {Abi[a].sp, Abi[a].err}

(* Values: one for each register that is live, and one for each operand.   *)
LiveValues ==
  [a \in DOMAIN Abi |-> FoldSet(LAMBDA r, f : f @@ (r :> 300 + Cardinality(DOMAIN f)), <<>>, Registers(a))]
StackAt == 4000            \* the stack pointer before the statement
ArgsAt == 5000         \* struct { long __a1; long __a6; } of the i386 _syscall6
FrameAt == 3000        \* a signal frame
ChildAt == 2000        \* child_stack
EINVAL == 22
Operand ==
  [nr |-> 200, clone |-> 201, exit |-> 202, sigreturn |-> 203, rt_sigreturn |-> 204,
   a1 |-> 101, a2 |-> 102, a3 |-> 103, a4 |-> 104, a5 |-> 105, a6 |-> 106, args |-> ArgsAt,
   fn |-> 110, arg |-> 111, flags |-> 112, ptid |-> 113, tls |-> 114, ctid |-> 115,
   minusEINVAL |-> -EINVAL, minus1 |-> -1, errno |-> EINVAL, fnResult |-> 77, zero |-> 0, junk |-> Junk]
Names6 == <<"a1", "a2", "a3", "a4", "a5", "a6">>

----------------------------------------------------------------------------
Set(d, v) == PutN(d, Operand[v])
PushR(a, r) == PushOn(Abi[a].sp, Abi[a].word, r)
PopR(a, r) == PopFrom(Abi[a].sp, Abi[a].word, r)

----------------------------------------------------------------------------
(* The statements of _syscall0 ... _syscall6.  fixed: the operands with a  *)
(* register of their own; free: those the compiler places; outs and        *)
(* clobbers: the registers declared as changed; res, err: the outputs.     *)

Least(m, n) == IF m < n THEN m ELSE n
FirstArgs(regs, m, n) == [r \in {regs[i] : i \in m .. n} |-> Names6[CHOOSE i \in m .. n : regs[i] = r]]

I386Body(n, p) ==
  LET saved(code) == PushR("i386", "ebx") \o code \o PopR("i386", "ebx")
      rest == FirstArgs(Abi.i386.args, 2, Least(n, 5))
  IN  [fixed |-> (IF n = 5 THEN rest ELSE "eax" :> (IF n = 6 THEN "args" ELSE "nr") @@ rest),
       free |-> IF n \in 1 .. 5 THEN {"a1"} ELSE {},
       outs |-> {"eax"}, clobbers |-> {}, res |-> "eax", err |-> "none",
       code |-> CASE n = 0 -> <<Trap>>
                  [] n \in 1 .. 4 -> saved(<<Mov("ebx", p.a1), Trap>>)
                  [] n = 5 -> saved(<<Mov("ebx", p.a1), Set("eax", "nr"), Trap>>)
                  [] n = 6 -> PushR("i386", "ebp")
                                \o saved(<<Ld("ebp", "eax", 4), Ld("ebx", "eax", 0), Set("eax", "nr"), Trap>>)
                                \o PopR("i386", "ebp")]

\* LSS_BODY_ASM, LSS_BODY_CLOBBER and LSS_BODY_ARG.
X64Body(n, p) ==
  [fixed |-> "rax" :> "nr" @@ FirstArgs(Abi.x86_64.args, 1, Least(n, 3)),
   free |-> {Names6[i] : i \in 4 .. n},
   outs |-> {"rax"}, clobbers |-> {"r11", "rcx"} \cup {Abi.x86_64.args[i] : i \in 4 .. n},
   res |-> "rax", err |-> "none",
   code |-> IF n < 4 THEN <<Trap>>
            ELSE [i \in 1 .. n - 3 |-> Mov(Abi.x86_64.args[i + 3], p[Names6[i + 3]])] \o <<Trap>>]

\* LSS_BODY of __ARM_EABI__.  r7 may be the frame pointer, so it is saved.
ArmBody(n, p) ==
  [fixed |-> FirstArgs(Abi.arm.args, 1, n), free |-> {},
   outs |-> {"r0"}, clobbers |-> {"lr"}, res |-> "r0", err |-> "none",
   code |-> PushR("arm", "r7") \o <<Set("r7", "nr"), Trap>> \o PopR("arm", "r7")]

Aarch64Body(n, p) ==
  [fixed |-> FirstArgs(Abi.aarch64.args, 1, n), free |-> {},
   outs |-> {"x0"}, clobbers |-> {"x8"}, res |-> "x0", err |-> "none",
   code |-> <<Set("x8", "nr"), Trap>>]

\* The old ABI takes the fifth and the sixth argument from the stack.
Mips32Body(n, p) ==
  [fixed |-> "$2" :> "nr" @@ FirstArgs(Abi.mips32.args, 1, Least(n, 4)),
   free |-> {Names6[i] : i \in 5 .. n},
   outs |-> {"$2", "$7"}, clobbers |-> {"$8", "$9", "$10", "$25"}, res |-> "$2", err |-> "$7",
   code |-> IF n < 5 THEN <<Trap>>
            ELSE <<Inc("$29", -32)>> \o [i \in 1 .. n - 4 |-> St(p[Names6[i + 4]], "$29", 12 + 4 * i)]
                   \o <<Trap, Inc("$29", 32)>>]

Mips64Body(n, p) ==
  [fixed |-> "$2" :> "nr" @@ FirstArgs(Abi.mips64.args, 1, n), free |-> {},
   outs |-> {"$2", "$7"}, clobbers |-> {"$10", "$25"}, res |-> "$2", err |-> "$7",
   code |-> <<Trap>>]

\* LSS_LOADARGS and LSS_ASMINPUT; mfcr leaves the condition register in r0.
PpcBody(n, p) ==
  [fixed |-> "r0" :> "nr" @@ FirstArgs(Abi.ppc.args, 1, n), free |-> {},
   outs |-> {"r0", "r3", "r4", "r5", "r6", "r7", "r8"}, clobbers |-> {"cr", "ctr", "r9", "r10"},
   res |-> "r3", err |-> "r0",
   code |-> <<Trap, Mov("r0", "cr")>>]

----------------------------------------------------------------------------
(* clone: fn and arg are left on the child's stack; the child calls fn and *)
(* exits with its result.                                                  *)

\* All operands are in memory, addressed from the stack pointer.
MemOperands == <<"fn", "stack", "flags", "arg", "ptid", "tls", "ctid">>
FromMem(d, o) == Ld(d, "esp", 4 * (CHOOSE i \in DOMAIN MemOperands : MemOperands[i] = o))

I386Clone(p) ==
  [fixed |-> "eax" :> "minusEINVAL", free |-> {},
   outs |-> {"eax"}, clobbers |-> {"ecx", "edx", "esi", "edi"}, res |-> "eax", err |-> "none",
   code |-> <<FromMem("ecx", "fn"), Jz("ecx"), FromMem("ecx", "stack"), Jz("ecx"),
              Align16("ecx"), Inc("ecx", -20), FromMem("eax", "arg"), St("eax", "ecx", 4),
              FromMem("eax", "fn"), St("eax", "ecx", 0),
              FromMem("esi", "tls"), FromMem("edx", "ptid"), FromMem("eax", "flags"), FromMem("edi", "ctid")>>
            \o PushR("i386", "ebx") \o <<Mov("ebx", "eax"), Set("eax", "clone"), Trap>> \o PopR("i386", "ebx")
            \o <<Jnz("eax"), Set("ebp", "zero"), CallReg("ebx"), Mov("ebx", "eax"), Set("eax", "exit"), Trap, One>>]

X64Clone(p) ==
  [fixed |-> [rax |-> "minusEINVAL", rsi |-> "stack", rdi |-> "flags", rdx |-> "ptid"],
   free |-> {"fn", "arg", "tls", "ctid"},
   outs |-> {"rax"}, clobbers |-> {"r8", "r10", "r11", "rcx"}, res |-> "rax", err |-> "none",
   code |-> <<Jz(p.fn), Jz("rsi"), Inc("rsi", -16), St(p.arg, "rsi", 8), St(p.fn, "rsi", 0),
              Set("rax", "clone"), Mov("r8", p.tls), Mov("r10", p.ctid), Trap, Jnz("rax"),
              Set("rbp", "zero")>>
            \o PopR("x86_64", "rax") \o PopR("x86_64", "rdi")
            \o <<CallReg("rax"), Mov("rdi", "rax"), Set("rax", "exit"), Trap, One>>]

\* Only __thumb2__ saves r7, and then does not declare it; the other branch calls
\* with the function in no register but pc.
ArmClone(p, thumb2) ==
  LET saves(code) == IF thumb2 THEN code ELSE <<>>
      entry == IF thumb2 THEN "r7" ELSE "lr"
  IN  [fixed |-> [r0 |-> "flags", r1 |-> "stack", r2 |-> "ptid", r3 |-> "tls", r4 |-> "ctid"],
       free |-> {"fn", "arg", "res"},
       outs |-> {p.res}, clobbers |-> IF thumb2 THEN {"lr"} ELSE {"r7", "lr"}, res |-> p.res, err |-> "none",
       code |-> saves(PushR("arm", "r7"))
                \o <<Jz0(p.fn, p.res, -EINVAL), Jz0("r1", p.res, -EINVAL),
                     Inc("r1", -4), St(p.arg, "r1", 0), Inc("r1", -4), St(p.fn, "r1", 0),
                     Set("r7", "clone"), Trap, Mov(p.res, "r0"), Jnz(p.res), Ld("r0", "sp", 4),
                     Ld(entry, "sp", 0), CallReg(entry), Set("r7", "exit"), Trap, One>>
                \o saves(PopR("arm", "r7"))]

Aarch64Clone(p) ==
  [fixed |-> [x0 |-> "flags", x1 |-> "stack", x2 |-> "ptid", x3 |-> "tls", x4 |-> "ctid"],
   free |-> {"fn", "arg", "res"},
   outs |-> {p.res}, clobbers |-> {"x8"}, res |-> p.res, err |-> "none",
   code |-> <<Inc("x1", -16), St(p.fn, "x1", 0), St(p.arg, "x1", 8), Set("x8", "clone"), Trap,
              Mov(p.res, "x0"), Jnz("x0"), Ld("x1", "sp", 0), Ld("x0", "sp", 8), Inc("sp", 16),
              CallReg("x1"), Set("x8", "exit"), Trap, One>>]

MipsClone(p, frame, second) ==
  [fixed |-> "$2" :> "junk" @@ "$4" :> "flags" @@ "$5" :> "stack" @@ "$6" :> "ptid" @@ "$7" :> "tls" @@ "$8" :> "ctid",
   free |-> {"fn", "arg"},
   outs |-> {"$2", "$7"}, clobbers |-> {"$9", "$10", "$25"}, res |-> "$2", err |-> "$7",
   code |-> <<Inc("$29", -frame), Set("$2", "minusEINVAL"), Jz(p.fn), Jz("$5"),
              Inc("$5", -32), St(p.fn, "$5", 0), St(p.arg, "$5", second), Set("$2", "clone"), Trap,
              Jnz("$7"), Jnz("$2"), Ld("$25", "$29", 0), Ld("$4", "$29", second), CallReg("$25"),
              Mov("$4", "$2"), Set("$2", "exit"), Trap, One, Inc("$29", frame)>>]

PpcClone(p) ==
  [fixed |-> [r8 |-> "fn", r4 |-> "stack", r3 |-> "flags", r9 |-> "arg", r5 |-> "ptid", r6 |-> "tls", r7 |-> "ctid"],
   free |-> {"minus1", "errno"},
   outs |-> {p.minus1, p.errno}, clobbers |-> {"cr", "ctr", "r0", "r29", "r27", "r28"},
   res |-> p.minus1, err |-> p.errno,
   code |-> <<Jz("r8"), Jz("r4"), Align16("r4"), Set("r0", "zero"), Inc("r4", -16), St("r0", "r4", 0),
              Mov("r28", "r8"), Mov("r29", "r4"), Mov("r27", "r9"), Set("r0", "clone"), Trap,
              Jnz("cr"), Jnz("r3"), Mov("ctr", "r28"), Mov("r3", "r27"), CallReg("ctr"),
              Set("r0", "exit"), Trap, One, Mov(p.errno, "cr"), Mov(p.minus1, "r3")>>]

\* The restorers a handler returns to.
Restorer(a, rt) ==
  [fixed |-> <<>>, free |-> {}, outs |-> {}, clobbers |-> {}, res |-> "none", err |-> "none",
   code |-> (IF rt THEN <<>> ELSE PopR(a, "eax"))
            \o <<Set(Abi[a].nr, IF rt THEN "rt_sigreturn" ELSE "sigreturn"), Trap>>]

Body(a, n, p) ==
  CASE a = "i386" -> I386Body(n, p)       [] a = "x86_64" -> X64Body(n, p)
    [] a \in {"arm", "thumb2"} -> ArmBody(n, p) [] a = "aarch64" -> Aarch64Body(n, p)
    [] a = "mips32" -> Mips32Body(n, p)   [] a = "mips64" -> Mips64Body(n, p)
    [] a = "ppc" -> PpcBody(n, p)

Clone(a, p) ==
  CASE a = "i386" -> I386Clone(p)         [] a = "x86_64" -> X64Clone(p)
    [] a \in {"arm", "thumb2"} -> ArmClone(p, a = "thumb2") [] a = "aarch64" -> Aarch64Clone(p)
    [] a = "mips32" -> MipsClone(p, 24, 4)
    [] a = "mips64" -> MipsClone(p, 16, 8)
    [] a = "ppc" -> PpcClone(p)

Statement(a, kind, n, p) ==
  CASE kind = "call" -> Body(a, n, p)
    [] kind = "clone" -> Clone(a, p)
    [] kind \in {"restore", "restore_rt"} -> Restorer(a, kind = "restore_rt")

\* Any placement shows which operands have to be placed.
AnyPlace == [o \in DOMAIN Operand \cup {"res"} |-> "none"]

\* Inputs get different registers, outside the fixed and the clobbered ones; an
\* output may share the register of an input.
Placements(a, kind, n) ==
  LET s == Statement(a, kind, n, AnyPlace)
      inputs == s.free \ {"res"}
      spare == General(a) \ (DOMAIN s.fixed \cup s.clobbers \cup {"ctr"})
  IN  {p \in [s.free -> spare \cup (IF "res" \in s.free THEN DOMAIN s.fixed ELSE {})] :
         /\ \A o \in inputs : p[o] \in spare
         /\ \A o, q \in inputs : o # q => p[o] # p[q]}

----------------------------------------------------------------------------
(* Execution.                                                              *)

Kinds3(a) ==
  {"call", "clone"} \cup (IF a = "i386" THEN {"restore", "restore_rt"}
                          ELSE IF a = "x86_64" THEN {"restore_rt"} ELSE {})

\* External: child_stack may be misaligned only where the statement aligns it.
StackSkews(a) == IF a \in {"i386", "ppc"} THEN {0, 4, 12} ELSE {0}

Value(s, o) ==
  CASE o = "stack" -> IF s.null = "stack" THEN 0 ELSE ChildAt + s.skew
    [] o = "fn" -> IF s.null = "fn" THEN 0 ELSE Operand.fn
    [] OTHER -> Operand[o]

CodeOf(s) == Statement(s.arch, s.kind, s.n, s.place)

\* Every register that holds no operand holds a live value.
EntryRegs(s) ==
  LET c == CodeOf(s)
      held(r) == {o \in c.free \ {"res"} : s.place[o] = r}
      live(r) == IF r = "cr" THEN 0 ELSE LiveValues[s.arch][r]
  IN  [r \in Registers(s.arch) |->
         IF r = Abi[s.arch].sp THEN (IF s.kind \in {"call", "clone"} THEN StackAt ELSE FrameAt + Abi[s.arch].word)
         ELSE IF r \in DOMAIN c.fixed THEN Value(s, c.fixed[r])
         ELSE IF held(r) # {} THEN Value(s, CHOOSE o \in held(r) : TRUE)
         ELSE live(r)]

SysInit ==
  /\ asm \in UNION {[arch : {a}, kind : {k}, n : IF k = "call" THEN 0 .. 6 ELSE {0},
                     place : UNION {Placements(a, k, n) : n \in IF k = "call" THEN 0 .. 6 ELSE {0}},
                     null : IF k = "clone" THEN {"none", "fn", "stack"} ELSE {"none"},
                     skew : IF k = "clone" THEN StackSkews(a) ELSE {0}] :
                    a \in SysArches, k \in {"call", "clone", "restore", "restore_rt"}}
  /\ asm.kind \in Kinds3(asm.arch)
  /\ asm.place \in Placements(asm.arch, asm.kind, asm.n)
  /\ core = [reg |-> EntryRegs(asm), i |-> 1, child |-> FALSE, at |-> "code",
             mem |-> (ArgsAt :> Operand.a1 @@ (ArgsAt + 4) :> Operand.a6)
                       @@ [d \in {StackAt + 4 * i : i \in DOMAIN MemOperands} |->
                             Value(asm, MemOperands[(d - StackAt) \div 4])]]
  /\ asmSeen = [args |-> <<>>, answer |-> [ok |-> TRUE, v |-> 0], called |-> <<>>, left |-> 0]
  /\ asmGot = [rc |-> 0, errno |-> 0]

ExecuteAsm ==
  /\ core.at = "code" /\ core.i <= Len(CodeOf(asm).code)
  /\ LET code == CodeOf(asm).code
     IN  /\ code[core.i][1] \notin {"trap", "call"}
         /\ core' = Executed1(code[core.i], core, code)
  /\ UNCHANGED <<asm, asmSeen, asmGot>>

Trapped == core.at = "code" /\ core.i <= Len(CodeOf(asm).code) /\ CodeOf(asm).code[core.i] = Trap
Number == core.reg[Abi[asm.arch].nr]

\* External: what the kernel was given.
Given ==
  LET a == Abi[asm.arch]
      inRegs == [i \in DOMAIN a.args |-> core.reg[a.args[i]]]
  IN  IF asm.arch = "mips32"
      THEN inRegs \o <<FetchWord(core, core.reg["$29"] + 16), FetchWord(core, core.reg["$29"] + 20)>>
      ELSE inRegs

\* External: a result that is no error, or an error number.  Where errors are
\* reported in the result, -4095 .. -1 are errors.
Answers(a) ==
  [ok : {TRUE}, v : {0, 7, -4096} \cup (IF Abi[a].err = "none" THEN {} ELSE {-1})]
    \cup [ok : {FALSE}, v : {1, EINVAL, 4095}]

Answered(answer) ==
  LET a == Abi[asm.arch]
  IN  [core EXCEPT !.i = @ + 1,
         !.reg = [r \in DOMAIN @ |->
                    IF r = a.ret THEN (IF answer.ok \/ a.err # "none" THEN answer.v ELSE -answer.v)
                    ELSE IF r = a.err /\ r # "none" THEN (IF answer.ok THEN 0 ELSE 1)
                    ELSE IF r \in a.spoils THEN Operand.junk
                    ELSE @[r]]]

KernelCall(answer) ==
  /\ Trapped /\ Number \in {Operand.nr, Operand.clone}
  /\ Number = Operand.clone /\ answer.ok => answer.v = 7
  /\ asmSeen' = [asmSeen EXCEPT !.args = Given, !.answer = answer]
  /\ core' = Answered(answer)
  /\ UNCHANGED <<asm, asmGot>>

\* External: the child starts with a copy of the registers, on its own stack.
ChildStarts ==
  /\ Trapped /\ Number = Operand.clone
  /\ LET answer == [ok |-> TRUE, v |-> 0]
     IN  /\ asmSeen' = [asmSeen EXCEPT !.args = Given, !.answer = answer]
         /\ core' = [Answered(answer) EXCEPT !.child = TRUE, !.reg[Abi[asm.arch].sp] = Given[2]]
  /\ UNCHANGED <<asm, asmGot>>

\* External: the function changes every register but the stack pointer.
CalledRuns ==
  /\ core.at = "code" /\ core.i <= Len(CodeOf(asm).code)
  /\ LET a == Abi[asm.arch]
         op == CodeOf(asm).code[core.i]
         sp == core.reg[a.sp]
         arg == IF asm.arch = "i386" THEN FetchWord(core, sp) ELSE core.reg[a.args[1]]
     IN  /\ op[1] = "call"
         /\ asmSeen' = [asmSeen EXCEPT !.called = Append(@, [fn |-> core.reg[op[2]], arg |-> arg, sp |-> sp])]
         /\ core' = [core EXCEPT !.i = @ + 1,
                       !.reg = [r \in DOMAIN @ |-> IF r = a.sp THEN sp
                                  ELSE IF r = a.ret THEN Operand.fnResult ELSE Operand.junk]]
  /\ UNCHANGED <<asm, asmGot>>

\* External: exit, sigreturn and rt_sigreturn do not come back.  The kernel finds
\* the signal frame from the stack pointer.
KernelEnds ==
  /\ Trapped /\ Number \in {Operand.exit, Operand.sigreturn, Operand.rt_sigreturn}
  /\ core' = [core EXCEPT !.at = IF Number = Operand.exit THEN "exited" ELSE "resumed"]
  /\ asmSeen' = [asmSeen EXCEPT !.left =
                   CASE Number = Operand.exit -> Given[1]
                     [] Number = Operand.sigreturn -> core.reg[Abi[asm.arch].sp] - 8
                     [] OTHER -> core.reg[Abi[asm.arch].sp] - Abi[asm.arch].word]
  /\ UNCHANGED <<asm, asmGot>>

\* Slip: the errors are taken to end at -4094.
MutReturn(res, err, flagged) ==
  IF flagged THEN (IF err # 0 THEN [rc |-> -1, errno |-> res] ELSE [rc |-> res, errno |-> 0])
  ELSE IF res \in -4094 .. -1 THEN [rc |-> -1, errno |-> -res] ELSE [rc |-> res, errno |-> 0]

LSS_RETURN(res, err, flagged) ==
  IF flagged THEN (IF err # 0 THEN [rc |-> -1, errno |-> res] ELSE [rc |-> res, errno |-> 0])
  ELSE IF res \in -4095 .. -1 THEN [rc |-> -1, errno |-> -res] ELSE [rc |-> res, errno |-> 0]

AsmReturns ==
  /\ core.at = "code" /\ core.i > Len(CodeOf(asm).code)
  /\ core' = [core EXCEPT !.at = "done"]
  /\ LET c == CodeOf(asm)
     IN  asmGot' = LSS_RETURN(core.reg[c.res], core.reg[c.err], c.err # "none")
  /\ UNCHANGED <<asm, asmSeen>>

SysNext ==
  \/ ExecuteAsm
  \/ \E answer \in Answers(asm.arch) : KernelCall(answer)
  \/ ChildStarts \/ CalledRuns \/ KernelEnds \/ AsmReturns

SysSpec == SysInit /\ [][SysNext]_asmVars

----------------------------------------------------------------------------
(* A register outside the outputs and the clobbers keeps its value; clone  *)
(* also changes its inputs, and on PowerPC does not declare r10.           *)
Kept ==
  LET c == CodeOf(asm)
  IN  \A r \in Registers(asm.arch) :
        \/ r \in c.outs \cup c.clobbers \cup {"none"}
        \/ asm.kind = "clone" /\ r \in DOMAIN c.fixed \cup (IF asm.arch = "ppc" THEN {"r10"} ELSE {})
        \/ core.reg[r] = EntryRegs(asm)[r]

\* The arguments of clone in the order of each kernel; the MIPS o32 kernel looks
\* for the last one on the stack, where the statement does not put it.
CloneArgs ==
  LET v(o) == Operand[o]
  IN  IF asm.arch = "x86_64" THEN <<v("flags"), v("ptid"), v("ctid"), v("tls")>>
      ELSE IF asm.arch = "mips32" THEN <<v("flags"), v("ptid"), v("tls")>>
      ELSE <<v("flags"), v("ptid"), v("tls"), v("ctid")>>

\* The places of __res that the statement loses: pop {r7} comes after the result.
Lost == asm.kind = "clone" /\ asm.arch = "thumb2" /\ asm.place.res = "r7"
\* AArch64 tests neither argument; MIPS and PowerPC leave with no error, or with
\* that of another register.
TestsNull == {"i386", "x86_64", "arm", "thumb2"}

(* Whatever registers the compiler chooses, but for r7 as the result of clone  *)
(* under __thumb2__, the kernel finds the number and every argument where it   *)
(* looks for them; the caller gets the result, or -1 and the error in errno,   *)
(* with its stack pointer and its live registers as they were; the child of    *)
(* clone calls fn(arg) once, on an aligned stack, and exits with its result;   *)
(* on i386, x86-64 and ARM a null function or stack is refused with EINVAL;    *)
(* and a signal frame is found where the handler left it                       *)
(* (linux_syscall_support.h:1576-3000).                                        *)
SyscallsSound ==
  LET refused == asm.null # "none"
      given == asmSeen.args
  IN  /\ core.at = "fault" => asm.arch = "aarch64" /\ asm.null = "stack"
      /\ core.at = "done" /\ ~refused =>
           /\ ~core.child /\ Kept /\ asmSeen.called = <<>>
           /\ asmSeen.answer.ok /\ ~Lost => asmGot = [rc |-> asmSeen.answer.v, errno |-> 0]
           /\ ~asmSeen.answer.ok /\ ~Lost => asmGot = [rc |-> -1, errno |-> asmSeen.answer.v]
           /\ asm.kind = "call" => \A i \in 1 .. asm.n : given[i] = Operand[Names6[i]]
      /\ given # <<>> /\ asm.kind = "clone" /\ ~refused =>
           \A i \in DOMAIN CloneArgs : given[IF i = 1 THEN 1 ELSE i + 1] = CloneArgs[i]
      /\ core.at = "done" /\ refused /\ asm.arch \in TestsNull =>
           (Lost \/ asmGot = [rc |-> -1, errno |-> EINVAL]) /\ given = <<>> /\ Kept
      /\ core.at = "exited" =>
           /\ core.child /\ Len(asmSeen.called) = 1 /\ asmSeen.left = Operand.fnResult
           /\ LET call == asmSeen.called[1]
              IN  /\ ~refused => call.fn = Operand.fn /\ call.arg = Operand.arg
                  /\ call.sp % (IF asm.arch \in {"arm", "thumb2", "mips32"} THEN 8 ELSE 16) = 0
                  /\ call.sp \in ChildAt - 32 .. ChildAt + asm.skew
      /\ core.at = "resumed" => asmSeen.left = FrameAt
=============================================================================
