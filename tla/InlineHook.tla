---------------------------- MODULE InlineHook ----------------------------
(***************************************************************************)
(* MSHookFunction of the Substrate library (SubstrateHook.cpp): the first  *)
(* instructions of a function are overwritten with a jump to the           *)
(* replacement, and copied to a buffer that runs them and goes on behind   *)
(* them, so that the replacement can still call the function.  What is     *)
(* relative to the program counter is rewritten: values and jump           *)
(* targets go to the end of the buffer and the code refers to them.  Some  *)
(* instructions relative to the program counter are not recognised and     *)
(* copied as they are, and some are rewritten wrongly (Mishandled).        *)
(*                                                                         *)
(* The buffer is a function from positions to items, in halfwords for      *)
(* Thumb, words for ARM and bytes for x86; an item names its operation and *)
(* the operand that the code encodes.  A processor runs the buffer, and    *)
(* what it does is compared with what the instructions did in place.       *)
(***************************************************************************)
EXTENDS Integers, Sequences, FiniteSets, SequencesExt

CONSTANTS Isas,        \* of {"thumb", "arm", "ia32", "x64near", "x64far"}
          MaxSpecial   \* bound: rewritten instructions among those displaced

ASSUME IsasKnown == Isas \subseteq {"thumb", "arm", "ia32", "x64near", "x64far"}

VARIABLES target,    \* the function: isa, address, its first instructions
          hooking,   \* the call of MSHookFunction
          buf,       \* the buffer
          entry,     \* what the function begins with: "code" or "jump"
          proc       \* the processor in the buffer, and what it did so far

inlineVars == <<target, hooking, buf, entry, proc>>

-----------------------------------------------------------------------------
(* Instructions *)

\* What the two passes tell apart, and what they do not recognise although it is
\* relative to the pc: Thumb b, adr and the wide forms other than ldr; ARM b, bl and
\* adr; two-byte jcc; the RIP-relative forms other than a mov of 64 bits.
X64Kinds == {"mov", "movhigh", "movbase", "mov32", "riprel", "jmpmem",
             "call", "next", "jmp8", "jmp32", "jcc", "jcc32"}
Kinds ==
    [thumb   |-> {"ldr", "b", "bw", "bcw", "bl", "blx", "cbz", "ldrw", "add", "addhigh", "wide",
                  "b16", "adr", "widepc"},
     arm     |-> {"ldr", "ldrreg", "ldrsame", "str", "strsame", "ldrpc", "veneer", "extend",
                  "b", "bl", "adr"},
     ia32    |-> {"call", "next", "jmp8", "jmp32", "jcc", "jcc32"},
     x64near |-> X64Kinds,
     x64far  |-> X64Kinds]

X64 == {"x64near", "x64far"}
X86 == {"ia32"} \cup X64

\* MSGetInstructionWidthThumb, ...ARM and ...Intel, in the units of the buffer.
Width(isa, k) ==
    CASE isa = "thumb" -> IF k \in {"bw", "bcw", "bl", "blx", "ldrw", "wide", "widepc"} THEN 2 ELSE 1
      [] isa = "arm" -> 1
      [] isa \in X86 -> CASE k \in {"mov", "movhigh", "movbase", "riprel"} -> 7
                          [] k \in {"mov32", "jmpmem", "jcc32"} -> 6
                          [] k \in {"call", "next", "jmp32"} -> 5
                          [] k \in {"jmp8", "jcc"} -> 2
                          [] k = "plain" -> 3

UnitBytes(isa) == CASE isa = "thumb" -> 2 [] isa = "arm" -> 4 [] isa \in X86 -> 1

\* MSSizeOfPushPointer, MSSizeOfJump without and with a source.
PointerSize(isa) == IF isa = "ia32" THEN 5 ELSE 13
BlindJump(isa) == IF isa = "ia32" THEN 5 ELSE PointerSize(isa) + 1
JumpSize(isa) == IF isa = "x64far" THEN BlindJump(isa) ELSE 5

\* The bytes that the jump to the replacement takes; Thumb aligns it first.
Required(isa, area) ==
    CASE isa = "thumb" -> (IF area % 4 = 0 THEN 0 ELSE 1) + 6
      [] isa = "arm" -> 2
      [] isa \in X86 -> JumpSize(isa)

WidthOf(isa, ks) == FoldLeft(LAMBDA n, k : n + Width(isa, k), 0, ks)

\* Where instruction i is; a displacement that every kind of reference shares.
Start(t, i) == WidthOf(t.isa, SubSeq(t.body, 1, i - 1))
Address(t, i) == t.area + Start(t, i) * UnitBytes(t.isa)
Used(t) == WidthOf(t.isa, t.body)
Far == 400

Align4(n) == (n \div 4) * 4

\* What instruction i refers to, or the address that it loads and jumps to: relative
\* to the value of pc, aligned for loads and for a call of ARM code.
Refers(t, i) ==
    LET p == Address(t, i)  k == t.body[i]
    IN  CASE t.isa = "thumb" /\ k \in {"ldr", "ldrw", "blx", "adr", "widepc"} -> Align4(p + 4) + Far
          [] t.isa = "thumb" /\ k \in {"b", "bw", "bcw", "bl", "cbz", "b16"} -> p + 4 + Far + 1
          [] t.isa = "thumb" /\ k \in {"add", "addhigh"} -> p + 4
          [] t.isa = "arm" -> p + 8 + (IF k \in {"ldrpc", "veneer", "b", "bl"} THEN Far ELSE 0)
          [] t.isa \in X86 /\ k = "next" -> p + 5
          [] OTHER -> p + Width(t.isa, k) + Far

\* The value that the code computes for it; it aligns no target of a call.
Reached(t, i) ==
    LET p == Address(t, i)  k == t.body[i]
    IN  CASE k = "blx" -> p + 4 + Far [] t.isa = "arm" -> p + 8 [] OTHER -> Refers(t, i)

\* What the instruction does, unless it jumps away.
Effect(t, i) ==
    LET k == t.body[i]
    IN  CASE k \in {"ldr", "ldrw", "widepc", "ldrreg", "ldrsame", "mov", "movhigh", "movbase", "riprel"} ->
                 <<<<"load", Refers(t, i)>>>>
          [] k = "mov32" -> <<<<"load half", Refers(t, i)>>>>
          [] k \in {"str", "strsame"} -> <<<<"store", Refers(t, i)>>>>
          [] k \in {"bl", "blx", "call"} -> <<<<"call", Refers(t, i)>>>>
          [] k \in {"add", "adr"} -> <<<<"add", Refers(t, i)>>>>
          [] k = "next" -> <<<<"push", Refers(t, i)>>>>
          [] k \in {"plain", "wide", "extend"} -> <<<<"does", i>>>>
          [] OTHER -> <<>>

Always(k) == k \in {"bw", "b16", "ldrpc", "veneer", "jmp8", "jmp32", "jmpmem"}
Jumps(k) == Always(k) \/ k \in {"b", "bcw", "cbz", "jcc", "jcc32"}

Unrecognised(isa) ==
    CASE isa = "thumb" -> {"b16", "adr", "widepc"}
      [] isa = "arm" -> {"b", "bl", "adr"}
      [] isa \in X86 -> {"riprel", "jmpmem", "jcc32"}

\* Rewritten wrongly: a blx at an odd halfword; an ARM store, whose register is
\* overwritten with the address, a load of the pc, and the extensions that
\* A$pcrel$r takes for loads; 32 bits loaded as 64; mov through rsp, rbp, r12, r13.
Mishandled(t, i) ==
    \/ t.body[i] \in Unrecognised(t.isa) \cup {"str", "ldrpc", "veneer", "extend", "mov32", "movbase"}
    \/ t.body[i] = "blx" /\ Address(t, i) % 4 # 0

\* Up to MaxSpecial of the instructions are not plain.
Bodies(isa, area) ==
    LET with(n, S) == {[i \in 1 .. n |-> IF i \in S THEN f[i] ELSE "plain"] : f \in [S -> Kinds[isa]]}
        few(n) == {S \in SUBSET (1 .. n) : Cardinality(S) <= MaxSpecial}
        all == UNION {UNION {with(n, S) : S \in few(n)} : n \in 1 .. 7}
    IN  {b \in all : /\ WidthOf(isa, b) >= Required(isa, area)
                     /\ WidthOf(isa, Front(b)) < Required(isa, area)}

-----------------------------------------------------------------------------
(* The size of the buffer, from the first pass over the instructions *)

\* Slip: a wide load is taken to need no more than a narrow one.
MutExtraThumb(k) ==
    CASE k \in {"ldr", "ldrw"} -> 3 [] k \in {"b", "add", "addhigh"} -> 6
      [] k \in {"bw", "bcw", "bl", "blx"} -> 5 [] k = "cbz" -> 16 [] OTHER -> 0

ExtraThumb(k) ==
    CASE k = "ldr" -> 3 [] k \in {"b", "add", "addhigh"} -> 6 [] k \in {"bw", "bcw", "bl", "blx"} -> 5
      [] k = "cbz" -> 16 [] k = "ldrw" -> 4 [] OTHER -> 0

\* The test for one register meant to spare two words; its shift binds too tightly.
ExtraArm(k) ==
    CASE k \in {"ldr", "ldrpc", "veneer"} -> 2
      [] k \in {"ldrreg", "ldrsame", "str", "strsame", "extend"} -> 4
      [] OTHER -> 0

ExtraIntel(isa, k) ==
    CASE k \in {"mov", "movbase"} -> PointerSize(isa) + 1 + 3 - 7
      [] k = "movhigh" -> PointerSize(isa) + 2 + 3 - 7
      [] k = "mov32" -> PointerSize(isa) + 1 + 3 - 6
      [] k = "call" -> 5 + BlindJump(isa)
      [] k = "next" -> PointerSize(isa) - 5
      [] k = "jmp8" -> BlindJump(isa) - 2
      [] k = "jmp32" -> BlindJump(isa) - 5
      [] k = "jcc" -> 2 + BlindJump(isa)
      [] OTHER -> 0

Extra(isa, k) ==
    CASE isa = "thumb" -> ExtraThumb(k) [] isa = "arm" -> ExtraArm(k) [] isa \in X86 -> ExtraIntel(isa, k)

\* The pad makes the end of a Thumb buffer a multiple of four.
Length(t) ==
    LET code == Used(t) + FoldLeft(LAMBDA n, k : n + Extra(t.isa, k), 0, t.body)
        pad == IF t.isa = "thumb" THEN code % 2 ELSE 0
    IN  [pad |-> pad,
         all |-> code + pad + (CASE t.isa = "thumb" -> 6 [] t.isa = "arm" -> 2
                                 [] t.isa \in X86 -> BlindJump(t.isa))]

-----------------------------------------------------------------------------
(* What is written for one instruction, between start s and end e *)

Wide(op, v, n) == [i \in 1 .. n |-> [op |-> IF i = 1 THEN op ELSE "second", v |-> v, n |-> n]]
Op(op, v) == Wide(op, v, 1)
Two(op, v) == Wide(op, v, 2)

\* T$Label: from a halfword to a word, relative to the aligned pc.
Label(l, r) == (r - l) * 2 - 4 + (IF l % 2 = 0 THEN 0 ELSE 2)
Imm8(n) == ((n \div 4) % 256) * 4

\* bx pc; nop; ldr pc, [pc, #-4]; the address.
ArmGoto(a) == Op("bx pc", 0) \o Op("nop", 0) \o Two("ldr pc", 0) \o Two("word", a)

ThumbLoad(s, e, a) ==
    [code |-> Op("ldr literal", Imm8(Label(s, e - 2))) \o Op("ldr", 0), trail |-> Two("word", a)]

ThumbBranch(k, s, e, a) ==
    [code |-> Op(IF k = "bw" THEN "b" ELSE "branch", (e - 6 - s) * 2 - 4), trail |-> ArmGoto(a)]

ThumbCall(s, e, a) ==
    [code |-> Op("push", 0) \o Op("ldr literal", Imm8((e - 2 - (s + 1)) * 2 - 4 + 2))
              \o Op("mov lr", 0) \o Op("pop", 0) \o Op("blx lr", 0),
     trail |-> Two("word", a)]

ThumbCompare(s, e, a) ==
    [code |-> Op("push", 0) \o Two("mrs", 0)
              \o Op("branch", ((e - 10 - (s + 3)) * 2 - 4) % 128)
              \o Two("msr", 0) \o Op("pop", 0),
     trail |-> Two("msr", 0) \o Op("pop", 0) \o Op("nop", 0) \o ArmGoto(a)]

ThumbLoadWide(s, e, a) ==
    [code |-> Two("ldr literal", Label(s, e - 2)) \o Two("ldr", 0), trail |-> Two("word", a)]

ThumbAdd(s, e, a) ==
    [code |-> Op("push", 0) \o Op("mov", 0) \o Op("ldr literal", Imm8(Label(s + 2, e - 2)))
              \o Op("add", 0) \o Op("pop", 0),
     trail |-> Two("word", a)]

Thumb(k, s, e, a, i) ==
    CASE k = "ldr" -> ThumbLoad(s, e, a)
      [] k \in {"b", "bw", "bcw"} -> ThumbBranch(k, s, e, a)
      [] k \in {"bl", "blx"} -> ThumbCall(s, e, a)
      [] k = "cbz" -> ThumbCompare(s, e, a)
      [] k = "ldrw" -> ThumbLoadWide(s, e, a)
      [] k = "add" -> ThumbAdd(s, e, a)
      [] k = "wide" -> [code |-> Two("copy", i), trail |-> <<>>]
      [] k = "widepc" -> [code |-> Two("verbatim", i), trail |-> <<>>]
      [] k \in {"b16", "adr"} -> [code |-> Op("verbatim", i), trail |-> <<>>]
      [] k = "plain" -> [code |-> Op("copy", i), trail |-> <<>>]

\* The pc is loaded into the register that the instruction loads, or stores, and
\* takes the place of the pc there.  Where index and destination are one register,
\* another one is saved and used.
Arm(k, s, e, a, i) ==
    CASE k \in {"ldr", "ldrreg", "str", "extend"} ->
           [code |-> Op("ldr literal", (e - 1 - s) * 4 - 8)
                     \o Op(CASE k = "str" -> "str itself" [] k = "extend" -> "add" [] OTHER -> "ldr", 0),
            trail |-> Op("word", a)]
      [] k \in {"ldrpc", "veneer"} ->
           [code |-> Op("ldr pc literal", (e - 1 - s) * 4 - 8) \o Op("ldr", 0), trail |-> Op("word", a)]
      [] k \in {"ldrsame", "strsame"} ->
           [code |-> Op("push", 0) \o Op("ldr literal", (e - 1 - (s + 1)) * 4 - 8)
                     \o Op(IF k = "ldrsame" THEN "ldr" ELSE "str", 0) \o Op("pop", 0),
            trail |-> Op("word", a)]
      [] k \in Unrecognised("arm") -> [code |-> Op("verbatim", i), trail |-> <<>>]
      [] k = "plain" -> [code |-> Op("copy", i), trail |-> <<>>]

\* MSWriteJump, MSPushPointer.
PushPointer(isa, a) == Wide("push pointer", a, PointerSize(isa))
WriteJump(isa, a) ==
    IF isa = "x64far" THEN PushPointer(isa, a) \o Op("ret", 0) ELSE Wide("jump", a, 5)

Intel(isa, k, a, i) ==
    [code |->
       CASE k \in {"mov", "mov32"} -> PushPointer(isa, a) \o Op("pop reg", 0) \o Wide("ldr", 0, 3)
         [] k = "movhigh" -> PushPointer(isa, a) \o Two("pop reg", 0) \o Wide("ldr", 0, 3)
         [] k = "movbase" -> PushPointer(isa, a) \o Op("pop reg", 0) \o Wide("ldr of other bytes", 0, 3)
         [] k \in Unrecognised(isa) -> Wide("verbatim", i, Width(isa, k))
         [] k = "next" -> PushPointer(isa, a)
         [] k = "call" -> Wide("call over", 5, 5) \o Wide("skip", JumpSize(isa), 5) \o WriteJump(isa, a)
         [] k \in {"jmp8", "jmp32"} -> WriteJump(isa, a)
         [] k = "jcc" -> Wide("jcc", 2, 2) \o Wide("skip", JumpSize(isa), 2) \o WriteJump(isa, a)
         [] k = "plain" -> Wide("copy", i, 3),
     trail |-> <<>>]

Emit(t, i, s, e) ==
    LET k == t.body[i]  a == Reached(t, i)
    IN  CASE t.isa = "thumb" -> Thumb(k, s, e, a, i)
          [] t.isa = "arm" -> Arm(k, s, e, a, i)
          [] t.isa \in X86 -> Intel(t.isa, k, a, i)

\* The way back behind the displaced instructions; Thumb code has odd addresses.
Transfer(t) ==
    LET a == t.area + Used(t) * UnitBytes(t.isa)
    IN  CASE t.isa = "thumb" -> ArmGoto(a + 1)
          [] t.isa = "arm" -> Op("ldr pc", 0) \o Op("word", a)
          [] t.isa \in X86 -> WriteJump(t.isa, a)

-----------------------------------------------------------------------------
(* MSHookFunction *)

Unwritten == [op |-> "unwritten", v |-> 0, n |-> 1]

\* Only Thumb code may begin at an address that is no multiple of four.
Targets ==
    UNION {{[isa |-> isa, area |-> area, body |-> b] : b \in Bodies(isa, area)} :
              <<isa, area>> \in (Isas \X {1000}) \cup ((Isas \cap {"thumb"}) \X {1002})}

Unhooked ==
    /\ hooking = [pc |-> "idle", wants |-> TRUE, i |-> 1, start |-> 0, end |-> 0, pad |-> 0,
                  result |-> "unset", to |-> 0, exec |-> FALSE, replacement |-> "none", chained |-> "none"]
    /\ buf = <<>> /\ entry = "code"
    /\ proc = [at |-> "idle", pc |-> 0, lit |-> 0, lr |-> 0, depth |-> 0, saved |-> FALSE, log |-> <<>>]

InlineInit == target \in Targets /\ Unhooked

\* A function that begins with what is taken for the jump of an earlier hook; the
\* displacement is read without its sign, so that on x86-64 it misses if negative.
Forwards(t) ==
    \/ t.isa = "arm" /\ t.body[1] = "veneer"
    \/ t.isa \in X86 /\ t.body[1] = "jmp32"
    \/ t.isa \in X64 /\ t.body[1] = "jmpmem"

JumpsTo(t) == t.area + Far + (CASE t.isa = "arm" -> 8 [] t.body[1] = "jmp32" -> 5 [] t.body[1] = "jmpmem" -> 6)

\* Then *result is where that jump goes, and nothing is patched.
MSHookFunction(wants, negative) ==
    /\ hooking.pc = "idle"
    /\ negative => wants /\ Forwards(target) /\ target.isa \in X64
    /\ hooking' = IF wants /\ Forwards(target)
                  THEN [hooking EXCEPT !.pc = "returned", !.result = IF negative THEN "astray" ELSE "forward",
                                       !.to = JumpsTo(target)]
                  ELSE [hooking EXCEPT !.pc = IF wants THEN "mmap" ELSE "patch", !.wants = wants]
    /\ UNCHANGED <<target, buf, entry, proc>>

Map(succeeds) ==
    /\ hooking.pc = "mmap"
    /\ LET length == Length(target)
       IN  IF succeeds
           THEN /\ buf' = [i \in 0 .. length.all - 1 |-> Unwritten]
                /\ hooking' = [hooking EXCEPT !.pc = "write", !.start = length.pad, !.pad = length.pad,
                                 !.end = length.all]
           ELSE hooking' = [hooking EXCEPT !.pc = "failed", !.result = "NULL"] /\ buf' = buf
    /\ UNCHANGED <<target, entry, proc>>

\* Writes behind the end of the buffer are cut off here and show in start > end.
Written(at, items) ==
    [i \in DOMAIN buf |-> IF i \in at .. at + Len(items) - 1 THEN items[i - at + 1] ELSE buf[i]]

\* One instruction; an add into a high register gives up and unmaps.
Relocate ==
    /\ hooking.pc = "write" /\ hooking.i <= Len(target.body)
    /\ IF target.body[hooking.i] = "addhigh"
       THEN hooking' = [hooking EXCEPT !.pc = "failed", !.result = "NULL"] /\ buf' = <<>>
       ELSE LET s == hooking.start  e == hooking.end
                w == Emit(target, hooking.i, s, e)
                low == e - Len(w.trail)
            IN  /\ buf' = [i \in DOMAIN buf |-> IF i >= low /\ i < e THEN w.trail[i - low + 1]
                                                ELSE Written(s, w.code)[i]]
                /\ hooking' = [hooking EXCEPT !.i = @ + 1, !.start = s + Len(w.code), !.end = low]
    /\ UNCHANGED <<target, entry, proc>>

WriteTransfer ==
    /\ hooking.pc = "write" /\ hooking.i > Len(target.body)
    /\ buf' = Written(hooking.start, Transfer(target))
    /\ hooking' = [hooking EXCEPT !.pc = "protect", !.start = @ + Len(Transfer(target))]
    /\ UNCHANGED <<target, entry, proc>>

\* Only now is *result set.  On failure Thumb leaves the buffer mapped and the
\* result alone.
Protect(succeeds) ==
    /\ hooking.pc = "protect"
    /\ hooking' = IF succeeds THEN [hooking EXCEPT !.pc = "patch", !.result = "buffer", !.exec = TRUE]
                  ELSE [hooking EXCEPT !.pc = "failed", !.result = IF target.isa = "thumb" THEN @ ELSE "NULL"]
    /\ UNCHANGED <<target, buf, entry, proc>>

\* SubstrateHookMemory: the pages are made writable, which is not checked; then
\* the jump and nops are written.
Patch(writable) ==
    /\ hooking.pc = "patch"
    /\ hooking' = [hooking EXCEPT !.pc = IF writable THEN "done" ELSE "crashed",
                                  !.replacement = IF writable THEN "first" ELSE @]
    /\ entry' = IF writable THEN "jump" ELSE entry
    /\ UNCHANGED <<target, buf, proc>>

\* A second replacement.  Thumb exchanges it for the first, which is returned.  The
\* jump of x86-64 to a distant replacement is not recognised: it is relocated like
\* any code, and runs into the first replacement from there.  The others return the
\* first and install nothing, unless no result is asked for.
Rehook(wants, negative) ==
    /\ hooking.pc = "done" /\ hooking.replacement = "first"
    /\ negative => wants /\ target.isa = "x64near"
    /\ hooking' = [hooking EXCEPT
                     !.chained = CASE ~wants -> "unasked" [] negative -> "astray" [] OTHER -> "first",
                     !.replacement = IF target.isa \in {"thumb", "x64far"} \/ ~wants THEN "second" ELSE @]
    /\ UNCHANGED <<target, buf, entry, proc>>

-----------------------------------------------------------------------------
(* The buffer runs *)

CallOriginal ==
    /\ hooking.pc = "done" /\ hooking.result = "buffer" /\ proc.at = "idle"
    /\ proc' = [proc EXCEPT !.at = "run", !.pc = hooking.pad]
    /\ UNCHANGED <<target, hooking, buf, entry>>

Fetch(i) == IF i \in DOMAIN buf THEN buf[i] ELSE Unwritten

\* The word that a load at pc reads, and the position a branch at pc goes to.
Literal(pc, v) == IF target.isa = "arm" THEN pc + 2 + v \div 4 ELSE (Align4(2 * pc + 4) + v) \div 2
WordAt(i) == IF Fetch(i).op = "word" THEN Fetch(i).v ELSE -1
Branch(pc, v) == pc + 2 + v \div 2

Did(p, e) == [p EXCEPT !.log = Append(@, e)]
Leaves(p, a) == [Did(p, <<"goto", a>>) EXCEPT !.at = "left"]
\* A call returns behind its call instruction.
GoesTo(p, a) ==
    IF p.lr # 0 THEN [Did(p, <<"call", a>>) EXCEPT !.pc = p.lr, !.lr = 0] ELSE Leaves(p, a)

Results(p) ==
    LET it == Fetch(p.pc)
        on == [p EXCEPT !.pc = @ + it.n]
        top == Last(p.log)[2]
        popped == [p EXCEPT !.log = Front(@)]
    IN  CASE it.op = "copy" -> {Did(on, <<"does", it.v>>)}
          [] it.op = "ldr literal" -> {[on EXCEPT !.lit = WordAt(Literal(p.pc, it.v))]}
          [] it.op = "ldr pc literal" -> {Leaves(p, WordAt(Literal(p.pc, it.v)))}
          [] it.op = "verbatim" ->
               (IF Always(target.body[it.v]) THEN {} ELSE {Did(on, <<"astray", it.v>>)})
               \cup (IF Jumps(target.body[it.v]) THEN {Leaves(p, -1)} ELSE {})
          [] it.op = "ldr" -> {Did(on, <<"load", p.lit>>)}
          [] it.op = "str" -> {Did(on, <<"store", p.lit>>)}
          [] it.op = "str itself" -> {Did(on, <<"store address", p.lit>>)}
          [] it.op = "add" -> {Did(on, <<"add", p.lit>>)}
          [] it.op = "push" -> {[on EXCEPT !.depth = @ + 1]}
          [] it.op = "pop" -> {[on EXCEPT !.depth = @ - 1, !.saved = FALSE]}
          [] it.op = "mrs" -> {[on EXCEPT !.saved = TRUE]}
          [] it.op = "msr" /\ p.saved -> {on}
          [] it.op \in {"mov", "nop"} -> {on}
          [] it.op = "mov lr" -> {[on EXCEPT !.lr = p.lit]}
          [] it.op = "blx lr" -> {[Did(on, <<"call", p.lr>>) EXCEPT !.lr = 0]}
          [] it.op = "branch" -> {on, [p EXCEPT !.pc = Branch(p.pc, it.v)]}
          [] it.op = "b" -> {[p EXCEPT !.pc = Branch(p.pc, it.v)]}
          [] it.op = "bx pc" /\ p.pc % 2 = 0 -> {[p EXCEPT !.pc = @ + 2]}
          [] it.op = "ldr pc" -> {Leaves(p, WordAt(p.pc + it.n))}
          [] it.op = "push pointer" -> {Did(on, <<"push", it.v>>)}
          [] it.op = "pop reg" -> {[popped EXCEPT !.pc = @ + it.n, !.lit = top]}
          [] it.op = "ret" -> {GoesTo(popped, top)}
          [] it.op = "jump" -> {GoesTo(p, it.v)}
          [] it.op = "call over" -> {[on EXCEPT !.lr = p.pc + 5, !.pc = @ + it.v]}
          [] it.op = "skip" -> {[on EXCEPT !.pc = @ + it.v]}
          [] it.op = "jcc" -> {on, [on EXCEPT !.pc = @ + it.v]}
          [] OTHER -> {[p EXCEPT !.at = "bad"]}

Execute1 ==
    /\ proc.at = "run"
    /\ proc' \in Results(proc)
    /\ UNCHANGED <<target, hooking, buf, entry>>

InlineNext ==
    \/ \E b, negative \in BOOLEAN : MSHookFunction(b, negative) \/ Rehook(b, negative)
    \/ \E b \in BOOLEAN : Map(b) \/ Protect(b) \/ Patch(b)
    \/ Relocate \/ WriteTransfer \/ CallOriginal \/ Execute1

InlineSpec == InlineInit /\ [][InlineNext]_inlineVars

-----------------------------------------------------------------------------
\* What the instructions do in place: up to one that jumps away, or all of them.
Paths(t) ==
    LET upTo(m) == FlattenSeq([i \in 1 .. m |-> Effect(t, i)])
        reached(m) == \A i \in 1 .. m - 1 : ~Always(t.body[i])
        n == Len(t.body)
        back == t.area + Used(t) * UnitBytes(t.isa) + (IF t.isa = "thumb" THEN 1 ELSE 0)
    IN  {Append(upTo(m - 1), <<"goto", Refers(t, m)>>) : m \in {k \in 1 .. n : Jumps(t.body[k]) /\ reached(k)}}
        \cup {Append(upTo(n), <<"goto", back>>) : m \in {k \in {n + 1} : reached(k)}}

RunsAsInPlace ==
    /\ proc.at # "bad"
    /\ proc.at = "left" => proc.log \in Paths(target) /\ proc.depth = 0 /\ proc.lr = 0

(* Whatever instructions are displaced and however the function is aligned, the *)
(* code and the values of the buffer do not run into each other.  Unless one of *)
(* them is Mishandled, running the buffer loads, stores, calls, adds and jumps  *)
(* exactly as they did in place, saves what it uses and goes on behind them.    *)
(* Once the function jumps to the replacement, *result is that finished,        *)
(* executable copy; a hook that failed leaves the function as it was; one that  *)
(* took its first instruction for an earlier hook has set *result to where the  *)
(* function itself goes, but for a negative displacement on x86-64              *)
(* (SubstrateHook.cpp:205-547, 577-683, 756-916).                               *)
RelocatedSame ==
    /\ hooking.start <= hooking.end
    /\ RunsAsInPlace \/ \E i \in DOMAIN target.body : Mishandled(target, i)
    /\ entry = "jump" /\ hooking.wants => hooking.result = "buffer" /\ hooking.exec
    /\ hooking.pc \in {"failed", "returned"} => entry = "code"
    /\ hooking.result = "forward" => <<<<"goto", hooking.to>>>> \in Paths(target)
=============================================================================
