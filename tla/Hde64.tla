------------------------------- MODULE Hde64 -------------------------------
(***************************************************************************)
(* hde64.c and table64.h: the decoder that tells the inline hook how long  *)
(* each instruction is that it moves on x86-64.  Instructions are bytes;   *)
(* what is decoded is what the hook reads: the length, the opcode bytes,   *)
(* the ModRM byte, REX.R and the place of the displacement.  The flags     *)
(* F_ERROR..., which nobody reads, are left out.                           *)
(***************************************************************************)
EXTENDS Integers, Sequences, FiniteSets

CONSTANTS PrefixRuns,   \* sequences of prefix bytes
          RexRuns,      \* no REX prefix, or one
          RegFields     \* ModRM.reg

VARIABLES place,        \* the one- or two-byte opcode at hand
          decoded       \* the instruction given and what was made of it

hdeVars == <<place, decoded>>

Bit(x, k) == (x \div 2^k) % 2 = 1

\* The part of hde64_table that decides lengths: for every four opcodes an index,
\* and there the flags of each; from DELTA_OPCODES on, the same for 0f xx.
hde64_table == <<
    165, 170, 165, 184, 165, 170, 165, 170, 165, 184, 165, 184, 165, 184, 165, 184, 192,
    192, 192, 192, 192, 192, 192, 192, 172, 192, 204, 192, 161, 161, 161, 161, 177, 165,
    165, 166, 192, 192, 215, 218, 224, 192, 228, 192, 234, 234, 224, 224, 152, 200, 238,
    241, 165, 211, 165, 165, 161, 234, 158, 192, 192, 194, 192, 230, 3, 127, 17, 127, 1,
    127, 1, 63, 1, 1, 171, 139, 144, 100, 91, 91, 91, 91, 91, 146, 91, 91, 118, 144, 146,
    146, 91, 91, 91, 91, 91, 91, 91, 91, 91, 91, 91, 91, 106, 115, 144, 91, 82, 82, 82,
    82, 91, 91, 91, 91, 119, 124, 119, 133, 91, 91, 112, 91, 122, 175, 118, 118, 91, 91,
    91, 91, 91, 91, 91, 91, 91, 91, 91, 134, 1, 3, 1, 4, 3, 213, 3, 213, 3, 204, 1, 188,
    3, 240, 3, 3, 4, 0, 80, 80, 80, 80, 255, 32, 32, 32, 32, 1, 1, 1, 1, 196, 2, 16, 255,
    255, 255, 1, 0, 3, 17, 255, 3, 196, 198, 200, 2, 16, 0, 255, 204, 1, 1, 1, 0, 0, 0, 0,
    1, 1, 3, 1, 255, 255, 192, 194, 16, 17, 2, 3, 1, 1, 1, 255, 255, 255, 0, 0, 0, 255, 0,
    0, 255, 255, 255, 255, 16, 16, 16, 16, 2, 16, 0, 0, 198, 200, 2, 2, 2, 2, 6, 0, 4, 0,
    2, 255, 0, 192, 194, 1, 1, 3, 3, 3, 202 >>

DELTA_OPCODES == 74
C_ERROR == 255
C_MODRM(f) == Bit(f, 0)
C_IMM8(f) == Bit(f, 1)
C_IMM16(f) == Bit(f, 2)
C_IMM_P66(f) == Bit(f, 4)
C_REL8(f) == Bit(f, 5)
C_REL32(f) == Bit(f, 6)
C_GROUP(f) == Bit(f, 7)

\* The flags of an opcode.  An opcode that is not known has no operands, but for
\* the moves to test registers; a group's flags are in a table of their own.
Flags(two, opcode) ==
    LET base == IF two THEN DELTA_OPCODES ELSE 0
        ht(i) == hde64_table[base + i + 1]
        f == ht(ht(opcode \div 4) + (opcode % 4))
    IN  CASE f = C_ERROR -> IF opcode \in {36, 38} THEN 1 ELSE 0
          [] f # C_ERROR /\ C_GROUP(f) -> ht(f % 128)
          [] OTHER -> f

PrefixBytes == {243, 242, 240, 38, 46, 54, 62, 100, 101, 102, 103}
P66 == 102
P67 == 103
RexBytes == 64 .. 79

\* The byte at p, counted from 0; what follows the instruction does not matter.
ByteAt(code, p) == IF p < Len(code) THEN code[p + 1] ELSE 0

\* Slip: a base of 5 means a displacement of four bytes in every mode.
MutDispSize(m_mod, m_rm, base, p67) ==
    IF m_mod # 3 /\ m_rm = 4 /\ base = 5 THEN 4
    ELSE CASE m_mod = 0 -> IF p67 THEN (IF m_rm = 6 THEN 2 ELSE 0) ELSE (IF m_rm = 5 THEN 4 ELSE 0)
           [] m_mod = 1 -> 1
           [] m_mod = 2 -> IF p67 THEN 2 ELSE 4
           [] OTHER -> 0

DispSize(m_mod, m_rm, base, p67) ==
    IF m_mod # 3 /\ m_rm = 4 /\ base = 5 /\ m_mod # 1 THEN 4
    ELSE CASE m_mod = 0 -> IF p67 THEN (IF m_rm = 6 THEN 2 ELSE 0) ELSE (IF m_rm = 5 THEN 4 ELSE 0)
           [] m_mod = 1 -> 1
           [] m_mod = 2 -> IF p67 THEN 2 ELSE 4
           [] OTHER -> 0

\* What follows the operands.  A near jump under 66 has two bytes; after an operand
\* of the operand size the others are still looked for.
ImmediateSize(f, op64, p66) ==
    IF C_IMM_P66(f) /\ C_REL32(f) THEN (IF p66 THEN 2 ELSE 4)
    ELSE LET sized == IF ~C_IMM_P66(f) THEN 0 ELSE IF op64 THEN 8 ELSE IF p66 THEN 2 ELSE 4
         IN  sized + (IF C_IMM16(f) THEN 2 ELSE 0) + (IF C_IMM8(f) THEN 1 ELSE 0)
             + (IF C_REL32(f) THEN 4 ELSE IF C_REL8(f) THEN 1 ELSE 0)

\* hde64_disasm: prefixes, REX, opcode, ModRM, SIB, displacement, immediate.
hde64_disasm(code) ==
    LET n == CHOOSE k \in 0 .. 16 :
                 /\ \A i \in 0 .. k - 1 : ByteAt(code, i) \in PrefixBytes
                 /\ k = 16 \/ ByteAt(code, k) \notin PrefixBytes
        pref == {ByteAt(code, i) : i \in 0 .. n - 1}
        rex == IF ByteAt(code, n) \in RexBytes THEN ByteAt(code, n) ELSE 0
        o == n + (IF rex = 0 THEN 0 ELSE 1)
        c == ByteAt(code, o)
        two == c = 15
        opcode == IF two THEN ByteAt(code, o + 1) ELSE c
        twice == rex # 0 /\ c \in RexBytes
        moffs == ~two /\ opcode \in 160 .. 163
        op64 == moffs \/ (Bit(rex, 3) /\ c \div 8 = 23)
        p66 == IF moffs THEN P67 \in pref ELSE P66 \in pref
        f == IF twice THEN 0 ELSE Flags(two, opcode)
        m == o + (IF two THEN 2 ELSE 1)
        modrm == IF C_MODRM(f) THEN ByteAt(code, m) ELSE 0
        m_mod == IF two /\ opcode \in 32 .. 35 THEN 3 ELSE modrm \div 64
        m_reg == (modrm \div 8) % 8
        m_rm == modrm % 8
        sib == m_mod # 3 /\ m_rm = 4
        d == m + 1 + (IF sib THEN 1 ELSE 0)
        disp == DispSize(m_mod, m_rm, ByteAt(code, m + 1) % 8, P67 \in pref)
        f6 == opcode = 246 /\ m_reg <= 1
        f7 == opcode = 247 /\ m_reg <= 1
        all == IF C_MODRM(f)
               THEN d + disp + ImmediateSize(IF f6 /\ ~C_IMM8(f) THEN f + 2
                                             ELSE IF f7 /\ ~C_IMM_P66(f) THEN f + 16 ELSE f, op64, p66)
               ELSE m + ImmediateSize(f, op64, p66)
    IN  [len |-> IF all > 15 THEN 15 ELSE all, opcode |-> IF twice THEN 0 ELSE c,
         opcode2 |-> IF two THEN opcode ELSE 0, modrm |-> modrm, rex_r |-> IF Bit(rex, 2) THEN 1 ELSE 0,
         disp |-> IF C_MODRM(f) /\ disp = 4 THEN d ELSE -1]

----------------------------------------------------------------------------
(* External: instructions as Intel defines them in 64-bit mode.            *)

NotAnInstruction(two, op) ==
    op \in IF two
           THEN {4, 10, 12, 14, 15, 36, 37, 38, 39, 54, 57, 59, 60, 61, 62, 63, 122, 123, 166, 167}
           ELSE {6, 7, 14, 15, 22, 23, 30, 31, 39, 47, 55, 63, 96, 97, 130, 154, 206, 212, 213, 214, 234}
                \cup PrefixBytes \cup RexBytes

\* The encodings that came after: VEX and EVEX in place of 62, c4 and c5, and the
\* three-byte opcodes behind 0f 38 and 0f 3a; and of each the bytes before the ModRM
\* byte of one instruction: pshufb, palignr, and vaddps three times.
Vector(two, op) == ~two /\ op \in {98, 196, 197}
Longer(two, op) == Vector(two, op) \/ (two /\ op \in {56, 58})
Behind(two, op) ==
    CASE two /\ op = 56 -> <<0>>
      [] two /\ op = 58 -> <<15>>
      [] ~two /\ op = 197 -> <<248, 88>>
      [] ~two /\ op = 196 -> <<225, 120, 88>>
      [] ~two /\ op = 98 -> <<241, 124, 72, 88>>
      [] OTHER -> <<>>

TakesModrm(two, op) ==
    IF two THEN op \notin {5, 6, 7, 8, 9, 11, 55, 119, 160, 161, 162, 168, 169, 170}
                            \cup 48 .. 53 \cup 128 .. 143 \cup 200 .. 207
    ELSE \/ op < 64 /\ op % 8 < 4
         \/ op \in {98, 99, 105, 107, 128, 129, 131, 192, 193, 196, 197, 198, 199, 246, 247, 254, 255}
                     \cup 132 .. 143 \cup 208 .. 211 \cup 216 .. 223

TakesByte(two, op, reg) ==
    IF two THEN op \in {58, 112, 113, 114, 115, 164, 172, 186, 194, 196, 197, 198}
    ELSE \/ op < 64 /\ op % 8 = 4
         \/ op \in {106, 107, 128, 131, 168, 192, 193, 198, 200, 205, 235}
                     \cup 112 .. 127 \cup 176 .. 183 \cup 224 .. 231
         \/ op = 246 /\ reg < 2

TakesWord(two, op, reg) ==
    /\ ~two
    /\ \/ op < 64 /\ op % 8 = 5
       \/ op \in {104, 105, 129, 169, 199} \cup 184 .. 191
       \/ op = 247 /\ reg < 2

Branches32(two, op) == IF two THEN op \in 128 .. 143 ELSE op \in {232, 233}

Has(i, byte) == \E k \in DOMAIN i.prefixes : i.prefixes[k] = byte

\* The length after the prefixes.
Defined(i) ==
    LET n == IF i.two THEN 2 ELSE 1
        mod == IF i.two /\ i.op \in 32 .. 35 THEN 3 ELSE i.mod
        disp == CASE mod = 1 -> 1
                  [] mod = 2 -> 4
                  [] mod = 0 -> IF i.rm = 5 \/ (i.rm = 4 /\ i.base = 5) THEN 4 ELSE 0
                  [] OTHER -> 0
        wide == i.rex # <<>> /\ Bit(i.rex[1], 3)
    IN  n + Len(Behind(i.two, i.op))
          + (IF TakesModrm(i.two, i.op) THEN 1 + disp + (IF mod # 3 /\ i.rm = 4 THEN 1 ELSE 0) ELSE 0)
          + (IF TakesByte(i.two, i.op, i.reg) THEN 1 ELSE 0)
          + (IF ~TakesWord(i.two, i.op, i.reg) THEN 0
             ELSE IF wide THEN (IF i.op \in 184 .. 191 THEN 8 ELSE 4)
             ELSE IF Has(i, P66) THEN 2 ELSE 4)
          + (IF ~i.two /\ i.op \in {194, 200, 202} THEN 2 ELSE 0)
          + (IF Branches32(i.two, i.op) THEN 4 ELSE 0)
          + (IF ~i.two /\ i.op \in 160 .. 163 THEN (IF Has(i, P67) THEN 4 ELSE 8) ELSE 0)

Instructions ==
    {i \in [two : {place.two}, op : {place.op}, prefixes : PrefixRuns, rex : RexRuns,
            mod : 0 .. 3, reg : RegFields, rm : {0, 4, 5, 6}, base : {1, 5}] :
        /\ i.rm = 4 \/ i.base = 1
        /\ Vector(place.two, place.op) => i.rex = <<>> /\ ~Has(i, P66)
        /\ TakesModrm(place.two, place.op) \/ (i.mod = 0 /\ i.rm = 0 /\ \A r \in RegFields : i.reg <= r)}

Bytes(i) ==
    i.prefixes \o i.rex \o (IF i.two THEN <<15>> ELSE <<>>)
        \o <<i.op>> \o Behind(i.two, i.op) \o <<64 * i.mod + 8 * i.reg + i.rm, 8 + i.base>>

HdeInit ==
    /\ \E two \in BOOLEAN, op \in 0 .. 255 :
          ~NotAnInstruction(two, op) /\ place = [two |-> two, op |-> op]
    /\ decoded = {}

HdeNext ==
    /\ decoded = {}
    /\ \E i \in Instructions : decoded' = {[of |-> i, got |-> hde64_disasm(Bytes(i))]}
    /\ UNCHANGED place

\* The decoder and the processor agree on the length, on whether the instruction
\* addresses memory relative to itself, and on where it does.
Agree(x) ==
    LET before == Len(x.of.prefixes) + Len(x.of.rex)
        relative == /\ TakesModrm(x.of.two, x.of.op) /\ x.of.mod = 0 /\ x.of.rm = 5
                    /\ ~(x.of.two /\ x.of.op \in 32 .. 35)
    IN  /\ x.got.len = before + Defined(x.of)
        /\ x.got.modrm % 8 = 5 /\ x.got.modrm \div 64 = 0 /\ x.got.disp # -1 <=> relative
        /\ relative => x.got.disp = before + (IF x.of.two THEN 3 ELSE 2)

\* Where they do not: the decoder is older than VEX, EVEX and the opcodes behind
\* 0f 38 and 0f 3a; vmread, vmwrite, popcnt, ud0 and ud1 are not in its table;
\* psadbw and maskmovq are taken for the one-byte f6 and f7; REX.W does not override
\* 66, but for the moves of eight bytes; under 66 a near branch has 16 bits; and under
\* 67 addresses are taken for 16-bit ones.
Differs(i) ==
    LET wide == i.rex # <<>> /\ Bit(i.rex[1], 3)
        shortDisp == \/ i.mod = 0 /\ i.rm \in {5, 6}
                     \/ i.mod = 2 /\ ~(i.rm = 4 /\ i.base = 5)
    IN  \/ Longer(i.two, i.op)
        \/ i.two /\ i.op \in {120, 121, 184, 185, 255}
        \/ i.two /\ i.op \in {246, 247} /\ i.reg <= 1
        \/ Has(i, P66) /\ wide /\ TakesWord(i.two, i.op, i.reg) /\ i.op \notin 184 .. 191
        \/ Has(i, P66) /\ Branches32(i.two, i.op)
        \/ Has(i, P67) /\ ~i.two /\ i.op \in 160 .. 163
        \/ Has(i, P67) /\ TakesModrm(i.two, i.op) /\ ~(i.two /\ i.op \in 32 .. 35) /\ shortDisp

\* The hook moves whole instructions, and recognises one that addresses memory
\* relative to itself with its displacement, except exactly where Differs says: every
\* other instruction is taken to be what it is, and none of those is (hde64.c:14-333).
LengthDecoded == \A x \in decoded : Agree(x) <=> ~Differs(x.of)
=============================================================================
