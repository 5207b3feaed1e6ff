----------------------------- MODULE Processor -----------------------------
(***************************************************************************)
(* The instructions that the assembly of this program is made of, for any  *)
(* of its architectures: what the processor does, not what the program     *)
(* does.  An instruction is an operation, two registers and a number; the  *)
(* state c of a processor has its registers, its memory, the position of   *)
(* the next instruction, and where it is.                                  *)
(***************************************************************************)
EXTENDS Integers, Sequences, TLC

Junk == 999            \* what nobody wrote

Mov(d, s) == <<"mov", d, s, 0>>
PutN(d, v) == <<"put", d, d, v>>
Ld(d, b, o) == <<"ld", d, b, o>>
St(s, b, o) == <<"st", s, b, o>>
Inc(d, k) == <<"inc", d, d, k>>
Align16(d) == <<"align", d, d, 16>>
Jz(r) == <<"jz", r, r, 0>>            \* to the label 1
Jnz(r) == <<"jnz", r, r, 0>>
Jz0(r, d, v) == <<"jz0", d, r, v>>    \* with d := v
Trap == <<"trap", "", "", 0>>
CallReg(r) == <<"call", r, r, 0>>
One == <<"1:", "", "", 0>>
PushOn(sp, word, r) == <<Inc(sp, -word), St(r, sp, 0)>>
PopFrom(sp, word, r) == <<Ld(r, sp, 0), Inc(sp, word)>>

LabelOne(code) == CHOOSE i \in DOMAIN code : code[i] = One

FetchWord(c, at) == IF at \in DOMAIN c.mem THEN c.mem[at] ELSE Junk

\* Everything but traps and calls.
Executed1(op, c, code) ==
  LET on == [c EXCEPT !.i = @ + 1]  d == op[2]  x == c.reg[op[3]]  k == op[4]
      out == [c EXCEPT !.i = LabelOne(code)]
  IN  CASE op[1] = "mov" -> [on EXCEPT !.reg[d] = x]
        [] op[1] = "put" -> [on EXCEPT !.reg[d] = k]
        [] op[1] = "ld" -> [on EXCEPT !.reg[d] = FetchWord(c, x + k)]
        [] op[1] = "st" -> IF x + k > 0 THEN [on EXCEPT !.mem = (x + k) :> c.reg[d] @@ @]
                           ELSE [c EXCEPT !.at = "fault"]
        [] op[1] = "inc" -> [on EXCEPT !.reg[d] = @ + k]
        [] op[1] = "align" -> [on EXCEPT !.reg[d] = @ - (@ % k)]
        [] op[1] = "jz" -> IF x = 0 THEN out ELSE on
        [] op[1] = "jnz" -> IF x # 0 THEN out ELSE on
        [] op[1] = "jz0" -> IF x = 0 THEN [out EXCEPT !.reg[d] = k] ELSE on
        [] op[1] = "1:" -> on
=============================================================================
