------------------------------- MODULE Decode -------------------------------
(***************************************************************************)
(* Which handler takes an instruction (step_arm and step_thumb in          *)
(* src/src/core/cpu.rs).  An ARM instruction is the record of its fields:  *)
(*                                                                         *)
(*    cond 31-28   top 27-25   op 24-21   s 20   rn 19-16                  *)
(*    rd 15-12     rs 11-8     mid 7-4    rm 3-0                           *)
(*                                                                         *)
(* and a Thumb one of op 15-11, imm 10-6, rs 5-3 and rd 2-0.  Handlers are *)
(* tried in order, so an encoding belongs to the first that accepts it.    *)
(***************************************************************************)
EXTENDS Integers

Nibble == 0 .. 15

Arm == [cond : Nibble, top : 0 .. 7, op : Nibble, s : 0 .. 1, rn : Nibble,
        rd : Nibble, rs : Nibble, mid : Nibble, rm : Nibble]

Thumb == [op : 0 .. 31, imm : 0 .. 31, rs : 0 .. 7, rd : 0 .. 7]

\* Bits 24 to 21 of an ARM instruction, and 7 to 4.
B24(e) == e.op >= 8
B23(e) == e.op % 8 >= 4
B22(e) == e.op % 4 >= 2
B21(e) == e.op % 2 = 1
B7(e) == e.mid >= 8
B6(e) == e.mid % 8 >= 4
B5(e) == e.mid % 4 >= 2
B4(e) == e.mid % 2 = 1

IsWfi(e) ==
    /\ e.cond = 14 /\ e.top = 1 /\ e.op = 9 /\ e.s = 0
    /\ e.rn = 0 /\ e.rd = 15 /\ e.rs = 0 /\ e.mid = 0 /\ e.rm = 3

IsSwi(e) == e.top = 7 /\ B24(e)

\* exec_system
IsClz(e) == e.top = 0 /\ e.op = 11 /\ e.s = 0 /\ e.mid = 1
IsMrs(e) ==
    /\ e.top = 0 /\ e.op \in {8, 10} /\ e.s = 0
    /\ e.rn = 15 /\ e.rs = 0 /\ e.mid = 0 /\ e.rm = 0
IsMsr(e) ==
    /\ e.top = 0 /\ e.op \in {9, 11} /\ e.s = 0
    /\ e.rd = 15 /\ e.rs = 0 /\ e.mid = 0

\* exec_coprocessor takes MRC and MCR of coprocessor 15 only.
IsCoprocessor(e) == e.top = 7 /\ ~B24(e) /\ B4(e) /\ e.rs = 15

IsBranch(e) == e.top = 5
IsBlock(e) == e.top = 4
IsSingle(e) == e.top \in {2, 3}

IsSwap(e) == e.top = 0 /\ e.op \in {8, 10} /\ e.s = 0 /\ e.rs = 0 /\ e.mid = 9
IsHalfword(e) == e.top = 0 /\ B7(e) /\ B4(e) /\ ~IsSwap(e)

\* exec_data_processing takes every operation but RSC, which is 7.
IsData(e) == e.top \in {0, 1} /\ e.op # 7

IsBx(e) == e.top = 0 /\ e.op = 9 /\ e.s = 0
           /\ e.rn = 15 /\ e.rd = 15 /\ e.rs = 15 /\ e.mid = 1
IsMultiply(e) == e.top = 0 /\ e.op \in {0, 1} /\ e.mid = 9

\* The handler of an ARM instruction whose condition has passed.
Handler(e) ==
    CASE IsWfi(e) -> "wfi"
      [] IsSwi(e) -> "swi"
      [] IsClz(e) -> "clz"
      [] IsMrs(e) -> "mrs"
      [] IsMsr(e) -> "msr"
      [] IsCoprocessor(e) -> "coprocessor"
      [] IsBranch(e) -> "branch"
      [] IsBlock(e) -> "block"
      [] IsSingle(e) -> "single"
      [] OTHER ->
            IF IsHalfword(e) THEN "halfword"
            ELSE IF IsData(e) THEN "data"
            ELSE IF IsBx(e) THEN "bx"
            ELSE IF IsMultiply(e) THEN "multiply"
            ELSE IF IsSwap(e) THEN "swap"
            ELSE "undefined"

\* The handler of a Thumb instruction; no two accept the same one.
ThumbCond(t) == (t.op % 2) * 8 + t.imm \div 4

ThumbHandler(t) ==
    CASE t.op \in 0 .. 2 -> "shift"
      [] t.op = 3 -> "addsub"
      [] t.op \in 4 .. 7 -> "immediate"
      [] t.op = 8 /\ t.imm >= 16 -> "hireg"
      [] t.op = 9 -> "literal"
      [] t.op \in 12 .. 15 -> "transfer"
      [] t.op \in {26, 27} /\ ThumbCond(t) # 15 -> "condbranch"
      [] t.op = 28 -> "branch"
      [] OTHER -> "undefined"

=============================================================================
