------------------------------ MODULE Execute ------------------------------
(***************************************************************************)
(* What an instruction of a program in user mode does to the machine       *)
(* (the exec_ functions of src/src/core/cpu.rs).  A machine state is the   *)
(* record                                                                  *)
(*    regs   the sixteen registers, the program counter past the           *)
(*           instruction                                                   *)
(*    f, t   the condition flags and the Thumb flag of the CPSR            *)
(*    mem    the memory                                                    *)
(*    cp15   the bank of system registers                                  *)
(*    fault  what stopped the instruction, if something did, and then      *)
(*    far    the address DFAR gets                                         *)
(* and an instruction maps a state to the next.  A translation takes an    *)
(* address to itself or faults, by page; Mmu has the rest.                 *)
(***************************************************************************)
EXTENDS Memory, Decode

CONSTANTS
    PageSize,
    UserStatus   \* the CPSR of a program in user mode, below its flags: the mode
                 \* (0x10 in the code), with I and T clear

ASSUME UserStatusAssumption == UserStatus \in 0 .. Modulus \div 16 - 1

Page(a) == a \div PageSize

LR == 14
PC == 15
Register == 0 .. 15
SystemRegister == 0 .. 15

NoFault == "none"
Faulted(s, kind, far) == [s EXCEPT !.fault = kind, !.far = far]
Set(s, r, w) == [s EXCEPT !.regs[r] = w]

\* A branch that exchanges the instruction set.
Exchange(s, target) ==
    [s EXCEPT !.t = target % 2 = 1, !.regs[PC] = target - (target % 2)]

\* A number of the given bits as a signed one.
SignExtend(n, bits) == IF n >= 2 ^ (bits - 1) THEN n - 2 ^ bits ELSE n

-----------------------------------------------------------------------------
(* Data processing *)

Shifts == <<"LSL", "LSR", "ASR", "ROR">>

\* The shifted register of an instruction: bits 11 to 7 hold the amount.
ShiftedRegister(e, s) ==
    ShiftValue(Shifts[(e.mid % 8) \div 2 + 1], s.regs[e.rm],
               2 * e.rs + Bit(B7(e)), s.f.c)

Operand2(e, s) ==
    LET imm == Wrap(16 * e.mid + e.rm)
    IN  IF e.top = 1
        THEN IF e.rs = 0 THEN [value |-> imm, carry |-> s.f.c]
                         ELSE ShiftValue("ROR", imm, 2 * e.rs, s.f.c)
        ELSE ShiftedRegister(e, s)

Tests == 8 .. 11
Logical == {0, 1, 8, 9, 12, 13, 14, 15}

\* A word whose bits are 1 where the bits of a and b are one of the pairs.
Bitwise(pairs, a, b) ==
    LET low[n \in 0 .. WordBits] ==
            IF n = 0 THEN 0
            ELSE low[n - 1] + 2 ^ (n - 1) * Bit(<<BitAt(a, 2 ^ (n - 1)), BitAt(b, 2 ^ (n - 1))>> \in pairs)
    IN  low[WordBits]

Both == {<<TRUE, TRUE>>}
Either == BOOLEAN \X BOOLEAN \ {<<FALSE, FALSE>>}
Differ == {<<TRUE, FALSE>>, <<FALSE, TRUE>>}
First == {<<TRUE, FALSE>>}

LogicalResult(op, a, b) ==
    CASE op \in {0, 8} -> Bitwise(Both, a, b)
      [] op \in {1, 9} -> Bitwise(Differ, a, b)
      [] op = 12 -> Bitwise(Either, a, b)
      [] op = 13 -> b
      [] op = 14 -> Bitwise(First, a, b)
      [] op = 15 -> Modulus - 1 - b

ArithmeticResult(op, a, b, c) ==
    CASE op \in {2, 10} -> SubWith(a, b, 1)
      [] op = 3 -> SubWith(b, a, 1)
      [] op \in {4, 11} -> AddWith(a, b, 0)
      [] op = 5 -> AddWith(a, b, Bit(c))
      [] op = 6 -> SubWith(a, b, Bit(c))

\* exec_data_processing.  With S, a write to the program counter restores the
\* CPSR from the SPSR, and user mode has none.
Data(e, s) ==
    LET b == Operand2(e, s)
        a == s.regs[e.rn]
        logical == LogicalResult(e.op, a, b.value)
        arithmetic == ArithmeticResult(e.op, a, b.value, s.f.c)
        result == IF e.op \in Logical THEN logical ELSE arithmetic.res
        flags == IF e.op \in Logical THEN LogicalFlags(s.f, logical, b.carry)
                                     ELSE ArithmeticFlags(arithmetic)
        written == IF e.op \in Tests THEN s ELSE Set(s, e.rd, result)
    IN  IF e.s = 1 THEN [written EXCEPT !.f = flags] ELSE written

-----------------------------------------------------------------------------
(* System instructions *)

LeadingZeros(w) == Cardinality({k \in 0 .. WordBits - 1 : w < 2 ^ k})
Clz(e, s) == Set(s, e.rd, LeadingZeros(s.regs[e.rm]))

\* The flags in the top four bits of a word.
FlagsWord(f) == (8 * Bit(f.n) + 4 * Bit(f.z) + 2 * Bit(f.c) + Bit(f.v)) * (Modulus \div 16)
WordFlags(w) ==
    LET bits == w \div (Modulus \div 16)
    IN  [n |-> bits >= 8, z |-> bits % 8 >= 4, c |-> bits % 4 >= 2, v |-> bits % 2 = 1]

\* The CPSR, also for the form that names the SPSR, as user mode has none.
Mrs(e, s) == Set(s, e.rd, FlagsWord(s.f) + UserStatus)
Msr(e, s) == [s EXCEPT !.f = WordFlags(s.regs[e.rm])]

\* exec_coprocessor.  The bank is indexed with CRm, except for the three
\* registers of the MMU.
IsMmuRegister(e) == e.rn \in 1 .. 3 /\ e.rm = 0 /\ e.mid \in 0 .. 1

Coprocessor(e, s) ==
    LET mmu == IsMmuRegister(e)
        value == s.regs[e.rd]
    IN  IF e.s = 1
        THEN Set(s, e.rd, s.cp15[IF mmu THEN e.rn ELSE e.rm])
        ELSE [s EXCEPT !.cp15 =
                 [i \in SystemRegister |->
                     IF i = e.rm \/ (mmu /\ i = e.rn) THEN value ELSE s.cp15[i]]]

\* exec_branch, at address pc.
Branch(e, s, pc) ==
    LET n == (2 * (e.op % 8) + e.s) * 2 ^ 20 + e.rn * 2 ^ 16 + e.rd * 2 ^ 12
                 + e.rs * 2 ^ 8 + e.mid * 2 ^ 4 + e.rm
        linked == IF B24(e) THEN Set(s, LR, Wrap(pc + 4)) ELSE s
    IN  Set(linked, PC, Wrap(pc + 8 + 4 * SignExtend(n, 24)))

-----------------------------------------------------------------------------
(* Loads and stores.  An address that is mapped but has no memory behind it *)
(* faults like one that is not mapped, and DFAR gets the address of the     *)
(* instruction: so it does when the address is not aligned.                 *)

Load(s, pages, pc, a, n, signed, rd) ==
    LET v == Value(s.mem, a, n)
        top == Weight(n)
        extended == IF signed /\ 2 * v >= top THEN v + Modulus - top ELSE v
    IN  IF Page(a) \notin pages THEN Faulted(s, "translation", a)
        ELSE IF ~CanRead(a, n) THEN Faulted(s, "translation", pc)
        ELSE Set(s, rd, extended)

Store(s, pages, pc, a, n, w) ==
    LET written == WriteBytes(s.mem, a, Bytes(w, n))
    IN  IF Page(a) \notin pages THEN Faulted(s, "translation", a)
        ELSE IF ~written.ok
             THEN Faulted([s EXCEPT !.mem = written.mem], "translation", pc)
        ELSE [s EXCEPT !.mem = written.mem]

\* Mutation of WriteBack: the base is written although the transfer faulted.
WriteBackAlways(s, e, effective) ==
    IF B21(e) \/ ~B24(e) THEN Set(s, e.rn, effective) ELSE s

\* The base is written last, over a register that was loaded.
WriteBack(s, e, effective) ==
    IF s.fault = NoFault /\ (B21(e) \/ ~B24(e)) THEN Set(s, e.rn, effective) ELSE s

\* Mutation of Effective: the address may leave the range of a word.
EffectiveUnwrapped(e, s, offset) ==
    IF B23(e) THEN s.regs[e.rn] + offset ELSE s.regs[e.rn] - offset

Effective(e, s, offset) ==
    IF B23(e) THEN Wrap(s.regs[e.rn] + offset) ELSE Wrap(s.regs[e.rn] - offset)

\* exec_single_data_transfer
Single(e, s, pages, pc) ==
    LET offset == IF e.top = 2 THEN 256 * e.rs + 16 * e.mid + e.rm
                               ELSE ShiftedRegister(e, s).value
        effective == Effective(e, s, offset)
        a == IF B24(e) THEN effective ELSE s.regs[e.rn]
        n == IF B22(e) THEN 1 ELSE 4
    IN  IF a % n # 0 THEN Faulted(s, "alignment", pc)
        ELSE WriteBack(IF e.s = 1
                       THEN Load(s, pages, pc, a, n, FALSE, e.rd)
                       ELSE Store(s, pages, pc, a, n, s.regs[e.rd]),
                       e, effective)

\* exec_halfword_data_transfer, which stores nothing but halfwords.
Halfword(e, s, pages, pc) ==
    LET offset == IF B22(e) THEN 16 * e.rs + e.rm ELSE s.regs[e.rm]
        effective == Effective(e, s, offset)
        a == IF B24(e) THEN effective ELSE s.regs[e.rn]
        n == IF B5(e) THEN 2 ELSE 1
    IN  IF a % n # 0 THEN Faulted(s, "alignment", pc)
        ELSE IF e.s = 0 /\ (B6(e) \/ ~B5(e)) THEN s
        ELSE WriteBack(IF e.s = 1
                       THEN Load(s, pages, pc, a, n, B6(e), e.rd)
                       ELSE Store(s, pages, pc, a, n, s.regs[e.rd]),
                       e, effective)

\* exec_block_data_transfer.  Registers are transferred in order until one
\* faults; the base is written if none did.
RegisterList(e) ==
    LET bits == e.rd * 2 ^ 12 + e.rs * 2 ^ 8 + e.mid * 2 ^ 4 + e.rm
    IN  {r \in Register : (bits \div 2 ^ r) % 2 = 1}

\* The address of register r, the registers that cannot be transferred, and
\* those before them.
BlockFirst(e, regs) ==
    CASE B23(e) /\ B24(e) -> regs[e.rn] + 4
      [] B23(e) /\ ~B24(e) -> regs[e.rn]
      [] ~B23(e) /\ B24(e) -> regs[e.rn] - 4
      [] ~B23(e) /\ ~B24(e) -> regs[e.rn] - 4 * (Cardinality(RegisterList(e)) - 1)
BlockAt(e, regs, r) ==
    Wrap(BlockFirst(e, regs) + 4 * Cardinality({q \in RegisterList(e) : q < r}))
BlockFailing(e, regs, pages) ==
    {r \in RegisterList(e) :
        LET a == BlockAt(e, regs, r)
        IN  a % 4 # 0 \/ Page(a) \notin pages \/ ~CanRead(a, 4)}
BlockDone(e, regs, pages) ==
    LET failing == BlockFailing(e, regs, pages)
    IN  {r \in RegisterList(e) : \A q \in failing : r < q}

\* The registers a load leaves, the memory a store leaves, and the base.
BlockRegs(e, regs, pages, mem) ==
    LET done == BlockDone(e, regs, pages)
    IN  [r \in Register |-> IF r \in done THEN Value(mem, BlockAt(e, regs, r), 4)
                                          ELSE regs[r]]
BlockMem(e, regs, pages, mem) ==
    LET done == BlockDone(e, regs, pages)
        value(r) == IF r = PC THEN Wrap(regs[PC] + 4) ELSE regs[r]
        covers(r, x) == Wrap(x - BlockAt(e, regs, r)) < 4
    IN  [x \in Mapped |->
            IF x \in Writable /\ \E r \in done : covers(r, x)
            THEN LET r == CHOOSE r \in done : covers(r, x)
                 IN  Bytes(value(r), 4)[Wrap(x - BlockAt(e, regs, r)) + 1]
            ELSE mem[x]]
BlockBase(e, regs) ==
    LET size == 4 * Cardinality(RegisterList(e))
    IN  IF B23(e) THEN Wrap(regs[e.rn] + size) ELSE Wrap(regs[e.rn] - size)

\* What the transfers leave, the base aside, and with the base.
BlockMoved(e, s, pages) ==
    IF e.s = 1 THEN [s EXCEPT !.regs = BlockRegs(e, s.regs, pages, s.mem)]
               ELSE [s EXCEPT !.mem = BlockMem(e, s.regs, pages, s.mem)]
BlockBased(e, s, pages) ==
    IF B21(e) THEN Set(BlockMoved(e, s, pages), e.rn, BlockBase(e, s.regs))
              ELSE BlockMoved(e, s, pages)

Block(e, s, pages, pc) ==
    LET failing == BlockFailing(e, s.regs, pages)
        stopped == BlockAt(e, s.regs, CHOOSE r \in failing : \A q \in failing : r <= q)
        moved == BlockMoved(e, s, pages)
        based == BlockBased(e, s, pages)
    IN  IF RegisterList(e) = {} \/ B22(e) THEN s
        ELSE IF failing # {}
             THEN IF stopped % 4 # 0 THEN Faulted(moved, "alignment", pc)
                  ELSE IF Page(stopped) \notin pages THEN Faulted(moved, "translation", stopped)
                  ELSE Faulted(moved, "translation", pc)
        ELSE IF e.s = 1 /\ PC \in RegisterList(e) THEN Exchange(based, based.regs[PC])
        ELSE based

-----------------------------------------------------------------------------
(* An ARM instruction at address pc, whose condition has passed; WFI, SWI   *)
(* and undefined instructions are the machine's.                            *)

ExecuteArm(e, s, pages, pc) ==
    LET h == Handler(e)
    IN  CASE h = "clz" -> Clz(e, s)
          [] h = "mrs" -> Mrs(e, s)
          [] h = "msr" -> Msr(e, s)
          [] h = "coprocessor" -> Coprocessor(e, s)
          [] h = "branch" -> Branch(e, s, pc)
          [] h = "block" -> Block(e, s, pages, pc)
          [] h = "single" -> Single(e, s, pages, pc)
          [] h = "halfword" -> Halfword(e, s, pages, pc)
          [] h = "data" -> Data(e, s)

Conditions == <<"EQ", "NE", "CS", "CC", "MI", "PL", "VS", "VC",
                "HI", "LS", "GE", "LT", "GT", "LE", "AL", "NV">>

Passes(cond, f) == ConditionPassed(Conditions[cond + 1], f)

-----------------------------------------------------------------------------
(* Thumb instructions; the literal is found from the address past the       *)
(* instruction, and so are the targets of branches.                         *)

Imm8(t) == (t.imm % 4) * 64 + t.rs * 8 + t.rd

ThumbShift(t, s) ==
    LET r == ShiftValue(Shifts[t.op + 1], s.regs[t.rs], t.imm, s.f.c)
    IN  [Set(s, t.rd, r.value) EXCEPT !.f = LogicalFlags(s.f, r.value, r.carry)]

ThumbAddSub(t, s) ==
    LET b == IF t.imm >= 16 THEN t.imm % 8 ELSE s.regs[t.imm % 8]
        r == IF (t.imm \div 8) % 2 = 1 THEN SubWith(s.regs[t.rs], b, 1)
                                       ELSE AddWith(s.regs[t.rs], b, 0)
    IN  [Set(s, t.rd, r.res) EXCEPT !.f = ArithmeticFlags(r)]

ThumbImmediate(t, s) ==
    LET rd == t.imm \div 4
        a == s.regs[rd]
        add == AddWith(a, Imm8(t), 0)
        sub == SubWith(a, Imm8(t), 1)
    IN  CASE t.op = 4 -> [Set(s, rd, Imm8(t)) EXCEPT !.f = LogicalFlags(s.f, Imm8(t), s.f.c)]
          [] t.op = 5 -> [s EXCEPT !.f = ArithmeticFlags(sub)]
          [] t.op = 6 -> [Set(s, rd, add.res) EXCEPT !.f = ArithmeticFlags(add)]
          [] t.op = 7 -> [Set(s, rd, sub.res) EXCEPT !.f = ArithmeticFlags(sub)]

ThumbHighRegister(t, s) ==
    LET b == s.regs[t.rs + 8 * (t.imm % 2)]
        rd == t.rd + 8 * ((t.imm \div 2) % 2)
        op == (t.imm \div 4) % 4
    IN  CASE op = 0 -> Set(s, rd, Wrap(s.regs[rd] + b))
          [] op = 1 -> [s EXCEPT !.f = CompareFlags(s.regs[rd], b)]
          [] op = 2 -> Set(s, rd, b)
          [] op = 3 -> Exchange(s, b)

ThumbLiteral(t, s, pages, pc) ==
    LET here == s.regs[PC]
        a == Wrap(here - (here % 4) + 4 * Imm8(t))
    IN  Load(s, pages, pc, a, 4, FALSE, t.imm \div 4)

\* A word, whatever the size the instruction names.
ThumbTransfer(t, s, pages, pc) ==
    LET a == Wrap(s.regs[t.rs] + 4 * t.imm)
    IN  IF a % 4 # 0 THEN Faulted(s, "alignment", pc)
        ELSE IF t.op % 2 = 1 THEN Load(s, pages, pc, a, 4, FALSE, t.rd)
        ELSE Store(s, pages, pc, a, 4, s.regs[t.rd])

ThumbBranch(t, s) ==
    LET short == SignExtend(Imm8(t), 8)
        long == SignExtend(t.imm * 64 + t.rs * 8 + t.rd, 11)
    IN  IF ThumbHandler(t) = "branch" THEN Set(s, PC, Wrap(s.regs[PC] + 2 * long))
        ELSE IF Passes(ThumbCond(t), s.f) THEN Set(s, PC, Wrap(s.regs[PC] + 2 * short))
        ELSE s

ExecuteThumb(t, s, pages, pc) ==
    LET h == ThumbHandler(t)
    IN  CASE h = "shift" -> ThumbShift(t, s)
          [] h = "addsub" -> ThumbAddSub(t, s)
          [] h = "immediate" -> ThumbImmediate(t, s)
          [] h = "hireg" -> ThumbHighRegister(t, s)
          [] h = "literal" -> ThumbLiteral(t, s, pages, pc)
          [] h = "transfer" -> ThumbTransfer(t, s, pages, pc)
          [] h \in {"condbranch", "branch"} -> ThumbBranch(t, s)

=============================================================================
