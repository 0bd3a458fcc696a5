-------------------------------- MODULE Alu --------------------------------
(***************************************************************************)
(* The arithmetic of the ARM11 core (src/src/core/cpu.rs): addition and    *)
(* subtraction with carry as the data processing and Thumb instructions do *)
(* them, the flags they leave, the barrel shifter, and the conditions.     *)
(*                                                                         *)
(* A word is a natural number below Modulus, which is 2^32 in the code.    *)
(* Nothing but the shifter depends on its being a power of two.            *)
(***************************************************************************)
EXTENDS Integers

CONSTANT Half   \* the words from Half on have the sign bit set

ASSUME HalfAssumption == Half \in Nat \ {0}

Modulus == 2 * Half
Word == 0 .. Modulus - 1

Wrap(n) == n % Modulus
Negative(a) == a >= Half
Signed(a) == IF Negative(a) THEN a - Modulus ELSE a
Bit(b) == IF b THEN 1 ELSE 0

\* The condition flags of the CPSR.
Nzcv == [n : BOOLEAN, z : BOOLEAN, c : BOOLEAN, v : BOOLEAN]

-----------------------------------------------------------------------------
(* Sums and differences *)

\* ADC, with the carry as 0 or 1; ADD, CMN and the Thumb additions are it
\* with 0.  The code adds in two steps, either of which may carry.
AddWith(a, b, carry) ==
    LET sum == Wrap(a + b)
        res == Wrap(sum + carry)
    IN  [res |-> res,
         c |-> a + b >= Modulus \/ sum + carry >= Modulus,
         v |-> Negative(a) = Negative(b) /\ Negative(a) # Negative(res)]

\* SBC; SUB, CMP and the Thumb subtractions are it with a carry of 1, and RSB
\* exchanges the operands.  The carry is the borrow, inverted.
SubWith(a, b, carry) ==
    LET diff == Wrap(a - b)
        res == Wrap(diff - (1 - carry))
    IN  [res |-> res,
         c |-> ~(a < b \/ diff < 1 - carry),
         v |-> Negative(a) # Negative(b) /\ Negative(a) # Negative(res)]

\* update_nzcv_arithmetic and update_nzcv_logical, the second of flags f.
ArithmeticFlags(r) == [n |-> Negative(r.res), z |-> r.res = 0, c |-> r.c, v |-> r.v]
LogicalFlags(f, res, carry) ==
    [f EXCEPT !.n = Negative(res), !.z = (res = 0), !.c = carry]

\* What CMP a, b leaves.
CompareFlags(a, b) == ArithmeticFlags(SubWith(a, b, 1))

-----------------------------------------------------------------------------
(* condition_passed *)

ConditionPassed(cond, f) ==
    CASE cond = "EQ" -> f.z
      [] cond = "NE" -> ~f.z
      [] cond = "CS" -> f.c
      [] cond = "CC" -> ~f.c
      [] cond = "MI" -> f.n
      [] cond = "PL" -> ~f.n
      [] cond = "VS" -> f.v
      [] cond = "VC" -> ~f.v
      [] cond = "HI" -> f.c /\ ~f.z
      [] cond = "LS" -> ~f.c \/ f.z
      [] cond = "GE" -> f.n = f.v
      [] cond = "LT" -> f.n # f.v
      [] cond = "GT" -> ~f.z /\ f.n = f.v
      [] cond = "LE" -> f.z \/ f.n # f.v
      [] cond = "AL" -> TRUE
      [] cond = "NV" -> FALSE

-----------------------------------------------------------------------------
(* shift_value: the operand and the carry it gives.  An amount of 0 stands  *)
(* for the width of the word in LSR and ASR, and for 1 in ROR.              *)

BitAt(a, weight) == (a \div weight) % 2 = 1

ShiftValue(type, a, amount, carry) ==
    LET p == 2 ^ amount
        fill == IF Negative(a) THEN Modulus - 1 ELSE 0
        q == IF amount = 0 THEN 2 ELSE p
    IN  CASE type = "LSL" /\ amount = 0 -> [value |-> a, carry |-> carry]
          [] type = "LSL" /\ amount > 0 ->
                [value |-> Wrap(a * p), carry |-> BitAt(a * p, Modulus)]
          [] type = "LSR" /\ amount = 0 -> [value |-> 0, carry |-> Negative(a)]
          [] type = "LSR" /\ amount > 0 ->
                [value |-> a \div p, carry |-> BitAt(a, p \div 2)]
          [] type = "ASR" /\ amount = 0 -> [value |-> fill, carry |-> Negative(a)]
          [] type = "ASR" /\ amount > 0 ->
                [value |-> Wrap(Signed(a) \div p), carry |-> BitAt(a, p \div 2)]
          [] type = "ROR" ->
                LET res == (a \div q) + (a % q) * (Modulus \div q)
                IN  [value |-> res, carry |-> Negative(res)]

=============================================================================
