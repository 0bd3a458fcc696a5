----------------------------- MODULE IsaProofs -----------------------------
(***************************************************************************)
(* Proofs about the instructions, for words of any width and any memory:   *)
(* the arithmetic of Alu, the order in which Decode tries the handlers,    *)
(* that every instruction takes a machine state to a machine state, and    *)
(* what a load or store does when it is executed again.                    *)
(***************************************************************************)
EXTENDS Execute, FiniteSetTheorems, WellFoundedInduction, TLAPS

\* Reducing a sum or a difference of two words takes one step.

LEMMA WrapAdd ==
    ASSUME NEW n \in Int, 0 <= n, n < 2 * Modulus
    PROVE  Wrap(n) = IF n >= Modulus THEN n - Modulus ELSE n
  BY HalfAssumption DEF Wrap, Modulus

LEMMA WrapSub ==
    ASSUME NEW n \in Int, -Modulus <= n, n < Modulus
    PROVE  Wrap(n) = IF n < 0 THEN n + Modulus ELSE n
  BY HalfAssumption DEF Wrap, Modulus

\* ADD, ADC, CMN and the Thumb additions: the result and the carry are the
\* sum of the operands and the carry without loss, and V is set exactly when
\* the signed sum has no word, the result being that sum otherwise.
THEOREM AddExact ==
    ASSUME NEW a \in Word, NEW b \in Word, NEW carry \in {0, 1}
    PROVE  LET r == AddWith(a, b, carry)
               s == Signed(a) + Signed(b) + carry
           IN  /\ r.res \in Word
               /\ a + b + carry = IF r.c THEN r.res + Modulus ELSE r.res
               /\ r.v <=> s \notin -Half .. Half - 1
               /\ ~r.v => Signed(r.res) = s
<1>. DEFINE sum == Wrap(a + b)
            r == AddWith(a, b, carry)
<1>1. sum = IF a + b >= Modulus THEN a + b - Modulus ELSE a + b
  BY WrapAdd, HalfAssumption DEF Word, Modulus
<1>2. r.res = IF sum + carry >= Modulus THEN sum + carry - Modulus ELSE sum + carry
  BY <1>1, WrapAdd, HalfAssumption DEF AddWith, Word, Modulus
<1>3. r.c <=> a + b >= Modulus \/ sum + carry >= Modulus
  BY DEF AddWith
<1>4. r.v <=> Negative(a) = Negative(b) /\ Negative(a) # Negative(r.res)
  BY DEF AddWith
<1>. HIDE DEF sum, r
<1>5. r.res \in Word /\ a + b + carry = IF r.c THEN r.res + Modulus ELSE r.res
  BY <1>1, <1>2, <1>3, HalfAssumption DEF Word, Modulus
<1>6. /\ r.v <=> Signed(a) + Signed(b) + carry \notin -Half .. Half - 1
      /\ ~r.v => Signed(r.res) = Signed(a) + Signed(b) + carry
  BY <1>1, <1>2, <1>3, <1>4, HalfAssumption DEF Word, Modulus, Negative, Signed
<1>. QED
  BY <1>5, <1>6 DEF r

\* SUB, SBC, RSB, CMP and the Thumb subtractions: likewise, the carry being
\* the borrow inverted.
THEOREM SubExact ==
    ASSUME NEW a \in Word, NEW b \in Word, NEW carry \in {0, 1}
    PROVE  LET r == SubWith(a, b, carry)
               d == Signed(a) - Signed(b) - (1 - carry)
           IN  /\ r.res \in Word
               /\ a - b - (1 - carry) = IF r.c THEN r.res ELSE r.res - Modulus
               /\ r.v <=> d \notin -Half .. Half - 1
               /\ ~r.v => Signed(r.res) = d
<1>. DEFINE diff == Wrap(a - b)
            r == SubWith(a, b, carry)
<1>1. diff = IF a < b THEN a - b + Modulus ELSE a - b
  BY WrapSub, HalfAssumption DEF Word, Modulus
<1>2. r.res = IF diff < 1 - carry THEN diff - (1 - carry) + Modulus
                                  ELSE diff - (1 - carry)
  BY <1>1, WrapSub, HalfAssumption DEF SubWith, Word, Modulus
<1>3. r.c <=> ~(a < b \/ diff < 1 - carry)
  BY DEF SubWith
<1>4. r.v <=> Negative(a) # Negative(b) /\ Negative(a) # Negative(r.res)
  BY DEF SubWith
<1>. HIDE DEF diff, r
<1>5. r.res \in Word /\ a - b - (1 - carry) = IF r.c THEN r.res ELSE r.res - Modulus
  BY <1>1, <1>2, <1>3, HalfAssumption DEF Word, Modulus
<1>6. /\ r.v <=> Signed(a) - Signed(b) - (1 - carry) \notin -Half .. Half - 1
      /\ ~r.v => Signed(r.res) = Signed(a) - Signed(b) - (1 - carry)
  BY <1>1, <1>2, <1>3, <1>4, HalfAssumption DEF Word, Modulus, Negative, Signed
<1>. QED
  BY <1>5, <1>6 DEF r

\* After CMP a, b the conditions compare a with b: HI, CS, CC and LS as
\* natural numbers, GT, GE, LT and LE as signed ones, EQ and NE as either.
THEOREM ConditionsCompare ==
    ASSUME NEW a \in Word, NEW b \in Word
    PROVE  LET passed(cond) == ConditionPassed(cond, CompareFlags(a, b))
           IN  /\ passed("EQ") <=> a = b
               /\ passed("NE") <=> a # b
               /\ passed("CS") <=> a >= b
               /\ passed("CC") <=> a < b
               /\ passed("HI") <=> a > b
               /\ passed("LS") <=> a <= b
               /\ passed("GE") <=> Signed(a) >= Signed(b)
               /\ passed("LT") <=> Signed(a) < Signed(b)
               /\ passed("GT") <=> Signed(a) > Signed(b)
               /\ passed("LE") <=> Signed(a) <= Signed(b)
<1>. DEFINE r == SubWith(a, b, 1)
            f == CompareFlags(a, b)
<1>1. /\ r.res \in Word
      /\ a - b - (1 - 1) = IF r.c THEN r.res ELSE r.res - Modulus
      /\ r.v <=> Signed(a) - Signed(b) - (1 - 1) \notin -Half .. Half - 1
      /\ ~r.v => Signed(r.res) = Signed(a) - Signed(b) - (1 - 1)
  <2>. 1 \in {0, 1}
    OBVIOUS
  <2>. QED
    BY SubExact, Zenon
<1>2. /\ f \in Nzcv
      /\ f.n <=> Negative(r.res)
      /\ f.z <=> r.res = 0
      /\ f.c <=> r.c
      /\ f.v <=> r.v
  <2>1. r.c \in BOOLEAN /\ r.v \in BOOLEAN
    BY DEF SubWith
  <2>2. f = [n |-> Negative(r.res), z |-> r.res = 0, c |-> r.c, v |-> r.v]
    BY DEF CompareFlags, ArithmeticFlags
  <2>3. Negative(r.res) \in BOOLEAN /\ (r.res = 0) \in BOOLEAN
    BY DEF Negative
  <2>. HIDE DEF r, f
  <2>4. f \in Nzcv
    BY <2>1, <2>2, <2>3, Zenon DEF Nzcv
  <2>. QED
    BY <2>2, <2>4, Zenon
<1>. HIDE DEF r, f
<1>3. f.z <=> a = b
  <2>1. r.res = 0 <=> a = b
    BY <1>1, HalfAssumption DEF Word, Modulus
  <2>. QED
    BY <1>2, <2>1
<1>4. f.c <=> a >= b
  <2>1. r.c <=> a >= b
    BY <1>1, HalfAssumption DEF Word, Modulus
  <2>. QED
    BY <1>2, <2>1
<1>5. f.n = f.v <=> Signed(a) >= Signed(b)
  <2>1. CASE r.v
    <3>1. Negative(r.res) <=> Signed(a) >= Signed(b)
      <4>1. r.res = a - b \/ r.res = a - b + Modulus
        BY <1>1, HalfAssumption DEF Word, Modulus
      <4>2. Signed(a) - Signed(b) \notin -Half .. Half - 1
        BY <1>1, <2>1, HalfAssumption DEF Word, Modulus, Signed, Negative
      <4>. QED
        BY <1>1, <4>1, <4>2, HalfAssumption DEF Word, Modulus, Negative, Signed
    <3>. QED
      BY <1>2, <2>1, <3>1 DEF Nzcv
  <2>2. CASE ~r.v
    <3>1. Negative(r.res) <=> ~(Signed(a) >= Signed(b))
      BY <1>1, <2>2, HalfAssumption DEF Word, Modulus, Negative, Signed
    <3>. QED
      BY <1>2, <2>2, <3>1 DEF Nzcv
  <2>. QED
    BY <2>1, <2>2
<1>6. Signed(a) = Signed(b) <=> a = b
  BY HalfAssumption DEF Signed, Negative, Word, Modulus
<1>7. Signed(a) \in Int /\ Signed(b) \in Int /\ a \in Int /\ b \in Int
  BY HalfAssumption DEF Signed, Word, Modulus
<1>8. Signed(a) < Signed(b) <=> ~(Signed(a) >= Signed(b))
  BY <1>7
<1>9. Signed(a) > Signed(b) <=> Signed(a) >= Signed(b) /\ a # b
  BY <1>6, <1>7
<1>10. Signed(a) <= Signed(b) <=> ~(Signed(a) >= Signed(b)) \/ a = b
  BY <1>6, <1>7
<1>11. /\ a < b <=> ~(a >= b)
       /\ a > b <=> a >= b /\ a # b
       /\ a <= b <=> ~(a >= b) \/ a = b
  BY <1>7
<1>12. /\ ConditionPassed("EQ", f) <=> a = b
       /\ ConditionPassed("NE", f) <=> a # b
       /\ ConditionPassed("CS", f) <=> a >= b
       /\ ConditionPassed("CC", f) <=> a < b
       /\ ConditionPassed("HI", f) <=> a > b
       /\ ConditionPassed("LS", f) <=> a <= b
  BY <1>2, <1>3, <1>4, <1>11 DEF ConditionPassed, Nzcv
<1>13. /\ ConditionPassed("GE", f) <=> Signed(a) >= Signed(b)
       /\ ConditionPassed("LT", f) <=> Signed(a) < Signed(b)
       /\ ConditionPassed("GT", f) <=> Signed(a) > Signed(b)
       /\ ConditionPassed("LE", f) <=> Signed(a) <= Signed(b)
  BY <1>2, <1>3, <1>5, <1>8, <1>9, <1>10 DEF ConditionPassed, Nzcv
<1>. QED
  BY <1>12, <1>13 DEF f

\* ADDS of the low words and ADC of the high ones add numbers of two words,
\* and the carry that is left is theirs.
THEOREM DoubleAdd ==
    ASSUME NEW al \in Word, NEW ah \in Word, NEW bl \in Word, NEW bh \in Word
    PROVE  LET low == AddWith(al, bl, 0)
               high == AddWith(ah, bh, Bit(low.c))
           IN  (Bit(high.c) * Modulus + high.res) * Modulus + low.res
                   = (ah * Modulus + al) + (bh * Modulus + bl)
<1>. DEFINE low == AddWith(al, bl, 0)
            high == AddWith(ah, bh, Bit(low.c))
            l == Bit(low.c)
            h == Bit(high.c)
<1>1. l \in {0, 1} /\ h \in {0, 1}
  BY DEF Bit
<1>2. low.res \in Word /\ al + bl + 0 = IF low.c THEN low.res + Modulus ELSE low.res
  BY AddExact
<1>3. high.res \in Word /\ ah + bh + l = IF high.c THEN high.res + Modulus ELSE high.res
  BY <1>1, AddExact
<1>4. /\ al \in Int /\ ah \in Int /\ bl \in Int /\ bh \in Int /\ Modulus \in Int
      /\ low.res \in Int /\ high.res \in Int
  BY <1>2, <1>3, HalfAssumption DEF Word, Modulus
<1>5. al + bl = low.res + l * Modulus
  BY <1>2, <1>4 DEF Bit
<1>6. ah + bh + l = high.res + h * Modulus
  BY <1>1, <1>3, <1>4 DEF Bit
<1>. HIDE DEF low, high, l, h
<1>7. (h * Modulus + high.res) * Modulus = (ah + bh + l) * Modulus
  <2>1. h * Modulus + high.res = ah + bh + l
    BY <1>1, <1>4, <1>6
  <2>. QED
    BY <2>1, Zenon
<1>8. (ah + bh + l) * Modulus = ah * Modulus + bh * Modulus + l * Modulus
  BY <1>1, <1>4
<1>9. (h * Modulus + high.res) * Modulus + low.res
          = (ah * Modulus + al) + (bh * Modulus + bl)
  BY <1>1, <1>4, <1>5, <1>7, <1>8
<1>. QED
  BY <1>9 DEF low, high, l, h

\* SUBS and SBC likewise subtract them.
THEOREM DoubleSub ==
    ASSUME NEW al \in Word, NEW ah \in Word, NEW bl \in Word, NEW bh \in Word
    PROVE  LET low == SubWith(al, bl, 1)
               high == SubWith(ah, bh, Bit(low.c))
           IN  ((Bit(high.c) - 1) * Modulus + high.res) * Modulus + low.res
                   = (ah * Modulus + al) - (bh * Modulus + bl)
<1>. DEFINE low == SubWith(al, bl, 1)
            high == SubWith(ah, bh, Bit(low.c))
            l == Bit(low.c)
            h == Bit(high.c)
<1>1. l \in {0, 1} /\ h \in {0, 1}
  BY DEF Bit
<1>2. low.res \in Word /\ al - bl - (1 - 1) = IF low.c THEN low.res ELSE low.res - Modulus
  BY SubExact
<1>3. high.res \in Word /\ ah - bh - (1 - l) = IF high.c THEN high.res ELSE high.res - Modulus
  BY <1>1, SubExact
<1>4. /\ al \in Int /\ ah \in Int /\ bl \in Int /\ bh \in Int /\ Modulus \in Int
      /\ low.res \in Int /\ high.res \in Int
  BY <1>2, <1>3, HalfAssumption DEF Word, Modulus
<1>5. al - bl = low.res + (l - 1) * Modulus
  BY <1>2, <1>4 DEF Bit
<1>6. ah - bh - (1 - l) = high.res + (h - 1) * Modulus
  BY <1>1, <1>3, <1>4 DEF Bit
<1>. HIDE DEF low, high, l, h
<1>7. ((h - 1) * Modulus + high.res) * Modulus = (ah - bh - (1 - l)) * Modulus
  <2>1. (h - 1) * Modulus + high.res = ah - bh - (1 - l)
    BY <1>1, <1>4, <1>6
  <2>. QED
    BY <2>1, Zenon
<1>8. (ah - bh - (1 - l)) * Modulus = ah * Modulus - bh * Modulus - (1 - l) * Modulus
  BY <1>1, <1>4
<1>9. ((h - 1) * Modulus + high.res) * Modulus + low.res
          = (ah * Modulus + al) - (bh * Modulus + bl)
  BY <1>1, <1>4, <1>5, <1>7, <1>8
<1>. QED
  BY <1>9 DEF low, high, l, h

-----------------------------------------------------------------------------
(* Handlers *)

\* exec_bx, exec_multiply and exec_swap are never reached: step_arm asks
\* exec_data_processing and the halfword handler first, and they take every
\* encoding those would accept.  A BX is a TEQ and a SWP a TST or a CMP, both
\* without S, and a MUL or MLA is a transfer of a byte.
THEOREM DeadHandlers ==
    ASSUME NEW e \in Arm
    PROVE  /\ Handler(e) \notin {"bx", "multiply", "swap"}
           /\ IsBx(e) => Handler(e) = "data" /\ e.op = 9 /\ e.s = 0
           /\ IsSwap(e) => Handler(e) = "data" /\ e.op \in {8, 10} /\ e.s = 0
           /\ IsMultiply(e) => Handler(e) = "halfword" /\ ~B5(e) /\ ~B6(e)
<1>1. /\ e.top \in 0 .. 7 /\ e.op \in 0 .. 15 /\ e.s \in 0 .. 1 /\ e.mid \in 0 .. 15
      /\ e.rn \in 0 .. 15 /\ e.rd \in 0 .. 15 /\ e.rs \in 0 .. 15
  BY DEF Arm, Nibble
<1>2. IsBx(e) => ~IsHalfword(e) /\ IsData(e)
  BY <1>1 DEF IsBx, IsHalfword, IsData, B7
<1>3. IsSwap(e) => ~IsHalfword(e) /\ IsData(e)
  BY <1>1 DEF IsSwap, IsHalfword, IsData
<1>4. IsMultiply(e) => IsHalfword(e) /\ ~B5(e) /\ ~B6(e)
  BY <1>1 DEF IsMultiply, IsHalfword, IsSwap, B7, B4, B5, B6
<1>5. IsBx(e) \/ IsSwap(e) \/ IsMultiply(e) =>
          /\ ~IsWfi(e) /\ ~IsSwi(e) /\ ~IsClz(e) /\ ~IsMrs(e) /\ ~IsMsr(e)
          /\ ~IsCoprocessor(e) /\ ~IsBranch(e) /\ ~IsBlock(e) /\ ~IsSingle(e)
  BY <1>1 DEF IsBx, IsSwap, IsMultiply, IsWfi, IsSwi, IsClz, IsMrs, IsMsr,
              IsCoprocessor, IsBranch, IsBlock, IsSingle
<1>6. Handler(e) \notin {"bx", "multiply", "swap"}
  <2>1. ~IsHalfword(e) /\ ~IsData(e) => ~IsBx(e) /\ ~IsMultiply(e) /\ ~IsSwap(e)
    BY <1>2, <1>3, <1>4
  <2>. QED
    BY <2>1 DEF Handler
<1>7. IsBx(e) => Handler(e) = "data" /\ e.op = 9 /\ e.s = 0
  BY <1>2, <1>5 DEF Handler, IsBx
<1>8. IsSwap(e) => Handler(e) = "data" /\ e.op \in {8, 10} /\ e.s = 0
  BY <1>3, <1>5 DEF Handler, IsSwap
<1>9. IsMultiply(e) => Handler(e) = "halfword" /\ ~B5(e) /\ ~B6(e)
  BY <1>4, <1>5 DEF Handler
<1>. QED
  BY <1>6, <1>7, <1>8, <1>9

-----------------------------------------------------------------------------
(* Powers *)

\* What holds of 0 and of each number after one of which it holds, holds of
\* all: of those of which it does not there would be a least.
LEMMA AllNumbers ==
    ASSUME NEW S \in SUBSET Nat, 0 \in S, \A n \in S : n + 1 \in S
    PROVE  S = Nat
<1>. DEFINE T == Nat \ S
            R == {ss \in Nat \X Nat : ss[1] < ss[2]}
<1>. SUFFICES ASSUME T # {} PROVE FALSE
  OBVIOUS
<1>1. IsWellFoundedOn(R, Nat)
  BY NatLessThanWellFounded, Zenon DEF OpToRel
<1>2. T \subseteq Nat /\ T # {}
  OBVIOUS
<1>3. PICK x \in T : \A y \in T : <<y, x>> \notin R
  <2>. HIDE DEF R, T
  <2>. QED  BY <1>1, <1>2, WFMin, Zenon
<1>4. x \in Nat /\ x \notin S /\ x # 0 /\ x - 1 \in Nat
  OBVIOUS
<1>5. x - 1 \notin S
  BY <1>4
<1>6. x - 1 \in T
  BY <1>4, <1>5
<1>7. <<x - 1, x>> \notin R
  BY <1>3, <1>6
<1>. QED  BY <1>4, <1>7

LEMMA PowerIsNat ==
    ASSUME NEW n \in Nat
    PROVE  2 ^ n \in Nat \ {0}
<1>1. IsFiniteSet(1 .. n) /\ Cardinality(1 .. n) = n
  BY FS_Interval
<1>2. /\ IsFiniteSet(SUBSET (1 .. n))
      /\ Cardinality(SUBSET (1 .. n)) = 2 ^ n
  BY <1>1, FS_SUBSET
<1>3. Cardinality(SUBSET (1 .. n)) \in Nat
  BY <1>2, FS_CardinalityType
<1>4. Cardinality(SUBSET (1 .. n)) # 0
  BY <1>2, FS_EmptySet
<1>. QED  BY <1>2, <1>3, <1>4

\* A set of one element more has as many subsets without it as with it.
LEMMA PowerDoubles ==
    ASSUME NEW n \in Nat
    PROVE  2 ^ (n + 1) = 2 * 2 ^ n
<1>. DEFINE A == SUBSET (1 .. n)
            C == SUBSET (1 .. (n + 1))
            B == C \ A
            with == [x \in A |-> x \cup {n + 1}]
<1>1. /\ IsFiniteSet(1 .. n) /\ Cardinality(1 .. n) = n
      /\ IsFiniteSet(1 .. (n + 1)) /\ Cardinality(1 .. (n + 1)) = n + 1
  BY FS_Interval
<1>2. IsFiniteSet(A) /\ Cardinality(A) = 2 ^ n
  BY <1>1, FS_SUBSET
<1>3. IsFiniteSet(C) /\ Cardinality(C) = 2 ^ (n + 1)
  BY <1>1, FS_SUBSET
<1>4. 1 .. (n + 1) = (1 .. n) \cup {n + 1} /\ n + 1 \notin 1 .. n
  OBVIOUS
<1>5. with \in Bijection(A, B)
  <2>1. \A x \in A : x \cup {n + 1} \in B
    BY <1>4
  <2>2. \A x, y \in A : x \cup {n + 1} = y \cup {n + 1} => x = y
    BY <1>4
  <2>3. ASSUME NEW y \in B PROVE \E x \in A : x \cup {n + 1} = y
    <3>1. n + 1 \in y
      BY <1>4
    <3>2. y \ {n + 1} \in A /\ (y \ {n + 1}) \cup {n + 1} = y
      BY <1>4, <3>1
    <3>. QED  BY <3>2
  <2>. HIDE DEF A, B
  <2>4. with \in [A -> B] /\ \A x \in A : with[x] = x \cup {n + 1}
    BY <2>1
  <2>5. DOMAIN with = A
    OBVIOUS
  <2>. HIDE DEF with
  <2>6. with \in Injection(A, B)
    BY <2>2, <2>4, <2>5 DEF Injection, IsInjective
  <2>7. with \in Surjection(A, B)
    BY <2>3, <2>4 DEF Surjection
  <2>. QED  BY <2>6, <2>7 DEF Bijection
<1>6. IsFiniteSet(B) /\ Cardinality(B) = 2 ^ n
  <2>1. ExistsBijection(A, B)
    BY <1>5 DEF ExistsBijection
  <2>. HIDE DEF A, B
  <2>. QED  BY <1>2, <2>1, FS_Bijection
<1>7. Cardinality(B) = Cardinality(C) - Cardinality(A)
  <2>1. C \cap A = A
    BY <1>4
  <2>2. B = C \ A
    OBVIOUS
  <2>. HIDE DEF A, B, C
  <2>3. Cardinality(C \ A) = Cardinality(C) - Cardinality(C \cap A)
    BY <1>3, FS_Difference, Zenon
  <2>. QED  BY <2>1, <2>2, <2>3, Zenon
<1>. QED  BY <1>2, <1>3, <1>6, <1>7, PowerIsNat

LEMMA PowerSum ==
    ASSUME NEW m \in Nat, NEW n \in Nat
    PROVE  2 ^ (m + n) = 2 ^ m * 2 ^ n
<1>. DEFINE S == {k \in Nat : 2 ^ (m + k) = 2 ^ m * 2 ^ k}
<1>1. 0 \in S
  BY PowerIsNat
<1>2. ASSUME NEW k \in S PROVE k + 1 \in S
  <2>1. k \in Nat /\ m + k \in Nat
    OBVIOUS
  <2>2. 2 ^ (m + k + 1) = 2 * 2 ^ (m + k) /\ 2 ^ (k + 1) = 2 * 2 ^ k
    BY <2>1, PowerDoubles
  <2>3. 2 ^ (m + k) = 2 ^ m * 2 ^ k
    OBVIOUS
  <2>4. 2 ^ m \in Nat /\ 2 ^ k \in Nat
    BY <2>1, PowerIsNat
  <2>5. 2 * (2 ^ m * 2 ^ k) = 2 ^ m * (2 * 2 ^ k)
    BY <2>4
  <2>6. m + (k + 1) = m + k + 1
    BY <2>1
  <2>. QED  BY <2>1, <2>2, <2>3, <2>5, <2>6
<1>3. S = Nat
  <2>. HIDE DEF S
  <2>1. S \in SUBSET Nat
    BY DEF S
  <2>. QED  BY <1>1, <1>2, <2>1, AllNumbers
<1>. QED  BY <1>3

LEMMA PowerAbove ==
    ASSUME NEW n \in Nat
    PROVE  n < 2 ^ n
<1>. DEFINE S == {k \in Nat : k < 2 ^ k}
<1>1. 0 \in S
  BY PowerIsNat
<1>2. ASSUME NEW k \in S PROVE k + 1 \in S
  BY PowerDoubles, PowerIsNat
<1>3. S = Nat
  <2>. HIDE DEF S
  <2>1. S \in SUBSET Nat
    BY DEF S
  <2>. QED  BY <1>1, <1>2, <2>1, AllNumbers
<1>. QED  BY <1>3

-----------------------------------------------------------------------------
(* Words and their bytes *)

LEMMA WordFacts ==
    /\ ByteBits \in Nat /\ WordBits \in Nat
    /\ ByteBase \in Nat /\ ByteBase >= 4
    /\ Half \in Nat \ {0} /\ Modulus \in Nat /\ Modulus = 2 * Half
    /\ Modulus = 2 ^ WordBits
    /\ Modulus >= 256 /\ WordBits < Modulus
    /\ Weight(0) = 1 /\ Weight(4) = Modulus
    /\ \A i \in Nat : Weight(i) \in Nat \ {0} /\ Weight(i + 1) = Weight(i) * ByteBase
<1>1. ByteBits \in Nat /\ ByteBits >= 2 /\ Modulus = 2 ^ (4 * ByteBits)
  BY MemoryAssumption
<1>2. ASSUME NEW n \in Nat, NEW k \in Nat, n <= k
      PROVE  2 ^ n <= 2 ^ k
  <2>1. k - n \in Nat /\ n + (k - n) = k
    BY <1>2
  <2>2. 2 ^ (n + (k - n)) = 2 ^ n * 2 ^ (k - n)
    BY <2>1, PowerSum
  <2>3. 2 ^ n \in Nat \ {0} /\ 2 ^ (k - n) \in Nat \ {0}
    BY <2>1, PowerIsNat
  <2>4. \A x, y \in Nat \ {0} : x <= x * y
    OBVIOUS
  <2>. QED  BY <2>1, <2>2, <2>3, <2>4
<1>3. 4 * ByteBits \in Nat /\ 8 <= 4 * ByteBits /\ 2 ^ 2 = 4 /\ 2 ^ 8 = 256
  BY <1>1
<1>4. ByteBase \in Nat /\ ByteBase >= 4
  <2>1. 2 \in Nat /\ 2 <= ByteBits
    BY <1>1
  <2>2. 2 ^ 2 <= 2 ^ ByteBits
    BY <1>1, <1>2, <2>1, Zenon
  <2>3. 2 ^ ByteBits \in Nat
    BY <1>1, PowerIsNat
  <2>. QED  BY <2>2, <2>3 DEF ByteBase
<1>5. 256 <= 2 ^ (4 * ByteBits)
  <2>. DEFINE eight == 8
              bits == 4 * ByteBits
  <2>1. eight \in Nat /\ bits \in Nat /\ eight <= bits /\ 2 ^ eight = 256
    BY <1>3
  <2>2. 2 ^ eight <= 2 ^ bits
    <3>. HIDE DEF eight, bits
    <3>. QED  BY <1>2, <2>1, Zenon
  <2>. QED  BY <2>1, <2>2, Zenon
<1>6. WordBits \in Nat /\ WordBits < Modulus
  BY <1>1, <1>3, PowerAbove DEF WordBits
<1>7. Modulus \in Nat /\ Modulus = 2 * Half
  BY HalfAssumption DEF Modulus
<1>8. Weight(0) = 1 /\ Weight(4) = Modulus
  <2>1. ByteBits * 0 = 0 /\ ByteBits * 4 = 4 * ByteBits /\ 2 ^ 0 = 1
    BY <1>1
  <2>. QED  BY <1>1, <2>1 DEF Weight
<1>9. ASSUME NEW i \in Nat
      PROVE  Weight(i) \in Nat \ {0} /\ Weight(i + 1) = Weight(i) * ByteBase
  <2>1. ByteBits * i \in Nat /\ ByteBits * (i + 1) = ByteBits * i + ByteBits
    BY <1>1
  <2>2. 2 ^ (ByteBits * i + ByteBits) = 2 ^ (ByteBits * i) * 2 ^ ByteBits
    BY <1>1, <2>1, PowerSum
  <2>. QED  BY <2>1, <2>2, PowerIsNat DEF Weight, ByteBase
<1>. QED
  BY <1>1, <1>4, <1>5, <1>6, <1>7, <1>8, <1>9, HalfAssumption DEF WordBits

LEMMA WrapIsWord ==
    ASSUME NEW n \in Int
    PROVE  Wrap(n) \in Word
  BY WordFacts DEF Wrap, Word

\* The running sums of a sequence of terms.
Sums(f, n, term) ==
    f = [i \in 0 .. n |-> IF i = 0 THEN 0 ELSE f[i - 1] + term[i]]

LEMMA SumsExist ==
    ASSUME NEW n \in Nat, NEW term
    PROVE  \E f : Sums(f, n, term)
<1>. DEFINE S == {k \in Nat : \E f : Sums(f, k, term)}
<1>1. 0 \in S
  <2>. DEFINE f == [i \in 0 .. 0 |-> 0]
  <2>1. Sums(f, 0, term)
    BY DEF Sums
  <2>. QED  BY <2>1
<1>2. ASSUME NEW k \in S PROVE k + 1 \in S
  <2>1. PICK f : Sums(f, k, term)
    OBVIOUS
  <2>. DEFINE g == [i \in 0 .. (k + 1) |-> IF i = k + 1 THEN f[k] + term[k + 1] ELSE f[i]]
  <2>2. \A i \in 0 .. (k + 1) : g[i] = IF i = 0 THEN 0 ELSE g[i - 1] + term[i]
    BY <2>1 DEF Sums
  <2>3. g = [i \in 0 .. (k + 1) |-> g[i]]
    OBVIOUS
  <2>. HIDE DEF g
  <2>4. Sums(g, k + 1, term)
    BY <2>2, <2>3 DEF Sums
  <2>. QED  BY <2>4
<1>3. S = Nat
  <2>. HIDE DEF S
  <2>1. S \in SUBSET Nat
    BY DEF S
  <2>. QED  BY <1>1, <1>2, <2>1, AllNumbers
<1>. QED  BY <1>3

\* Sums stay below what grows by no less than the terms.
LEMMA SumsBounded ==
    ASSUME NEW n \in Nat, NEW term, NEW f, Sums(f, n, term),
           NEW bound \in [0 .. n -> Nat],
           \A i \in 1 .. n : term[i] \in Nat /\ bound[i - 1] + term[i] <= bound[i]
    PROVE  f[n] \in 0 .. bound[n]
<1>. DEFINE S == {k \in Nat : k <= n => f[k] \in 0 .. bound[k]}
<1>1. 0 \in S
  BY DEF Sums
<1>2. ASSUME NEW k \in S PROVE k + 1 \in S
  <2>. SUFFICES ASSUME k + 1 <= n PROVE f[k + 1] \in 0 .. bound[k + 1]
    OBVIOUS
  <2>1. k \in 0 .. n /\ k + 1 \in 1 .. n /\ f[k] \in 0 .. bound[k] /\ (k + 1) - 1 = k
    OBVIOUS
  <2>2. f[k + 1] = f[k] + term[k + 1]
    BY <2>1 DEF Sums
  <2>3. term[k + 1] \in Nat /\ bound[k] + term[k + 1] <= bound[k + 1]
    BY <2>1
  <2>. QED  BY <2>1, <2>2, <2>3
<1>3. S = Nat
  <2>. HIDE DEF S
  <2>1. S \in SUBSET Nat
    BY DEF S
  <2>. QED  BY <1>1, <1>2, <2>1, AllNumbers
<1>. QED  BY <1>3

LEMMA Weights ==
    ASSUME NEW n \in 0 .. 4
    PROVE  Weight(n) \in Nat \ {0} /\ Weight(n) <= Modulus
<1>. DEFINE w(i) == Weight(i)
<1>1. \A i \in 0 .. 3 : w(i) \in Nat \ {0} /\ w(i + 1) \in Nat \ {0} /\ w(i) <= w(i + 1)
  <2>. SUFFICES ASSUME NEW i \in 0 .. 3
                PROVE  w(i) \in Nat \ {0} /\ w(i + 1) \in Nat \ {0} /\ w(i) <= w(i + 1)
    OBVIOUS
  <2>1. /\ w(i) \in Nat \ {0} /\ w(i + 1) \in Nat \ {0} /\ w(i + 1) = w(i) * ByteBase
        /\ ByteBase \in Nat \ {0}
    BY WordFacts
  <2>2. \A x, y \in Nat \ {0} : x <= x * y
    OBVIOUS
  <2>. HIDE DEF w
  <2>. QED  BY <2>1, <2>2
<1>2. w(4) = Modulus /\ Modulus \in Nat
  BY WordFacts
<1>. HIDE DEF w
<1>3. w(n) \in Nat \ {0} /\ w(n) <= Modulus
  <2>1. /\ w(0) <= w(1) /\ w(1) <= w(2) /\ w(2) <= w(3) /\ w(3) <= w(4)
        /\ {w(0), w(1), w(2), w(3), w(4)} \subseteq Nat \ {0}
    <3>1. /\ w(0) <= w(0 + 1) /\ w(1) <= w(1 + 1) /\ w(2) <= w(2 + 1) /\ w(3) <= w(3 + 1)
          /\ {w(0), w(1), w(2), w(3), w(3 + 1)} \subseteq Nat \ {0}
      BY <1>1
    <3>. QED  BY <3>1
  <2>2. n = 0 \/ n = 1 \/ n = 2 \/ n = 3 \/ n = 4
    OBVIOUS
  <2>. QED  BY <1>2, <2>1, <2>2
<1>. QED  BY <1>3 DEF w

LEMMA ValueTyped ==
    ASSUME NEW m \in Contents, NEW a \in Word, NEW n \in 0 .. 4, CanRead(a, n)
    PROVE  Value(m, a, n) \in 0 .. Weight(n) - 1
<1>. DEFINE term == [i \in 1 .. n |-> m[Address(a, i - 1)] * Weight(i - 1)]
            bound == [i \in 0 .. n |-> Weight(i) - 1]
            P(f) == f = [i \in 0 .. n |->
                IF i = 0 THEN 0 ELSE f[i - 1] + m[Address(a, i - 1)] * Weight(i - 1)]
            F == CHOOSE f : P(f)
<1>1. \A f : P(f) <=> Sums(f, n, term)
  <2>. SUFFICES ASSUME NEW f PROVE P(f) <=> Sums(f, n, term)
    OBVIOUS
  <2>1. \A i \in 0 .. n : (IF i = 0 THEN 0 ELSE f[i - 1] + m[Address(a, i - 1)] * Weight(i - 1))
                              = (IF i = 0 THEN 0 ELSE f[i - 1] + term[i])
    OBVIOUS
  <2>. QED  BY <2>1 DEF Sums
<1>2. P(F)
  <2>1. \E f : P(f)
    <3>. HIDE DEF P, term
    <3>. QED  BY <1>1, SumsExist
  <2>. HIDE DEF P
  <2>. QED  BY <2>1
<1>3. Value(m, a, n) = F[n]
  BY Zenon DEF Value
<1>4. \A i \in 0 .. n : Weight(i) \in Nat \ {0}
  BY WordFacts
<1>5. bound \in [0 .. n -> Nat]
  BY <1>4
<1>6. ASSUME NEW i \in 1 .. n
      PROVE  term[i] \in Nat /\ bound[i - 1] + term[i] <= bound[i]
  <2>1. Address(a, i - 1) \in Mapped /\ i - 1 \in 0 .. n - 1 /\ i - 1 \in Nat
    BY DEF CanRead
  <2>2. m[Address(a, i - 1)] \in 0 .. ByteBase - 1
    BY <2>1 DEF Contents, Byte
  <2>3. Weight(i - 1) \in Nat \ {0} /\ Weight(i) = Weight(i - 1) * ByteBase
    <3>1. Weight(i - 1 + 1) = Weight(i - 1) * ByteBase /\ Weight(i - 1) \in Nat \ {0}
      BY <2>1, WordFacts, Zenon
    <3>2. i - 1 + 1 = i
      OBVIOUS
    <3>. QED  BY <3>1, <3>2
  <2>4. \A x \in 0 .. ByteBase - 1, w \in Nat : x * w \in Nat /\ w - 1 + x * w <= w * ByteBase - 1
    <3>. SUFFICES ASSUME NEW x \in 0 .. ByteBase - 1, NEW w \in Nat
                  PROVE  x * w \in Nat /\ w - 1 + x * w <= w * ByteBase - 1
      OBVIOUS
    <3>1. ByteBase \in Nat
      BY WordFacts
    <3>2. ByteBase - 1 - x \in Nat /\ x \in Nat
      BY <3>1
    <3>3. (ByteBase - 1 - x) * w \in Nat /\ x * w \in Nat
      BY <3>2
    <3>4. w * ByteBase = w + x * w + (ByteBase - 1 - x) * w
      BY <3>1, <3>2
    <3>. QED  BY <3>1, <3>3, <3>4
  <2>5. /\ term[i] = m[Address(a, i - 1)] * Weight(i - 1)
        /\ bound[i - 1] = Weight(i - 1) - 1 /\ bound[i] = Weight(i) - 1
    BY <2>1
  <2>. HIDE DEF term, bound
  <2>6. /\ m[Address(a, i - 1)] * Weight(i - 1) \in Nat
        /\ Weight(i - 1) - 1 + m[Address(a, i - 1)] * Weight(i - 1) <= Weight(i - 1) * ByteBase - 1
    BY <2>2, <2>3, <2>4
  <2>. QED  BY <2>3, <2>5, <2>6
<1>7. Sums(F, n, term) /\ n \in Nat /\ n \in 0 .. n /\ bound[n] = Weight(n) - 1
  <2>1. n \in Nat /\ n \in 0 .. n
    OBVIOUS
  <2>2. bound[n] = Weight(n) - 1
    BY <2>1
  <2>. HIDE DEF F, P, term, bound
  <2>. QED  BY <1>1, <1>2, <2>1, <2>2
<1>8. F[n] \in 0 .. bound[n]
  <2>. HIDE DEF F, term, bound
  <2>. QED  BY <1>5, <1>6, <1>7, SumsBounded
<1>. QED  BY <1>3, <1>7, <1>8

LEMMA BitwiseTyped ==
    ASSUME NEW pairs, NEW a, NEW b
    PROVE  Bitwise(pairs, a, b) \in Word
<1>. DEFINE n == WordBits
            bit(i) == Bit(<<BitAt(a, 2 ^ (i - 1)), BitAt(b, 2 ^ (i - 1))>> \in pairs)
            term == [i \in 1 .. n |-> 2 ^ (i - 1) * bit(i)]
            bound == [i \in 0 .. n |-> 2 ^ i - 1]
            P(f) == f = [i \in 0 .. n |->
                IF i = 0 THEN 0
                ELSE f[i - 1] + 2 ^ (i - 1) * Bit(<<BitAt(a, 2 ^ (i - 1)), BitAt(b, 2 ^ (i - 1))>> \in pairs)]
            F == CHOOSE f : P(f)
<1>1. \A f : P(f) <=> Sums(f, n, term)
  <2>. SUFFICES ASSUME NEW f PROVE P(f) <=> Sums(f, n, term)
    OBVIOUS
  <2>. HIDE DEF n
  <2>1. \A i \in 0 .. n : (IF i = 0 THEN 0 ELSE f[i - 1] + 2 ^ (i - 1) * bit(i))
                              = (IF i = 0 THEN 0 ELSE f[i - 1] + term[i])
    <3>. HIDE DEF bit
    <3>1. \A i \in 0 .. n : i # 0 => term[i] = 2 ^ (i - 1) * bit(i)
      OBVIOUS
    <3>. HIDE DEF term
    <3>. QED  BY <3>1
  <2>2. P(f) <=> f = [i \in 0 .. n |-> IF i = 0 THEN 0 ELSE f[i - 1] + 2 ^ (i - 1) * bit(i)]
    OBVIOUS
  <2>. HIDE DEF P, bit, term
  <2>. QED  BY <2>1, <2>2 DEF Sums
<1>2. n \in Nat /\ Modulus = 2 ^ n /\ Modulus \in Nat
  BY WordFacts
<1>3. P(F)
  <2>1. \E f : P(f)
    <3>. HIDE DEF P, term, n
    <3>. QED  BY <1>1, <1>2, SumsExist
  <2>. HIDE DEF P
  <2>. QED  BY <2>1
<1>4. Bitwise(pairs, a, b) = F[n]
  BY Zenon DEF Bitwise
<1>. HIDE DEF n
<1>5. bound \in [0 .. n -> Nat]
  <2>1. \A i \in 0 .. n : 2 ^ i \in Nat \ {0}
    BY PowerIsNat
  <2>. QED  BY <2>1
<1>6. ASSUME NEW i \in 1 .. n
      PROVE  term[i] \in Nat /\ bound[i - 1] + term[i] <= bound[i]
  <2>1. bit(i) \in {0, 1}
    BY DEF Bit
  <2>. HIDE DEF bit
  <2>2. /\ term[i] = 2 ^ (i - 1) * bit(i)
        /\ bound[i - 1] = 2 ^ (i - 1) - 1 /\ bound[i] = 2 ^ i - 1
    BY <1>2
  <2>3. 2 ^ (i - 1) \in Nat \ {0} /\ 2 ^ i = 2 * 2 ^ (i - 1)
    <3>1. i - 1 \in Nat /\ i - 1 + 1 = i
      BY <1>2
    <3>2. 2 ^ (i - 1 + 1) = 2 * 2 ^ (i - 1)
      BY <3>1, PowerDoubles
    <3>. QED  BY <3>1, <3>2, PowerIsNat
  <2>. HIDE DEF term, bound
  <2>. QED  BY <2>1, <2>2, <2>3
<1>7. Sums(F, n, term) /\ n \in 0 .. n /\ bound[n] = 2 ^ n - 1
  <2>1. n \in 0 .. n
    BY <1>2
  <2>2. bound[n] = 2 ^ n - 1
    BY <2>1
  <2>. HIDE DEF F, P, term, bound
  <2>. QED  BY <1>1, <1>3, <2>1, <2>2
<1>8. F[n] \in 0 .. bound[n]
  <2>. HIDE DEF F, term, bound
  <2>. QED  BY <1>2, <1>5, <1>6, <1>7, SumsBounded
<1>. QED  BY <1>2, <1>4, <1>7, <1>8 DEF Word

\* Every byte of a word is one.
LEMMA BytesTyped ==
    ASSUME NEW w \in Word, NEW n \in Nat
    PROVE  Bytes(w, n) \in Seq(Byte) /\ Len(Bytes(w, n)) = n
<1>1. ASSUME NEW i \in 1 .. n
      PROVE  (w \div Weight(i - 1)) % ByteBase \in Byte
  <2>1. i - 1 \in Nat
    OBVIOUS
  <2>2. Weight(i - 1) \in Nat \ {0}
    BY <2>1, WordFacts
  <2>3. w \in Nat /\ ByteBase \in Nat \ {0}
    BY WordFacts DEF Word
  <2>4. \A v \in Nat \ {0} : w \div v \in Nat
    BY <2>3
  <2>5. w \div Weight(i - 1) \in Nat
    BY <2>2, <2>4
  <2>6. \A x \in Nat : x % ByteBase \in 0 .. ByteBase - 1
    BY <2>3
  <2>. QED  BY <2>5, <2>6 DEF Byte
<1>. QED  BY <1>1 DEF Bytes

-----------------------------------------------------------------------------
(* What the handlers compute is a word *)

LEMMA ArithmeticTyped ==
    ASSUME NEW a \in Word, NEW b \in Word, NEW carry \in {0, 1}
    PROVE  /\ AddWith(a, b, carry).res \in Word /\ SubWith(a, b, carry).res \in Word
           /\ ArithmeticFlags(AddWith(a, b, carry)) \in Nzcv
           /\ ArithmeticFlags(SubWith(a, b, carry)) \in Nzcv
<1>1. AddWith(a, b, carry).res \in Word /\ SubWith(a, b, carry).res \in Word
  BY AddExact, SubExact, Zenon
<1>2. \A r : Negative(r.res) \in BOOLEAN /\ (r.res = 0) \in BOOLEAN
  BY DEF Negative
<1>3. /\ AddWith(a, b, carry).c \in BOOLEAN /\ AddWith(a, b, carry).v \in BOOLEAN
      /\ SubWith(a, b, carry).c \in BOOLEAN /\ SubWith(a, b, carry).v \in BOOLEAN
  BY DEF AddWith, SubWith
<1>. QED  BY <1>1, <1>2, <1>3, Zenon DEF ArithmeticFlags, Nzcv

LEMMA LogicalFlagsTyped ==
    ASSUME NEW f \in Nzcv, NEW res, NEW carry \in BOOLEAN
    PROVE  LogicalFlags(f, res, carry) \in Nzcv
<1>1. Negative(res) \in BOOLEAN /\ (res = 0) \in BOOLEAN
  BY DEF Negative
<1>2. \A x, y, z \in BOOLEAN : [f EXCEPT !.n = x, !.z = y, !.c = z] \in Nzcv
  BY DEF Nzcv
<1>3. [f EXCEPT !.n = Negative(res), !.z = (res = 0), !.c = carry] \in Nzcv
  BY <1>1, <1>2, Zenon
<1>. QED  BY <1>3, Zenon DEF LogicalFlags

LEMMA DivMod ==
    ASSUME NEW a \in Nat, NEW q \in Nat \ {0}
    PROVE  /\ a \div q \in Nat /\ a % q \in 0 .. q - 1
           /\ a = q * (a \div q) + (a % q)
           /\ a \div q <= a
<1>1. a \div q \in Nat /\ a % q \in 0 .. q - 1 /\ a = q * (a \div q) + (a % q)
  OBVIOUS
<1>2. \A x, y \in Nat : y # 0 => x <= y * x
  OBVIOUS
<1>3. a \div q <= q * (a \div q)
  BY <1>1, <1>2
<1>. QED  BY <1>1, <1>3

\* A rotation keeps the number of bits, whatever the width.
LEMMA RotateTyped ==
    ASSUME NEW a \in Word, NEW q \in Nat \ {0}
    PROVE  (a \div q) + (a % q) * (Modulus \div q) \in Word
<1>. DEFINE h == a \div q
            l == a % q
            d == Modulus \div q
            k == Modulus % q
<1>1. a \in Nat /\ a < Modulus /\ Modulus \in Nat
  BY WordFacts DEF Word
<1>2. h \in Nat /\ l \in 0 .. q - 1 /\ a = q * h + l
  BY <1>1, DivMod
<1>3. d \in Nat /\ k \in 0 .. q - 1 /\ Modulus = q * d + k
  BY <1>1, DivMod
<1>. HIDE DEF h, l, d, k
<1>4. l * d \in Nat /\ l * d <= (q - 1) * d /\ (q - 1) * d = q * d - d /\ q * d \in Nat
  <2>1. q - 1 - l \in Nat /\ l \in Nat /\ q - 1 = l + (q - 1 - l)
    BY <1>2
  <2>2. (q - 1 - l) * d \in Nat /\ l * d \in Nat /\ q * d \in Nat
    BY <1>3, <2>1
  <2>3. (l + (q - 1 - l)) * d = l * d + (q - 1 - l) * d
    BY <1>3, <2>1
  <2>4. (q - 1) * d = q * d - d
    BY <1>3
  <2>. QED  BY <2>1, <2>2, <2>3, <2>4
<1>5. h <= d
  <2>. SUFFICES ASSUME d + 1 <= h PROVE FALSE
    BY <1>2, <1>3
  <2>1. q * (d + 1) <= q * h
    <3>1. h - (d + 1) \in Nat
      BY <1>2, <1>3
    <3>2. q * (h - (d + 1)) \in Nat /\ q * (h - (d + 1)) = q * h - q * (d + 1)
      BY <1>2, <1>3, <3>1
    <3>3. q * h \in Nat /\ q * (d + 1) \in Nat
      BY <1>2, <1>3
    <3>. QED  BY <3>2, <3>3
  <2>2. q * (d + 1) = q * d + q
    BY <1>3
  <2>3. q * h \in Nat /\ q * d \in Nat
    BY <1>2, <1>3
  <2>. QED  BY <1>1, <1>2, <1>3, <2>1, <2>2, <2>3
<1>6. h + l * d < Modulus
  <2>1. CASE h < d
    BY <1>1, <1>2, <1>3, <1>4, <2>1
  <2>2. CASE h = d
    <3>1. q * d <= a /\ q * d = q * h
      BY <1>2, <1>4, <2>2
    <3>. QED  BY <1>1, <1>2, <1>3, <1>4, <2>2, <3>1
  <2>. QED  BY <1>2, <1>3, <1>5, <2>1, <2>2
<1>. QED  BY <1>1, <1>2, <1>4, <1>6 DEF Word, h, l, d

LEMMA ShiftTyped ==
    ASSUME NEW type \in {"LSL", "LSR", "ASR", "ROR"}, NEW a \in Word, NEW amount \in Nat,
           NEW carry \in BOOLEAN
    PROVE  /\ ShiftValue(type, a, amount, carry).value \in Word
           /\ ShiftValue(type, a, amount, carry).carry \in BOOLEAN
<1>. DEFINE p == 2 ^ amount
            q == IF amount = 0 THEN 2 ELSE p
            res == (a \div q) + (a % q) * (Modulus \div q)
<1>1. p \in Nat \ {0} /\ q \in Nat \ {0}
  BY PowerIsNat
<1>2. a \in Nat /\ Signed(a) \in Int /\ Modulus - 1 \in Word /\ 0 \in Word
  BY WordFacts DEF Word, Signed
<1>3. \A x, w : Negative(x) \in BOOLEAN /\ BitAt(x, w) \in BOOLEAN
  BY DEF Negative, BitAt
<1>4. CASE amount = 0 /\ type # "ROR"
  BY <1>2, <1>3, <1>4 DEF ShiftValue
<1>5. CASE type = "ROR"
  <2>1. res \in Word
    <3>. HIDE DEF q
    <3>. QED  BY <1>1, RotateTyped
  <2>2. ShiftValue(type, a, amount, carry) = [value |-> res, carry |-> Negative(res)]
    BY <1>5 DEF ShiftValue
  <2>. HIDE DEF res
  <2>. QED  BY <1>3, <2>1, <2>2
<1>6. CASE amount > 0 /\ type = "LSL"
  <2>1. ShiftValue(type, a, amount, carry) = [value |-> Wrap(a * p), carry |-> BitAt(a * p, Modulus)]
    BY <1>6 DEF ShiftValue
  <2>. HIDE DEF p
  <2>2. Wrap(a * p) \in Word
    <3>1. a * p \in Int
      BY <1>1, <1>2
    <3>. QED  BY <3>1, WrapIsWord
  <2>. QED  BY <1>3, <2>1, <2>2
<1>7. CASE amount > 0 /\ type = "LSR"
  <2>1. ShiftValue(type, a, amount, carry) = [value |-> a \div p, carry |-> BitAt(a, p \div 2)]
    BY <1>7 DEF ShiftValue
  <2>. HIDE DEF p
  <2>2. a \div p \in Word
    <3>1. a \div p \in Nat /\ a \div p <= a
      BY <1>1, <1>2, DivMod
    <3>. QED  BY <1>2, <3>1, WordFacts DEF Word
  <2>. QED  BY <1>3, <2>1, <2>2
<1>8. CASE amount > 0 /\ type = "ASR"
  <2>1. ShiftValue(type, a, amount, carry)
            = [value |-> Wrap(Signed(a) \div p), carry |-> BitAt(a, p \div 2)]
    BY <1>8 DEF ShiftValue
  <2>. HIDE DEF p
  <2>2. Wrap(Signed(a) \div p) \in Word
    <3>1. Signed(a) \div p \in Int
      BY <1>1, <1>2
    <3>. QED  BY <3>1, WrapIsWord
  <2>. QED  BY <1>3, <2>1, <2>2
<1>. QED  BY <1>4, <1>5, <1>6, <1>7, <1>8

LEMMA ShiftCarryIrrelevant ==
    ASSUME NEW type \in {"LSL", "LSR", "ASR", "ROR"}, NEW a, NEW amount \in Nat,
           NEW c, NEW d
    PROVE  ShiftValue(type, a, amount, c).value = ShiftValue(type, a, amount, d).value
<1>1. CASE amount = 0
  BY <1>1 DEF ShiftValue
<1>2. CASE amount > 0
  BY <1>2 DEF ShiftValue
<1>. QED  BY <1>1, <1>2

-----------------------------------------------------------------------------
(* Machine states *)

Faults == {NoFault, "translation", "alignment"}

MachineState ==
    [regs : [Register -> Word], f : Nzcv, t : BOOLEAN, mem : Contents,
     cp15 : [SystemRegister -> Word], fault : Faults, far : Word]

LEMMA SetTyped ==
    ASSUME NEW s \in MachineState, NEW r \in Register, NEW w \in Word
    PROVE  /\ Set(s, r, w) \in MachineState
           /\ Set(s, r, w).regs = [s.regs EXCEPT ![r] = w]
           /\ Set(s, r, w).mem = s.mem /\ Set(s, r, w).fault = s.fault
<1>1. [s.regs EXCEPT ![r] = w] \in [Register -> Word]
  BY DEF MachineState
<1>2. \A x \in [Register -> Word] :
          /\ [s EXCEPT !.regs = x] \in MachineState
          /\ [s EXCEPT !.regs = x].regs = x
          /\ [s EXCEPT !.regs = x].mem = s.mem /\ [s EXCEPT !.regs = x].fault = s.fault
  BY DEF MachineState
<1>. DEFINE x == [s.regs EXCEPT ![r] = w]
<1>3. Set(s, r, w) = [s EXCEPT !.regs = x]
  BY DEF Set
<1>4. x \in [Register -> Word]
  BY <1>1
<1>. HIDE DEF x
<1>5. /\ Set(s, r, w) \in MachineState /\ Set(s, r, w).regs = x
      /\ Set(s, r, w).mem = s.mem /\ Set(s, r, w).fault = s.fault
  BY <1>2, <1>3, <1>4
<1>. QED  BY <1>5 DEF x

LEMMA FaultedTyped ==
    ASSUME NEW s \in MachineState, NEW kind \in Faults, NEW a \in Word
    PROVE  /\ Faulted(s, kind, a) \in MachineState
           /\ Faulted(s, kind, a).regs = s.regs /\ Faulted(s, kind, a).mem = s.mem
           /\ Faulted(s, kind, a).fault = kind
  BY DEF MachineState, Faulted

LEMMA FlagsTyped ==
    ASSUME NEW s \in MachineState, NEW g \in Nzcv
    PROVE  /\ [s EXCEPT !.f = g] \in MachineState
           /\ [s EXCEPT !.f = g].fault = s.fault
  BY DEF MachineState

LEMMA MemTyped ==
    ASSUME NEW s \in MachineState, NEW m \in Contents
    PROVE  /\ [s EXCEPT !.mem = m] \in MachineState
           /\ [s EXCEPT !.mem = m].regs = s.regs /\ [s EXCEPT !.mem = m].mem = m
           /\ [s EXCEPT !.mem = m].fault = s.fault
  BY DEF MachineState

LEMMA RegsTyped ==
    ASSUME NEW s \in MachineState, NEW x \in [Register -> Word]
    PROVE  /\ [s EXCEPT !.regs = x] \in MachineState
           /\ [s EXCEPT !.regs = x].regs = x /\ [s EXCEPT !.regs = x].mem = s.mem
           /\ [s EXCEPT !.regs = x].fault = s.fault
  BY DEF MachineState

LEMMA SystemTyped ==
    ASSUME NEW s \in MachineState, NEW c \in [SystemRegister -> Word]
    PROVE  [s EXCEPT !.cp15 = c] \in MachineState /\ [s EXCEPT !.cp15 = c].fault = s.fault
  BY DEF MachineState

LEMMA ExchangeTyped ==
    ASSUME NEW s \in MachineState, NEW target \in Word
    PROVE  /\ Exchange(s, target) \in MachineState
           /\ Exchange(s, target).regs = [s.regs EXCEPT ![PC] = target - (target % 2)]
           /\ Exchange(s, target).mem = s.mem /\ Exchange(s, target).fault = s.fault
<1>1. target - (target % 2) \in Word
  BY WordFacts DEF Word
<1>. DEFINE x == [s.regs EXCEPT ![PC] = target - (target % 2)]
<1>2. x \in [Register -> Word]
  BY <1>1 DEF MachineState, PC, Register
<1>. DEFINE b == target % 2 = 1
<1>3. b \in BOOLEAN
  OBVIOUS
<1>4. \A c \in BOOLEAN, y \in [Register -> Word] :
          /\ [s EXCEPT !.t = c, !.regs = y] \in MachineState
          /\ [s EXCEPT !.t = c, !.regs = y].regs = y
          /\ [s EXCEPT !.t = c, !.regs = y].mem = s.mem
          /\ [s EXCEPT !.t = c, !.regs = y].fault = s.fault
  BY DEF MachineState
<1>5. Exchange(s, target) = [s EXCEPT !.t = b, !.regs = x]
  BY Zenon DEF Exchange
<1>. HIDE DEF x, b
<1>6. /\ [s EXCEPT !.t = b, !.regs = x] \in MachineState
      /\ [s EXCEPT !.t = b, !.regs = x].regs = x
      /\ [s EXCEPT !.t = b, !.regs = x].mem = s.mem
      /\ [s EXCEPT !.t = b, !.regs = x].fault = s.fault
  BY <1>2, <1>3, <1>4, Zenon
<1>7. /\ Exchange(s, target) \in MachineState /\ Exchange(s, target).regs = x
      /\ Exchange(s, target).mem = s.mem /\ Exchange(s, target).fault = s.fault
  BY <1>5, <1>6, Zenon
<1>. QED  BY <1>7 DEF x

LEMMA StateFields ==
    ASSUME NEW s \in MachineState
    PROVE  /\ s.regs \in [Register -> Word] /\ s.f \in Nzcv /\ s.mem \in Contents
           /\ s.cp15 \in [SystemRegister -> Word] /\ s.fault \in Faults /\ s.far \in Word
           /\ s.t \in BOOLEAN
           /\ \A r \in Register : s.regs[r] \in Word
           /\ s.f.n \in BOOLEAN /\ s.f.z \in BOOLEAN /\ s.f.c \in BOOLEAN /\ s.f.v \in BOOLEAN
<1>1. /\ s.regs \in [Register -> Word] /\ s.f \in Nzcv /\ s.mem \in Contents
      /\ s.cp15 \in [SystemRegister -> Word] /\ s.fault \in Faults /\ s.far \in Word
      /\ s.t \in BOOLEAN
  BY Zenon DEF MachineState
<1>2. s.f.n \in BOOLEAN /\ s.f.z \in BOOLEAN /\ s.f.c \in BOOLEAN /\ s.f.v \in BOOLEAN
  BY <1>1, Zenon DEF Nzcv
<1>. QED  BY <1>1, <1>2

LEMMA ArmFields ==
    ASSUME NEW e \in Arm
    PROVE  /\ e.cond \in 0 .. 15 /\ e.top \in 0 .. 7 /\ e.op \in 0 .. 15 /\ e.s \in 0 .. 1
           /\ e.rn \in Register /\ e.rd \in Register /\ e.rm \in Register
           /\ e.rs \in 0 .. 15 /\ e.mid \in 0 .. 15
  BY DEF Arm, Nibble, Register

LEMMA SmallIsWord ==
    ASSUME NEW n \in Nat, n <= 255
    PROVE  n \in Word
  BY WordFacts DEF Word

LEMMA BitTyped == \A b : Bit(b) \in {0, 1}
  BY DEF Bit

LEMMA ShiftedTyped ==
    ASSUME NEW e \in Arm, NEW s \in MachineState
    PROVE  ShiftedRegister(e, s).value \in Word /\ ShiftedRegister(e, s).carry \in BOOLEAN
<1>1. Shifts[(e.mid % 8) \div 2 + 1] \in {"LSL", "LSR", "ASR", "ROR"}
  <2>1. (e.mid % 8) \div 2 + 1 \in 1 .. 4
    BY ArmFields
  <2>2. \A k \in 1 .. 4 : Shifts[k] \in {"LSL", "LSR", "ASR", "ROR"}
    BY DEF Shifts
  <2>. QED  BY <2>1, <2>2
<1>2. s.regs[e.rm] \in Word /\ s.f.c \in BOOLEAN
  BY ArmFields, StateFields
<1>3. 2 * e.rs + Bit(B7(e)) \in Nat
  BY ArmFields, BitTyped
<1>. QED  BY <1>1, <1>2, <1>3, ShiftTyped DEF ShiftedRegister

LEMMA OperandTyped ==
    ASSUME NEW e \in Arm, NEW s \in MachineState
    PROVE  Operand2(e, s).value \in Word /\ Operand2(e, s).carry \in BOOLEAN
<1>. DEFINE imm == Wrap(16 * e.mid + e.rm)
<1>1. imm \in Word
  <2>1. 16 * e.mid + e.rm \in Int
    BY ArmFields DEF Register
  <2>. QED  BY <2>1, WrapIsWord
<1>2. s.f.c \in BOOLEAN
  BY StateFields
<1>3. /\ ShiftValue("ROR", imm, 2 * e.rs, s.f.c).value \in Word
      /\ ShiftValue("ROR", imm, 2 * e.rs, s.f.c).carry \in BOOLEAN
  <2>1. 2 * e.rs \in Nat
    BY ArmFields
  <2>. HIDE DEF imm
  <2>. QED  BY <1>1, <1>2, <2>1, ShiftTyped
<1>4. CASE e.top = 1 /\ e.rs = 0
  <2>1. Operand2(e, s) = [value |-> imm, carry |-> s.f.c]
    BY <1>4 DEF Operand2
  <2>. HIDE DEF imm
  <2>. QED  BY <1>1, <1>2, <2>1
<1>5. CASE e.top = 1 /\ e.rs # 0
  <2>1. Operand2(e, s) = ShiftValue("ROR", imm, 2 * e.rs, s.f.c)
    BY <1>5 DEF Operand2
  <2>. HIDE DEF imm
  <2>. QED  BY <1>3, <2>1
<1>6. CASE e.top # 1
  <2>1. Operand2(e, s) = ShiftedRegister(e, s)
    BY <1>6 DEF Operand2
  <2>. QED  BY <2>1, ShiftedTyped
<1>. QED  BY <1>4, <1>5, <1>6

LEMMA DataTyped ==
    ASSUME NEW e \in Arm, NEW s \in MachineState, IsData(e)
    PROVE  Data(e, s) \in MachineState /\ Data(e, s).fault = s.fault
<1>. DEFINE b == Operand2(e, s)
            a == s.regs[e.rn]
            logical == LogicalResult(e.op, a, b.value)
            arithmetic == ArithmeticResult(e.op, a, b.value, s.f.c)
            result == IF e.op \in Logical THEN logical ELSE arithmetic.res
            flags == IF e.op \in Logical THEN LogicalFlags(s.f, logical, b.carry)
                                         ELSE ArithmeticFlags(arithmetic)
            written == IF e.op \in Tests THEN s ELSE Set(s, e.rd, result)
<1>1. a \in Word /\ b.value \in Word /\ b.carry \in BOOLEAN /\ Bit(s.f.c) \in {0, 1}
      /\ e.rd \in Register /\ e.op \in 0 .. 15 /\ e.op # 7 /\ s.f \in Nzcv
  BY ArmFields, StateFields, OperandTyped, BitTyped DEF IsData
<1>. HIDE DEF a, b
<1>2. e.op \in Logical => logical \in Word
  <2>1. \A pairs : Bitwise(pairs, a, b.value) \in Word
    BY BitwiseTyped
  <2>2. Modulus - 1 - b.value \in Word
    BY <1>1, WordFacts DEF Word
  <2>. QED  BY <1>1, <2>1, <2>2 DEF LogicalResult, Logical
<1>3. e.op \notin Logical => arithmetic.res \in Word /\ ArithmeticFlags(arithmetic) \in Nzcv
  <2>1. /\ 0 \in {0, 1} /\ 1 \in {0, 1}
        /\ \A x, y \in Word, c \in {0, 1} :
              /\ AddWith(x, y, c).res \in Word /\ SubWith(x, y, c).res \in Word
              /\ ArithmeticFlags(AddWith(x, y, c)) \in Nzcv
              /\ ArithmeticFlags(SubWith(x, y, c)) \in Nzcv
    BY ArithmeticTyped
  <2>2. e.op \notin Logical => e.op \in {2, 3, 4, 5, 6, 10, 11}
    BY <1>1 DEF Logical
  <2>3. e.op \in {2, 10} => arithmetic = SubWith(a, b.value, 1)
    BY DEF ArithmeticResult
  <2>4. e.op = 3 => arithmetic = SubWith(b.value, a, 1)
    BY DEF ArithmeticResult
  <2>5. e.op \in {4, 11} => arithmetic = AddWith(a, b.value, 0)
    BY DEF ArithmeticResult
  <2>6. e.op = 5 => arithmetic = AddWith(a, b.value, Bit(s.f.c))
    BY DEF ArithmeticResult
  <2>7. e.op = 6 => arithmetic = SubWith(a, b.value, Bit(s.f.c))
    BY DEF ArithmeticResult
  <2>. HIDE DEF arithmetic
  <2>. QED  BY <1>1, <2>1, <2>2, <2>3, <2>4, <2>5, <2>6, <2>7
<1>. HIDE DEF logical, arithmetic
<1>4. result \in Word
  BY <1>2, <1>3
<1>5. flags \in Nzcv
  BY <1>1, <1>3, LogicalFlagsTyped
<1>. HIDE DEF result, flags
<1>6. written \in MachineState /\ written.fault = s.fault
  <2>1. Set(s, e.rd, result) \in MachineState /\ Set(s, e.rd, result).fault = s.fault
    BY <1>1, <1>4, SetTyped
  <2>. QED  BY <2>1
<1>7. Data(e, s) = IF e.s = 1 THEN [written EXCEPT !.f = flags] ELSE written
  BY DEF Data, written, flags, result, arithmetic, logical, a, b
<1>. HIDE DEF written
<1>8. [written EXCEPT !.f = flags] \in MachineState /\ [written EXCEPT !.f = flags].fault = s.fault
  BY <1>5, <1>6, FlagsTyped
<1>. QED  BY <1>6, <1>7, <1>8

LEMMA ClzTyped ==
    ASSUME NEW e \in Arm, NEW s \in MachineState
    PROVE  Clz(e, s) \in MachineState /\ Clz(e, s).fault = s.fault
<1>. DEFINE w == s.regs[e.rm]
            zeros == {k \in 0 .. WordBits - 1 : w < 2 ^ k}
<1>1. WordBits \in Nat /\ WordBits < Modulus /\ Modulus \in Nat
  BY WordFacts
<1>2. /\ IsFiniteSet(0 .. WordBits - 1)
      /\ Cardinality(0 .. WordBits - 1) = WordBits
  <2>1. 0 \in Int /\ WordBits - 1 \in Int
    BY <1>1
  <2>2. /\ IsFiniteSet(0 .. WordBits - 1)
        /\ Cardinality(0 .. WordBits - 1)
               = IF 0 > WordBits - 1 THEN 0 ELSE WordBits - 1 - 0 + 1
    BY <2>1, FS_Interval
  <2>. QED  BY <1>1, <2>2
<1>3. zeros \in SUBSET (0 .. WordBits - 1)
  OBVIOUS
<1>. HIDE DEF zeros
<1>4. IsFiniteSet(zeros) /\ Cardinality(zeros) <= WordBits
  BY <1>2, <1>3, FS_Subset
<1>5. Cardinality(zeros) \in Nat
  BY <1>4, FS_CardinalityType
<1>6. LeadingZeros(w) \in Word
  BY <1>1, <1>4, <1>5 DEF LeadingZeros, zeros, Word
<1>. HIDE DEF w
<1>7. e.rd \in Register
  BY ArmFields
<1>8. Set(s, e.rd, LeadingZeros(w)) \in MachineState /\ Set(s, e.rd, LeadingZeros(w)).fault = s.fault
  BY <1>6, <1>7, SetTyped
<1>. QED  BY <1>8 DEF Clz, w

LEMMA CpsrTyped ==
    ASSUME NEW f
    PROVE  FlagsWord(f) + UserStatus \in Word
<1>. DEFINE n == 8 * Bit(f.n) + 4 * Bit(f.z) + 2 * Bit(f.c) + Bit(f.v)
            q == Modulus \div 16
<1>1. n \in 0 .. 15
  <2>1. Bit(f.n) \in {0, 1} /\ Bit(f.z) \in {0, 1} /\ Bit(f.c) \in {0, 1} /\ Bit(f.v) \in {0, 1}
    BY BitTyped
  <2>. QED  BY <2>1
<1>2. Modulus \in Nat /\ Modulus >= 256
  BY WordFacts
<1>3. q \in Nat /\ q > 0 /\ 16 * q <= Modulus
  BY <1>2
<1>. HIDE DEF n, q
<1>4. n * q \in Nat /\ n * q <= 15 * q
  <2>1. (15 - n) * q \in Nat /\ 15 - n \in Nat /\ n * q \in Nat
    BY <1>1, <1>3
  <2>2. 15 * q = n * q + (15 - n) * q
    BY <1>1, <1>3
  <2>. QED  BY <1>3, <2>1, <2>2
<1>5. UserStatus \in Nat /\ UserStatus < q
  BY <1>2, UserStatusAssumption DEF q
<1>6. n * q + UserStatus \in Word
  BY <1>2, <1>3, <1>4, <1>5 DEF Word
<1>. QED  BY <1>6 DEF FlagsWord, n, q

LEMMA StatusTyped ==
    ASSUME NEW e \in Arm, NEW s \in MachineState
    PROVE  /\ Mrs(e, s) \in MachineState /\ Mrs(e, s).fault = s.fault
           /\ Msr(e, s) \in MachineState /\ Msr(e, s).fault = s.fault
<1>1. Mrs(e, s) \in MachineState /\ Mrs(e, s).fault = s.fault
  <2>. DEFINE w == FlagsWord(s.f) + UserStatus
  <2>1. e.rd \in Register /\ w \in Word
    BY ArmFields, CpsrTyped
  <2>. HIDE DEF w
  <2>2. Set(s, e.rd, w) \in MachineState /\ Set(s, e.rd, w).fault = s.fault
    BY <2>1, SetTyped
  <2>. QED  BY <2>2 DEF Mrs, w
<1>2. WordFlags(s.regs[e.rm]) \in Nzcv
  <2>. DEFINE w == s.regs[e.rm]
              bits == w \div (Modulus \div 16)
  <2>1. /\ (bits >= 8) \in BOOLEAN /\ (bits % 8 >= 4) \in BOOLEAN
        /\ (bits % 4 >= 2) \in BOOLEAN /\ (bits % 2 = 1) \in BOOLEAN
    OBVIOUS
  <2>. QED  BY <2>1, Zenon DEF WordFlags, Nzcv
<1>3. Msr(e, s) \in MachineState /\ Msr(e, s).fault = s.fault
  BY <1>2, FlagsTyped DEF Msr
<1>. QED  BY <1>1, <1>3

LEMMA CoprocessorTyped ==
    ASSUME NEW e \in Arm, NEW s \in MachineState
    PROVE  Coprocessor(e, s) \in MachineState /\ Coprocessor(e, s).fault = s.fault
<1>. DEFINE mmu == IsMmuRegister(e)
            value == s.regs[e.rd]
            k == IF mmu THEN e.rn ELSE e.rm
            bank == [i \in SystemRegister |->
                        IF i = e.rm \/ (mmu /\ i = e.rn) THEN value ELSE s.cp15[i]]
<1>1. value \in Word /\ e.rd \in Register /\ k \in SystemRegister
      /\ s.cp15 \in [SystemRegister -> Word]
  BY ArmFields, StateFields DEF Register, SystemRegister
<1>2. bank \in [SystemRegister -> Word]
  <2>. HIDE DEF mmu, value
  <2>. QED  BY <1>1
<1>3. s.cp15[k] \in Word
  BY <1>1
<1>4. Coprocessor(e, s) = IF e.s = 1 THEN Set(s, e.rd, s.cp15[k]) ELSE [s EXCEPT !.cp15 = bank]
  BY Zenon DEF Coprocessor
<1>. DEFINE w == s.cp15[k]
<1>. HIDE DEF mmu, value, k, bank
<1>5. Set(s, e.rd, w) \in MachineState /\ Set(s, e.rd, w).fault = s.fault
  <2>1. w \in Word /\ e.rd \in Register
    BY <1>1, <1>3
  <2>. HIDE DEF w
  <2>. QED  BY <2>1, SetTyped
<1>6. [s EXCEPT !.cp15 = bank] \in MachineState /\ [s EXCEPT !.cp15 = bank].fault = s.fault
  BY <1>2, SystemTyped
<1>. QED  BY <1>4, <1>5, <1>6

LEMMA BranchTyped ==
    ASSUME NEW e \in Arm, NEW s \in MachineState, NEW pc \in Word
    PROVE  Branch(e, s, pc) \in MachineState /\ Branch(e, s, pc).fault = s.fault
<1>. DEFINE n == (2 * (e.op % 8) + e.s) * 2 ^ 20 + e.rn * 2 ^ 16 + e.rd * 2 ^ 12
                     + e.rs * 2 ^ 8 + e.mid * 2 ^ 4 + e.rm
            linked == IF B24(e) THEN Set(s, LR, Wrap(pc + 4)) ELSE s
            target == Wrap(pc + 8 + 4 * SignExtend(n, 24))
<1>1. pc \in Nat
  BY WordFacts DEF Word
<1>2. n \in Int
  <2>1. /\ e.op % 8 \in Int /\ e.s \in Int /\ e.rn \in Int /\ e.rd \in Int
        /\ e.rs \in Int /\ e.mid \in Int /\ e.rm \in Int
    BY ArmFields DEF Register
  <2>2. \A x \in Int, k \in Nat : x * 2 ^ k \in Int
    BY PowerIsNat
  <2>3. 2 * (e.op % 8) + e.s \in Int
    BY <2>1
  <2>4. /\ (2 * (e.op % 8) + e.s) * 2 ^ 20 \in Int /\ e.rn * 2 ^ 16 \in Int
        /\ e.rd * 2 ^ 12 \in Int /\ e.rs * 2 ^ 8 \in Int /\ e.mid * 2 ^ 4 \in Int
    BY <2>1, <2>2, <2>3
  <2>. QED  BY <2>1, <2>4
<1>3. SignExtend(n, 24) \in Int
  <2>. HIDE DEF n
  <2>. QED  BY <1>2 DEF SignExtend
<1>4. Wrap(pc + 4) \in Word /\ target \in Word
  <2>. HIDE DEF n
  <2>1. pc + 4 \in Int /\ pc + 8 + 4 * SignExtend(n, 24) \in Int
    BY <1>1, <1>3
  <2>. QED  BY <2>1, WrapIsWord
<1>5. LR \in Register /\ PC \in Register
  BY DEF LR, PC, Register
<1>6. linked \in MachineState /\ linked.fault = s.fault
  BY <1>4, <1>5, SetTyped
<1>7. Branch(e, s, pc) = Set(linked, PC, target)
  BY DEF Branch
<1>. HIDE DEF n, linked, target
<1>8. Set(linked, PC, target) \in MachineState /\ Set(linked, PC, target).fault = linked.fault
  BY <1>4, <1>5, <1>6, SetTyped
<1>. QED  BY <1>6, <1>7, <1>8

-----------------------------------------------------------------------------
(* Loads and stores *)

LEMMA LoadTyped ==
    ASSUME NEW s \in MachineState, NEW pages, NEW pc \in Word, NEW a \in Word,
           NEW n \in 0 .. 4, NEW signed \in BOOLEAN, NEW rd \in Register
    PROVE  /\ Load(s, pages, pc, a, n, signed, rd) \in MachineState
           /\ Load(s, pages, pc, a, n, signed, rd).mem = s.mem
<1>. DEFINE v == Value(s.mem, a, n)
            top == Weight(n)
            extended == IF signed /\ 2 * v >= top THEN v + Modulus - top ELSE v
<1>1. "translation" \in Faults
  BY DEF Faults
<1>2. CASE Page(a) \notin pages \/ ~CanRead(a, n)
  <2>1. /\ Load(s, pages, pc, a, n, signed, rd)
               \in {Faulted(s, "translation", a), Faulted(s, "translation", pc)}
    BY <1>2 DEF Load
  <2>. QED  BY <1>1, <2>1, FaultedTyped
<1>3. CASE Page(a) \in pages /\ CanRead(a, n)
  <2>1. v \in 0 .. top - 1
    BY <1>3, StateFields, ValueTyped
  <2>2. top \in Nat \ {0} /\ top <= Modulus /\ Modulus \in Nat
    BY Weights, WordFacts
  <2>3. Load(s, pages, pc, a, n, signed, rd) = Set(s, rd, extended)
    BY <1>3 DEF Load
  <2>. HIDE DEF v, top
  <2>4. extended \in Word
    BY <2>1, <2>2 DEF Word
  <2>. HIDE DEF extended
  <2>5. Set(s, rd, extended) \in MachineState /\ Set(s, rd, extended).mem = s.mem
    BY <2>4, SetTyped
  <2>. QED  BY <2>3, <2>5
<1>. QED  BY <1>2, <1>3

LEMMA WriteBytesTyped ==
    ASSUME NEW m \in Contents, NEW a, NEW bytes \in Seq(Byte)
    PROVE  WriteBytes(m, a, bytes).mem \in Contents
<1>. DEFINE written == {i \in 0 .. Len(bytes) - 1 : CanRead(a, i + 1)}
<1>1. WriteBytes(m, a, bytes).mem
          = [x \in Mapped |-> IF x \in Writable /\ Wrap(x - a) \in written
                              THEN bytes[Wrap(x - a) + 1] ELSE m[x]]
  BY DEF WriteBytes
<1>2. \A i \in written : bytes[i + 1] \in Byte
  OBVIOUS
<1>. HIDE DEF written
<1>3. \A x \in Mapped : m[x] \in Byte
  BY DEF Contents
<1>. QED  BY <1>1, <1>2, <1>3 DEF Contents

LEMMA StoreTyped ==
    ASSUME NEW s \in MachineState, NEW pages, NEW pc \in Word, NEW a \in Word,
           NEW n \in 0 .. 4, NEW w \in Word
    PROVE  /\ Store(s, pages, pc, a, n, w) \in MachineState
           /\ Store(s, pages, pc, a, n, w).regs = s.regs
<1>. DEFINE written == WriteBytes(s.mem, a, Bytes(w, n))
            moved == [s EXCEPT !.mem = written.mem]
<1>1. "translation" \in Faults
  BY DEF Faults
<1>2. written.mem \in Contents
  <2>1. s.mem \in Contents /\ n \in Nat
    BY StateFields
  <2>2. Bytes(w, n) \in Seq(Byte)
    BY <2>1, BytesTyped
  <2>. QED  BY <2>1, <2>2, WriteBytesTyped
<1>3. Store(s, pages, pc, a, n, w)
          \in {Faulted(s, "translation", a), Faulted(moved, "translation", pc), moved}
  BY DEF Store
<1>. HIDE DEF written
<1>4. moved \in MachineState /\ moved.regs = s.regs
  BY <1>2, MemTyped
<1>. HIDE DEF moved
<1>. QED  BY <1>1, <1>3, <1>4, FaultedTyped

LEMMA WriteBackTyped ==
    ASSUME NEW s \in MachineState, NEW e \in Arm, NEW effective \in Word
    PROVE  WriteBack(s, e, effective) \in MachineState
  BY ArmFields, SetTyped DEF WriteBack

LEMMA EffectiveTyped ==
    ASSUME NEW e \in Arm, NEW s \in MachineState, NEW offset \in Int
    PROVE  Effective(e, s, offset) \in Word
<1>1. s.regs[e.rn] \in Int
  BY ArmFields, StateFields, WordFacts DEF Word
<1>2. s.regs[e.rn] + offset \in Int /\ s.regs[e.rn] - offset \in Int
  BY <1>1
<1>. QED  BY <1>2, WrapIsWord DEF Effective

\* The offset of a single transfer, and the address that the transfers of one
\* register use.
SingleOffset(e, s) ==
    IF e.top = 2 THEN 256 * e.rs + 16 * e.mid + e.rm ELSE ShiftedRegister(e, s).value
HalfwordOffset(e, s) == IF B22(e) THEN 16 * e.rs + e.rm ELSE s.regs[e.rm]
Addressed(e, s, effective) == IF B24(e) THEN effective ELSE s.regs[e.rn]

LEMMA OffsetsTyped ==
    ASSUME NEW e \in Arm, NEW s \in MachineState
    PROVE  /\ SingleOffset(e, s) \in Int /\ HalfwordOffset(e, s) \in Int
           /\ Effective(e, s, SingleOffset(e, s)) \in Word
           /\ Effective(e, s, HalfwordOffset(e, s)) \in Word
           /\ Addressed(e, s, Effective(e, s, SingleOffset(e, s))) \in Word
           /\ Addressed(e, s, Effective(e, s, HalfwordOffset(e, s))) \in Word
<1>1. SingleOffset(e, s) \in Int
  <2>1. ShiftedRegister(e, s).value \in Int
    BY ShiftedTyped, WordFacts DEF Word
  <2>2. e.rs \in Int /\ e.mid \in Int /\ e.rm \in Int
    BY ArmFields DEF Register
  <2>. QED  BY <2>1, <2>2 DEF SingleOffset
<1>2. HalfwordOffset(e, s) \in Int
  <2>1. e.rs \in Int /\ e.rm \in Int
    BY ArmFields DEF Register
  <2>2. s.regs[e.rm] \in Word
    BY ArmFields, StateFields
  <2>3. s.regs[e.rm] \in Int
    BY <2>2, WordFacts DEF Word
  <2>. QED  BY <2>1, <2>3 DEF HalfwordOffset
<1>3. s.regs[e.rn] \in Word
  BY ArmFields, StateFields
<1>4. /\ Effective(e, s, SingleOffset(e, s)) \in Word
      /\ Effective(e, s, HalfwordOffset(e, s)) \in Word
  BY <1>1, <1>2, EffectiveTyped
<1>. QED  BY <1>1, <1>2, <1>3, <1>4 DEF Addressed

LEMMA SingleIs ==
    ASSUME NEW e, NEW s, NEW pages, NEW pc
    PROVE  LET effective == Effective(e, s, SingleOffset(e, s))
               a == Addressed(e, s, effective)
               n == IF B22(e) THEN 1 ELSE 4
           IN  Single(e, s, pages, pc)
                 = IF a % n # 0 THEN Faulted(s, "alignment", pc)
                   ELSE WriteBack(IF e.s = 1
                                  THEN Load(s, pages, pc, a, n, FALSE, e.rd)
                                  ELSE Store(s, pages, pc, a, n, s.regs[e.rd]),
                                  e, effective)
  BY Zenon DEF Single, SingleOffset, Addressed

LEMMA HalfwordIs ==
    ASSUME NEW e, NEW s, NEW pages, NEW pc
    PROVE  LET effective == Effective(e, s, HalfwordOffset(e, s))
               a == Addressed(e, s, effective)
               n == IF B5(e) THEN 2 ELSE 1
           IN  Halfword(e, s, pages, pc)
                 = IF a % n # 0 THEN Faulted(s, "alignment", pc)
                   ELSE IF e.s = 0 /\ (B6(e) \/ ~B5(e)) THEN s
                   ELSE WriteBack(IF e.s = 1
                                  THEN Load(s, pages, pc, a, n, B6(e), e.rd)
                                  ELSE Store(s, pages, pc, a, n, s.regs[e.rd]),
                                  e, effective)
  BY Zenon DEF Halfword, HalfwordOffset, Addressed

\* Both are a transfer of n bytes at a, and what then is written to the base.
LEMMA TransferTyped ==
    ASSUME NEW e \in Arm, NEW s \in MachineState, NEW pages, NEW pc \in Word,
           NEW effective \in Word, NEW a \in Word, NEW n \in 0 .. 4, NEW signed \in BOOLEAN
    PROVE  /\ Faulted(s, "alignment", pc) \in MachineState
           /\ WriteBack(IF e.s = 1 THEN Load(s, pages, pc, a, n, signed, e.rd)
                                   ELSE Store(s, pages, pc, a, n, s.regs[e.rd]),
                        e, effective) \in MachineState
<1>1. Faulted(s, "alignment", pc) \in MachineState
  BY FaultedTyped DEF Faults
<1>2. e.rd \in Register /\ s.regs[e.rd] \in Word
  BY ArmFields, StateFields
<1>3. Load(s, pages, pc, a, n, signed, e.rd) \in MachineState
  BY <1>2, LoadTyped
<1>4. Store(s, pages, pc, a, n, s.regs[e.rd]) \in MachineState
  BY <1>2, StoreTyped
<1>5. (IF e.s = 1 THEN Load(s, pages, pc, a, n, signed, e.rd)
                  ELSE Store(s, pages, pc, a, n, s.regs[e.rd])) \in MachineState
  BY <1>3, <1>4
<1>. QED  BY <1>1, <1>5, WriteBackTyped

LEMMA SingleTyped ==
    ASSUME NEW e \in Arm, NEW s \in MachineState, NEW pages, NEW pc \in Word
    PROVE  Single(e, s, pages, pc) \in MachineState
<1>. DEFINE effective == Effective(e, s, SingleOffset(e, s))
            a == Addressed(e, s, effective)
            n == IF B22(e) THEN 1 ELSE 4
<1>1. effective \in Word /\ a \in Word
  BY OffsetsTyped
<1>2. n \in 0 .. 4 /\ FALSE \in BOOLEAN
  OBVIOUS
<1>3. Single(e, s, pages, pc)
          = IF a % n # 0 THEN Faulted(s, "alignment", pc)
            ELSE WriteBack(IF e.s = 1
                           THEN Load(s, pages, pc, a, n, FALSE, e.rd)
                           ELSE Store(s, pages, pc, a, n, s.regs[e.rd]),
                           e, effective)
  BY SingleIs
<1>. HIDE DEF effective, a, n
<1>4. /\ Faulted(s, "alignment", pc) \in MachineState
      /\ WriteBack(IF e.s = 1 THEN Load(s, pages, pc, a, n, FALSE, e.rd)
                              ELSE Store(s, pages, pc, a, n, s.regs[e.rd]),
                   e, effective) \in MachineState
  BY <1>1, <1>2, TransferTyped
<1>. QED  BY <1>3, <1>4

LEMMA HalfwordTyped ==
    ASSUME NEW e \in Arm, NEW s \in MachineState, NEW pages, NEW pc \in Word
    PROVE  Halfword(e, s, pages, pc) \in MachineState
<1>. DEFINE effective == Effective(e, s, HalfwordOffset(e, s))
            a == Addressed(e, s, effective)
            n == IF B5(e) THEN 2 ELSE 1
<1>1. effective \in Word /\ a \in Word
  BY OffsetsTyped
<1>2. n \in 0 .. 4
  OBVIOUS
<1>3. B6(e) \in BOOLEAN
  BY DEF B6
<1>4. Halfword(e, s, pages, pc)
          = IF a % n # 0 THEN Faulted(s, "alignment", pc)
            ELSE IF e.s = 0 /\ (B6(e) \/ ~B5(e)) THEN s
            ELSE WriteBack(IF e.s = 1
                           THEN Load(s, pages, pc, a, n, B6(e), e.rd)
                           ELSE Store(s, pages, pc, a, n, s.regs[e.rd]),
                           e, effective)
  BY HalfwordIs
<1>. HIDE DEF effective, a, n
<1>5. /\ Faulted(s, "alignment", pc) \in MachineState
      /\ WriteBack(IF e.s = 1 THEN Load(s, pages, pc, a, n, B6(e), e.rd)
                              ELSE Store(s, pages, pc, a, n, s.regs[e.rd]),
                   e, effective) \in MachineState
  BY <1>1, <1>2, <1>3, TransferTyped
<1>. QED  BY <1>4, <1>5

-----------------------------------------------------------------------------
(* Transfers of several registers *)

LEMMA ListFinite ==
    ASSUME NEW e
    PROVE  /\ RegisterList(e) \subseteq Register
           /\ Cardinality(RegisterList(e)) \in Nat
           /\ \A r : Cardinality({q \in RegisterList(e) : q < r}) \in Nat
<1>1. IsFiniteSet(Register)
  <2>. DEFINE fifteen == 15
  <2>1. fifteen \in Int
    OBVIOUS
  <2>2. IsFiniteSet(0 .. fifteen)
    <3>. HIDE DEF fifteen
    <3>. QED  BY <2>1, FS_Interval
  <2>. QED  BY <2>2 DEF Register
<1>2. RegisterList(e) \subseteq Register
  BY DEF RegisterList
<1>3. ASSUME NEW S, S \subseteq Register PROVE Cardinality(S) \in Nat
  BY <1>1, <1>3, FS_Subset, FS_CardinalityType
<1>. QED  BY <1>2, <1>3

LEMMA BlockAtTyped ==
    ASSUME NEW e \in Arm, NEW regs \in [Register -> Word], NEW r
    PROVE  /\ BlockFirst(e, regs) \in Int /\ BlockAt(e, regs, r) \in Word
           /\ BlockBase(e, regs) \in Word
<1>1. regs[e.rn] \in Int
  BY ArmFields, WordFacts DEF Word
<1>. DEFINE count == Cardinality(RegisterList(e))
            before == Cardinality({q \in RegisterList(e) : q < r})
<1>2. count \in Nat /\ before \in Nat
  BY ListFinite
<1>3. BlockFirst(e, regs) \in {regs[e.rn] + 4, regs[e.rn], regs[e.rn] - 4,
                               regs[e.rn] - 4 * (count - 1)}
  BY DEF BlockFirst
<1>4. BlockAt(e, regs, r) = Wrap(BlockFirst(e, regs) + 4 * before)
  BY DEF BlockAt
<1>5. BlockBase(e, regs) \in {Wrap(regs[e.rn] + 4 * count), Wrap(regs[e.rn] - 4 * count)}
  BY DEF BlockBase
<1>. HIDE DEF count, before
<1>6. BlockFirst(e, regs) \in Int
  BY <1>1, <1>2, <1>3
<1>7. /\ BlockFirst(e, regs) + 4 * before \in Int
      /\ regs[e.rn] + 4 * count \in Int /\ regs[e.rn] - 4 * count \in Int
  BY <1>1, <1>2, <1>6
<1>. QED  BY <1>4, <1>5, <1>6, <1>7, WrapIsWord

LEMMA BlockDoneReads ==
    ASSUME NEW e \in Arm, NEW regs \in [Register -> Word], NEW pages,
           NEW r \in BlockDone(e, regs, pages)
    PROVE  /\ r \in RegisterList(e) /\ r \in Register
           /\ r \notin BlockFailing(e, regs, pages)
           /\ BlockAt(e, regs, r) % 4 = 0
           /\ Page(BlockAt(e, regs, r)) \in pages
           /\ CanRead(BlockAt(e, regs, r), 4)
<1>1. r \in RegisterList(e) /\ \A q \in BlockFailing(e, regs, pages) : r < q
  BY DEF BlockDone
<1>2. r \in 0 .. 15
  BY <1>1, ListFinite DEF Register
<1>3. r \notin BlockFailing(e, regs, pages)
  BY <1>1, <1>2
<1>. QED  BY <1>1, <1>2, <1>3 DEF BlockFailing, Register

LEMMA BlockRegsTyped ==
    ASSUME NEW e \in Arm, NEW regs \in [Register -> Word], NEW pages, NEW mem \in Contents
    PROVE  BlockRegs(e, regs, pages, mem) \in [Register -> Word]
<1>1. ASSUME NEW r \in BlockDone(e, regs, pages)
      PROVE  Value(mem, BlockAt(e, regs, r), 4) \in Word
  <2>1. CanRead(BlockAt(e, regs, r), 4) /\ BlockAt(e, regs, r) \in Word
    BY BlockDoneReads, BlockAtTyped
  <2>2. Value(mem, BlockAt(e, regs, r), 4) \in 0 .. Weight(4) - 1
    BY <2>1, ValueTyped
  <2>. QED  BY <2>2, WordFacts DEF Word
<1>. QED  BY <1>1 DEF BlockRegs

LEMMA BlockMemTyped ==
    ASSUME NEW e \in Arm, NEW regs \in [Register -> Word], NEW pages, NEW mem \in Contents
    PROVE  BlockMem(e, regs, pages, mem) \in Contents
<1>. DEFINE value(r) == IF r = PC THEN Wrap(regs[PC] + 4) ELSE regs[r]
            covers(r, x) == Wrap(x - BlockAt(e, regs, r)) < 4
<1>1. ASSUME NEW r \in Register PROVE value(r) \in Word
  <2>1. regs[PC] \in Word /\ regs[r] \in Word
    BY DEF PC, Register
  <2>2. regs[PC] + 4 \in Int
    BY <2>1, WordFacts DEF Word
  <2>. QED  BY <2>1, <2>2, WrapIsWord
<1>2. ASSUME NEW r \in BlockDone(e, regs, pages), NEW x \in Mapped, covers(r, x)
      PROVE  Bytes(value(r), 4)[Wrap(x - BlockAt(e, regs, r)) + 1] \in Byte
  <2>1. value(r) \in Word
    BY <1>1, BlockDoneReads
  <2>2. x \in Int /\ BlockAt(e, regs, r) \in Int
    BY BlockAtTyped, WordFacts DEF Mapped, Word
  <2>3. Wrap(x - BlockAt(e, regs, r)) \in Nat
    BY <2>2, WrapIsWord, WordFacts DEF Word
  <2>4. Wrap(x - BlockAt(e, regs, r)) + 1 \in 1 .. 4
    BY <1>2, <2>3
  <2>5. Bytes(value(r), 4) \in Seq(Byte) /\ Len(Bytes(value(r), 4)) = 4
    <3>. HIDE DEF value
    <3>. QED  BY <2>1, BytesTyped
  <2>. HIDE DEF value
  <2>. QED  BY <2>4, <2>5
<1>3. \A x \in Mapped : mem[x] \in Byte
  BY DEF Contents
<1>. DEFINE done == BlockDone(e, regs, pages)
            chosen(x) == CHOOSE r \in done : covers(r, x)
<1>4. BlockMem(e, regs, pages, mem)
          = [x \in Mapped |->
                IF x \in Writable /\ \E r \in done : covers(r, x)
                THEN Bytes(value(chosen(x)), 4)[Wrap(x - BlockAt(e, regs, chosen(x))) + 1]
                ELSE mem[x]]
  BY Zenon DEF BlockMem
<1>5. ASSUME NEW x \in Mapped, \E r \in done : covers(r, x)
      PROVE  chosen(x) \in done /\ covers(chosen(x), x)
  <2>. HIDE DEF covers, done
  <2>. QED  BY <1>5
<1>. HIDE DEF covers, done, value, chosen
<1>6. \A x \in Mapped : (\E r \in done : covers(r, x)) =>
          Bytes(value(chosen(x)), 4)[Wrap(x - BlockAt(e, regs, chosen(x))) + 1] \in Byte
  BY <1>2, <1>5 DEF done
<1>. QED  BY <1>3, <1>4, <1>6 DEF Contents

LEMMA BlockTyped ==
    ASSUME NEW e \in Arm, NEW s \in MachineState, NEW pages, NEW pc \in Word
    PROVE  Block(e, s, pages, pc) \in MachineState
<1>. DEFINE failing == BlockFailing(e, s.regs, pages)
            stopped == BlockAt(e, s.regs, CHOOSE r \in failing : \A q \in failing : r <= q)
            moved == BlockMoved(e, s, pages)
            based == BlockBased(e, s, pages)
<1>1. s.regs \in [Register -> Word] /\ s.mem \in Contents
  BY StateFields
<1>2. stopped \in Word /\ BlockBase(e, s.regs) \in Word
  BY <1>1, BlockAtTyped
<1>3. moved \in MachineState
  <2>1. [s EXCEPT !.regs = BlockRegs(e, s.regs, pages, s.mem)] \in MachineState
    BY <1>1, BlockRegsTyped, RegsTyped
  <2>2. [s EXCEPT !.mem = BlockMem(e, s.regs, pages, s.mem)] \in MachineState
    BY <1>1, BlockMemTyped, MemTyped
  <2>. QED  BY <2>1, <2>2 DEF BlockMoved
<1>4. based \in MachineState
  <2>1. e.rn \in Register
    BY ArmFields
  <2>2. based \in {moved, Set(moved, e.rn, BlockBase(e, s.regs))}
    BY DEF BlockBased
  <2>. HIDE DEF moved, based
  <2>3. Set(moved, e.rn, BlockBase(e, s.regs)) \in MachineState
    BY <1>2, <1>3, <2>1, SetTyped
  <2>. QED  BY <1>3, <2>2, <2>3
<1>5. Block(e, s, pages, pc)
          \in {s, Faulted(moved, "alignment", pc), Faulted(moved, "translation", stopped),
               Faulted(moved, "translation", pc), Exchange(based, based.regs[PC]), based}
  BY DEF Block
<1>. HIDE DEF failing, stopped, moved, based
<1>6. based.regs[PC] \in Word
  BY <1>4, StateFields DEF PC, Register
<1>7. "alignment" \in Faults /\ "translation" \in Faults
  BY DEF Faults
<1>8. Exchange(based, based.regs[PC]) \in MachineState
  BY <1>4, <1>6, ExchangeTyped
<1>9. /\ Faulted(moved, "alignment", pc) \in MachineState
      /\ Faulted(moved, "translation", stopped) \in MachineState
      /\ Faulted(moved, "translation", pc) \in MachineState
  BY <1>2, <1>3, <1>7, FaultedTyped
<1>. QED  BY <1>4, <1>5, <1>8, <1>9

-----------------------------------------------------------------------------
(* Instructions *)

\* The handlers that Execute has, and the last of them takes data processing.
LEMMA Handlers ==
    ASSUME NEW e \in Arm
    PROVE  /\ Handler(e) \in {"wfi", "swi", "undefined", "clz", "mrs", "msr", "coprocessor",
                              "branch", "block", "single", "halfword", "data"}
           /\ Handler(e) = "data" => IsData(e)
<1>1. Handler(e) \notin {"bx", "multiply", "swap"}
  BY DeadHandlers
<1>2. Handler(e) \in {"wfi", "swi", "clz", "mrs", "msr", "coprocessor", "branch", "block",
                      "single", "halfword", "data", "bx", "multiply", "swap", "undefined"}
  BY DEF Handler
<1>3. Handler(e) = "data" => IsData(e)
  BY DEF Handler
<1>. QED  BY <1>1, <1>2, <1>3

Executed == {"clz", "mrs", "msr", "coprocessor", "branch", "block", "single", "halfword", "data"}
Transfers == {"block", "single", "halfword"}

LEMMA ExecuteArmTyped ==
    ASSUME NEW e \in Arm, NEW s \in MachineState, NEW pages, NEW pc \in Word,
           Handler(e) \in Executed
    PROVE  /\ ExecuteArm(e, s, pages, pc) \in MachineState
           /\ Handler(e) \notin Transfers => ExecuteArm(e, s, pages, pc).fault = s.fault
<1>1. CASE Handler(e) = "clz"
  <2>1. ExecuteArm(e, s, pages, pc) = Clz(e, s)
    BY <1>1 DEF ExecuteArm
  <2>. QED  BY <2>1, ClzTyped
<1>2. CASE Handler(e) = "mrs"
  <2>1. ExecuteArm(e, s, pages, pc) = Mrs(e, s)
    BY <1>2 DEF ExecuteArm
  <2>. QED  BY <2>1, StatusTyped
<1>3. CASE Handler(e) = "msr"
  <2>1. ExecuteArm(e, s, pages, pc) = Msr(e, s)
    BY <1>3 DEF ExecuteArm
  <2>. QED  BY <2>1, StatusTyped
<1>4. CASE Handler(e) = "coprocessor"
  <2>1. ExecuteArm(e, s, pages, pc) = Coprocessor(e, s)
    BY <1>4 DEF ExecuteArm
  <2>. QED  BY <2>1, CoprocessorTyped
<1>5. CASE Handler(e) = "branch"
  <2>1. ExecuteArm(e, s, pages, pc) = Branch(e, s, pc)
    BY <1>5 DEF ExecuteArm
  <2>. QED  BY <2>1, BranchTyped
<1>6. CASE Handler(e) = "data"
  <2>1. ExecuteArm(e, s, pages, pc) = Data(e, s)
    BY <1>6 DEF ExecuteArm
  <2>. QED  BY <1>6, <2>1, Handlers, DataTyped
<1>7. CASE Handler(e) \in Transfers
  <2>1. ExecuteArm(e, s, pages, pc)
            \in {Block(e, s, pages, pc), Single(e, s, pages, pc), Halfword(e, s, pages, pc)}
    BY <1>7 DEF ExecuteArm, Transfers
  <2>. QED  BY <1>7, <2>1, BlockTyped, SingleTyped, HalfwordTyped
<1>. QED  BY <1>1, <1>2, <1>3, <1>4, <1>5, <1>6, <1>7 DEF Executed, Transfers

-----------------------------------------------------------------------------
(* Thumb instructions *)

LEMMA ThumbFields ==
    ASSUME NEW t \in Thumb
    PROVE  /\ t.op \in 0 .. 31 /\ t.imm \in 0 .. 31 /\ t.rs \in 0 .. 7 /\ t.rd \in 0 .. 7
           /\ t.rs \in Register /\ t.rd \in Register
           /\ t.imm \div 4 \in Register /\ t.imm % 8 \in Register
           /\ t.rs + 8 * (t.imm % 2) \in Register
           /\ t.rd + 8 * ((t.imm \div 2) % 2) \in Register
<1>1. t.op \in 0 .. 31 /\ t.imm \in 0 .. 31 /\ t.rs \in 0 .. 7 /\ t.rd \in 0 .. 7
  BY DEF Thumb
<1>. QED  BY <1>1 DEF Register

LEMMA Imm8Typed ==
    ASSUME NEW t \in Thumb
    PROVE  Imm8(t) \in 0 .. 255 /\ Imm8(t) \in Word
<1>1. Imm8(t) \in 0 .. 255
  BY ThumbFields DEF Imm8
<1>. QED  BY <1>1, SmallIsWord

\* A register and the flags, as the arithmetic leaves them.
LEMMA SetFlagsTyped ==
    ASSUME NEW s \in MachineState, NEW r \in Register, NEW w \in Word, NEW g \in Nzcv
    PROVE  [Set(s, r, w) EXCEPT !.f = g] \in MachineState
<1>1. Set(s, r, w) \in MachineState
  BY SetTyped
<1>. QED  BY <1>1, FlagsTyped

LEMMA ThumbShiftTyped ==
    ASSUME NEW t \in Thumb, NEW s \in MachineState, t.op \in 0 .. 2
    PROVE  ThumbShift(t, s) \in MachineState
<1>. DEFINE r == ShiftValue(Shifts[t.op + 1], s.regs[t.rs], t.imm, s.f.c)
<1>1. Shifts[t.op + 1] \in {"LSL", "LSR", "ASR", "ROR"}
  <2>1. t.op + 1 \in 1 .. 3
    OBVIOUS
  <2>. QED  BY <2>1 DEF Shifts
<1>2. s.regs[t.rs] \in Word /\ t.imm \in Nat /\ s.f.c \in BOOLEAN
  BY StateFields, ThumbFields
<1>3. r.value \in Word /\ r.carry \in BOOLEAN
  BY <1>1, <1>2, ShiftTyped
<1>. HIDE DEF r
<1>4. LogicalFlags(s.f, r.value, r.carry) \in Nzcv
  BY <1>3, StateFields, LogicalFlagsTyped
<1>5. t.rd \in Register
  BY ThumbFields
<1>. QED  BY <1>3, <1>4, <1>5, SetFlagsTyped DEF ThumbShift, r

LEMMA ThumbAddSubTyped ==
    ASSUME NEW t \in Thumb, NEW s \in MachineState
    PROVE  ThumbAddSub(t, s) \in MachineState
<1>. DEFINE b == IF t.imm >= 16 THEN t.imm % 8 ELSE s.regs[t.imm % 8]
            sub == SubWith(s.regs[t.rs], b, 1)
            add == AddWith(s.regs[t.rs], b, 0)
            r == IF (t.imm \div 8) % 2 = 1 THEN sub ELSE add
<1>1. s.regs[t.rs] \in Word /\ s.regs[t.imm % 8] \in Word
  BY StateFields, ThumbFields
<1>2. t.imm % 8 \in Word
  <2>1. t.imm % 8 \in Nat /\ t.imm % 8 <= 255
    BY ThumbFields
  <2>. QED  BY <2>1, SmallIsWord
<1>3. b \in Word /\ 0 \in {0, 1} /\ 1 \in {0, 1}
  BY <1>1, <1>2
<1>. HIDE DEF b
<1>4. /\ sub.res \in Word /\ add.res \in Word
      /\ ArithmeticFlags(sub) \in Nzcv /\ ArithmeticFlags(add) \in Nzcv
  BY <1>1, <1>3, ArithmeticTyped
<1>. HIDE DEF sub, add
<1>5. r.res \in Word /\ ArithmeticFlags(r) \in Nzcv
  BY <1>4
<1>6. ThumbAddSub(t, s) = [Set(s, t.rd, r.res) EXCEPT !.f = ArithmeticFlags(r)]
  BY DEF ThumbAddSub, r, sub, add, b
<1>7. t.rd \in Register
  BY ThumbFields
<1>. HIDE DEF r
<1>. QED  BY <1>5, <1>6, <1>7, SetFlagsTyped

LEMMA ThumbImmediateTyped ==
    ASSUME NEW t \in Thumb, NEW s \in MachineState, t.op \in 4 .. 7
    PROVE  ThumbImmediate(t, s) \in MachineState
<1>. DEFINE rd == t.imm \div 4
            i == Imm8(t)
            add == AddWith(s.regs[rd], i, 0)
            sub == SubWith(s.regs[rd], i, 1)
<1>1. rd \in Register /\ s.regs[rd] \in Word /\ i \in Word /\ 0 \in {0, 1} /\ 1 \in {0, 1}
  BY StateFields, ThumbFields, Imm8Typed
<1>2. /\ sub.res \in Word /\ add.res \in Word
      /\ ArithmeticFlags(sub) \in Nzcv /\ ArithmeticFlags(add) \in Nzcv
  <2>. HIDE DEF i, rd
  <2>. QED  BY <1>1, ArithmeticTyped
<1>3. LogicalFlags(s.f, i, s.f.c) \in Nzcv
  BY StateFields, LogicalFlagsTyped
<1>4. t.op = 4 => ThumbImmediate(t, s)
                      = [Set(s, rd, i) EXCEPT !.f = LogicalFlags(s.f, i, s.f.c)]
  BY DEF ThumbImmediate
<1>5. t.op = 5 => ThumbImmediate(t, s) = [s EXCEPT !.f = ArithmeticFlags(sub)]
  BY DEF ThumbImmediate
<1>6. t.op = 6 => ThumbImmediate(t, s)
                      = [Set(s, rd, add.res) EXCEPT !.f = ArithmeticFlags(add)]
  BY DEF ThumbImmediate
<1>7. t.op = 7 => ThumbImmediate(t, s)
                      = [Set(s, rd, sub.res) EXCEPT !.f = ArithmeticFlags(sub)]
  BY DEF ThumbImmediate
<1>8. t.op = 4 \/ t.op = 5 \/ t.op = 6 \/ t.op = 7
  OBVIOUS
<1>. HIDE DEF rd, i, add, sub
<1>9. /\ [Set(s, rd, i) EXCEPT !.f = LogicalFlags(s.f, i, s.f.c)] \in MachineState
      /\ [Set(s, rd, add.res) EXCEPT !.f = ArithmeticFlags(add)] \in MachineState
      /\ [Set(s, rd, sub.res) EXCEPT !.f = ArithmeticFlags(sub)] \in MachineState
  BY <1>1, <1>2, <1>3, SetFlagsTyped
<1>10. [s EXCEPT !.f = ArithmeticFlags(sub)] \in MachineState
  BY <1>2, FlagsTyped
<1>. QED  BY <1>4, <1>5, <1>6, <1>7, <1>8, <1>9, <1>10, Zenon

LEMMA ThumbHighTyped ==
    ASSUME NEW t \in Thumb, NEW s \in MachineState
    PROVE  ThumbHighRegister(t, s) \in MachineState
<1>. DEFINE b == s.regs[t.rs + 8 * (t.imm % 2)]
            rd == t.rd + 8 * ((t.imm \div 2) % 2)
            op == (t.imm \div 4) % 4
            sum == Wrap(s.regs[rd] + b)
            flags == CompareFlags(s.regs[rd], b)
<1>1. b \in Word /\ rd \in Register /\ s.regs[rd] \in Word
  BY StateFields, ThumbFields
<1>2. op \in 0 .. 3
  BY ThumbFields
<1>3. sum \in Word
  <2>1. s.regs[rd] + b \in Int
    BY <1>1, WordFacts DEF Word
  <2>. QED  BY <2>1, WrapIsWord
<1>4. flags \in Nzcv
  <2>. HIDE DEF b, rd
  <2>1. 1 \in {0, 1}
    OBVIOUS
  <2>2. ArithmeticFlags(SubWith(s.regs[rd], b, 1)) \in Nzcv
    BY <1>1, <2>1, ArithmeticTyped
  <2>. QED  BY <2>2 DEF CompareFlags
<1>5. op = 0 => ThumbHighRegister(t, s) = Set(s, rd, sum)
  BY DEF ThumbHighRegister
<1>6. op = 1 => ThumbHighRegister(t, s) = [s EXCEPT !.f = flags]
  BY DEF ThumbHighRegister
<1>7. op = 2 => ThumbHighRegister(t, s) = Set(s, rd, b)
  BY DEF ThumbHighRegister
<1>8. op = 3 => ThumbHighRegister(t, s) = Exchange(s, b)
  BY DEF ThumbHighRegister
<1>9. op = 0 \/ op = 1 \/ op = 2 \/ op = 3
  BY <1>2
<1>. HIDE DEF b, rd, op, sum, flags
<1>10. Set(s, rd, sum) \in MachineState /\ Set(s, rd, b) \in MachineState
  BY <1>1, <1>3, SetTyped
<1>11. [s EXCEPT !.f = flags] \in MachineState
  BY <1>4, FlagsTyped
<1>12. Exchange(s, b) \in MachineState
  BY <1>1, ExchangeTyped
<1>. QED  BY <1>5, <1>6, <1>7, <1>8, <1>9, <1>10, <1>11, <1>12, Zenon

LEMMA ThumbLiteralTyped ==
    ASSUME NEW t \in Thumb, NEW s \in MachineState, NEW pages, NEW pc \in Word
    PROVE  ThumbLiteral(t, s, pages, pc) \in MachineState
<1>. DEFINE here == s.regs[PC]
            a == Wrap(here - (here % 4) + 4 * Imm8(t))
            rd == t.imm \div 4
            four == 4
<1>1. here \in Int
  BY StateFields, WordFacts DEF Word, PC, Register
<1>2. here - (here % 4) + 4 * Imm8(t) \in Int
  <2>. HIDE DEF here
  <2>. QED  BY <1>1, Imm8Typed
<1>3. a \in Word
  BY <1>2, WrapIsWord
<1>4. rd \in Register /\ FALSE \in BOOLEAN /\ four \in 0 .. 4
  BY ThumbFields
<1>5. ThumbLiteral(t, s, pages, pc) = Load(s, pages, pc, a, four, FALSE, rd)
  BY DEF ThumbLiteral
<1>. HIDE DEF a, rd, four
<1>. QED  BY <1>3, <1>4, <1>5, LoadTyped

LEMMA ThumbTransferTyped ==
    ASSUME NEW t \in Thumb, NEW s \in MachineState, NEW pages, NEW pc \in Word
    PROVE  ThumbTransfer(t, s, pages, pc) \in MachineState
<1>. DEFINE a == Wrap(s.regs[t.rs] + 4 * t.imm)
            four == 4
<1>1. a \in Word
  <2>1. s.regs[t.rs] \in Word
    BY StateFields, ThumbFields
  <2>2. s.regs[t.rs] \in Int /\ t.imm \in Int
    BY <2>1, ThumbFields, WordFacts DEF Word
  <2>3. s.regs[t.rs] + 4 * t.imm \in Int
    BY <2>2
  <2>. QED  BY <2>3, WrapIsWord
<1>2. t.rd \in Register /\ s.regs[t.rd] \in Word /\ FALSE \in BOOLEAN /\ four \in 0 .. 4
      /\ "alignment" \in Faults
  BY StateFields, ThumbFields DEF Faults
<1>3. ThumbTransfer(t, s, pages, pc)
          \in {Faulted(s, "alignment", pc), Load(s, pages, pc, a, four, FALSE, t.rd),
               Store(s, pages, pc, a, four, s.regs[t.rd])}
  BY DEF ThumbTransfer
<1>. HIDE DEF a, four
<1>4. Load(s, pages, pc, a, four, FALSE, t.rd) \in MachineState
  BY <1>1, <1>2, LoadTyped
<1>5. Store(s, pages, pc, a, four, s.regs[t.rd]) \in MachineState
  BY <1>1, <1>2, StoreTyped
<1>6. Faulted(s, "alignment", pc) \in MachineState
  BY <1>2, FaultedTyped
<1>. QED  BY <1>3, <1>4, <1>5, <1>6

LEMMA ThumbBranchTyped ==
    ASSUME NEW t \in Thumb, NEW s \in MachineState
    PROVE  ThumbBranch(t, s) \in MachineState
<1>. DEFINE short == SignExtend(Imm8(t), 8)
            n == t.imm * 64 + t.rs * 8 + t.rd
            long == SignExtend(n, 11)
            near == Wrap(s.regs[PC] + 2 * short)
            far == Wrap(s.regs[PC] + 2 * long)
<1>1. short \in Int
  <2>. DEFINE i == Imm8(t)
  <2>1. i \in Int
    BY Imm8Typed
  <2>. HIDE DEF i
  <2>2. SignExtend(i, 8) \in Int
    BY <2>1 DEF SignExtend
  <2>. QED  BY <2>2 DEF i
<1>2. long \in Int
  <2>1. n \in Int
    <3>1. t.imm \in Int /\ t.rs \in Int /\ t.rd \in Int
      BY ThumbFields
    <3>2. \A x, y, z \in Int : x * 64 + y * 8 + z \in Int
      OBVIOUS
    <3>. QED  BY <3>1, <3>2
  <2>. HIDE DEF n
  <2>. QED  BY <2>1 DEF SignExtend
<1>. HIDE DEF short, long
<1>3. PC \in Register /\ s.regs[PC] \in Int
  BY StateFields, WordFacts DEF PC, Register, Word
<1>4. near \in Word /\ far \in Word
  <2>1. s.regs[PC] + 2 * short \in Int /\ s.regs[PC] + 2 * long \in Int
    BY <1>1, <1>2, <1>3
  <2>. QED  BY <2>1, WrapIsWord
<1>5. ThumbBranch(t, s) \in {Set(s, PC, far), Set(s, PC, near), s}
  BY DEF ThumbBranch, short, long
<1>. HIDE DEF near, far
<1>6. Set(s, PC, far) \in MachineState /\ Set(s, PC, near) \in MachineState
  BY <1>3, <1>4, SetTyped
<1>. QED  BY <1>5, <1>6

LEMMA ExecuteThumbTyped ==
    ASSUME NEW t \in Thumb, NEW s \in MachineState, NEW pages, NEW pc \in Word,
           ThumbHandler(t) # "undefined"
    PROVE  ExecuteThumb(t, s, pages, pc) \in MachineState
<1>1. /\ ThumbHandler(t) \in {"shift", "addsub", "immediate", "hireg", "literal", "transfer",
                              "condbranch", "branch"}
      /\ ThumbHandler(t) = "shift" => t.op \in 0 .. 2
      /\ ThumbHandler(t) = "immediate" => t.op \in 4 .. 7
  BY DEF ThumbHandler
<1>2. /\ ThumbHandler(t) = "shift" => ExecuteThumb(t, s, pages, pc) = ThumbShift(t, s)
      /\ ThumbHandler(t) = "addsub" => ExecuteThumb(t, s, pages, pc) = ThumbAddSub(t, s)
      /\ ThumbHandler(t) = "immediate" => ExecuteThumb(t, s, pages, pc) = ThumbImmediate(t, s)
      /\ ThumbHandler(t) = "hireg" => ExecuteThumb(t, s, pages, pc) = ThumbHighRegister(t, s)
      /\ ThumbHandler(t) = "literal" =>
             ExecuteThumb(t, s, pages, pc) = ThumbLiteral(t, s, pages, pc)
      /\ ThumbHandler(t) = "transfer" =>
             ExecuteThumb(t, s, pages, pc) = ThumbTransfer(t, s, pages, pc)
      /\ ThumbHandler(t) \in {"condbranch", "branch"} =>
             ExecuteThumb(t, s, pages, pc) = ThumbBranch(t, s)
  BY DEF ExecuteThumb
<1>3. /\ t.op \in 0 .. 2 => ThumbShift(t, s) \in MachineState
      /\ t.op \in 4 .. 7 => ThumbImmediate(t, s) \in MachineState
  BY ThumbShiftTyped, ThumbImmediateTyped
<1>. QED
  BY <1>1, <1>2, <1>3, ThumbAddSubTyped, ThumbHighTyped, ThumbLiteralTyped,
     ThumbTransferTyped, ThumbBranchTyped

-----------------------------------------------------------------------------
(* Executing a load or store again *)

\* Machine states that a transfer cannot tell apart, and does not make differ:
\* it reads no flag but for the carry of a shift, which does not reach the
\* offset.
Alike(s, q) == s.regs = q.regs /\ s.mem = q.mem /\ s.fault = q.fault

LEMMA FaultedAlike ==
    ASSUME NEW s \in MachineState, NEW q \in MachineState, s.regs = q.regs, s.mem = q.mem,
           NEW kind \in Faults, NEW a \in Word, NEW b \in Word
    PROVE  Alike(Faulted(s, kind, a), Faulted(q, kind, b))
  BY FaultedTyped DEF Alike

LEMMA SetAlike ==
    ASSUME NEW s \in MachineState, NEW q \in MachineState, Alike(s, q),
           NEW r \in Register, NEW w \in Word
    PROVE  Alike(Set(s, r, w), Set(q, r, w))
<1>1. /\ Set(s, r, w).regs = [s.regs EXCEPT ![r] = w] /\ Set(s, r, w).mem = s.mem
      /\ Set(s, r, w).fault = s.fault
  BY SetTyped
<1>2. /\ Set(q, r, w).regs = [q.regs EXCEPT ![r] = w] /\ Set(q, r, w).mem = q.mem
      /\ Set(q, r, w).fault = q.fault
  BY SetTyped
<1>. QED  BY <1>1, <1>2 DEF Alike

\* The word that a load of n bytes at a gives.
LoadedWord(m, a, n, signed) ==
    LET v == Value(m, a, n)
        top == Weight(n)
    IN  IF signed /\ 2 * v >= top THEN v + Modulus - top ELSE v

LEMMA LoadIs ==
    ASSUME NEW s, NEW pages, NEW pc, NEW a, NEW n, NEW signed, NEW rd
    PROVE  Load(s, pages, pc, a, n, signed, rd)
             = IF Page(a) \notin pages THEN Faulted(s, "translation", a)
               ELSE IF ~CanRead(a, n) THEN Faulted(s, "translation", pc)
               ELSE Set(s, rd, LoadedWord(s.mem, a, n, signed))
  BY Zenon DEF Load, LoadedWord

LEMMA LoadedWordTyped ==
    ASSUME NEW m \in Contents, NEW a \in Word, NEW n \in 0 .. 4, NEW signed \in BOOLEAN,
           CanRead(a, n)
    PROVE  LoadedWord(m, a, n, signed) \in Word
<1>. DEFINE v == Value(m, a, n)
            top == Weight(n)
<1>1. v \in 0 .. top - 1
  BY ValueTyped
<1>2. top \in Nat \ {0} /\ top <= Modulus /\ Modulus \in Nat
  BY Weights, WordFacts
<1>3. LoadedWord(m, a, n, signed) = IF signed /\ 2 * v >= top THEN v + Modulus - top ELSE v
  BY DEF LoadedWord
<1>. HIDE DEF v, top
<1>. QED  BY <1>1, <1>2, <1>3 DEF Word

LEMMA LoadAlike ==
    ASSUME NEW s \in MachineState, NEW q \in MachineState, Alike(s, q), NEW pages,
           NEW pc \in Word, NEW pd \in Word, NEW a \in Word, NEW n \in 0 .. 4,
           NEW signed \in BOOLEAN, NEW rd \in Register
    PROVE  Alike(Load(s, pages, pc, a, n, signed, rd), Load(q, pages, pd, a, n, signed, rd))
<1>1. "translation" \in Faults /\ s.regs = q.regs /\ s.mem = q.mem /\ s.mem \in Contents
  BY StateFields DEF Faults, Alike
<1>2. /\ Alike(Faulted(s, "translation", a), Faulted(q, "translation", a))
      /\ Alike(Faulted(s, "translation", pc), Faulted(q, "translation", pd))
  BY <1>1, FaultedAlike
<1>. DEFINE w == LoadedWord(s.mem, a, n, signed)
<1>3. CanRead(a, n) => w \in Word
  BY <1>1, LoadedWordTyped
<1>4. LoadedWord(q.mem, a, n, signed) = w
  BY <1>1
<1>. HIDE DEF w
<1>5. CanRead(a, n) => Alike(Set(s, rd, w), Set(q, rd, w))
  BY <1>3, SetAlike
<1>. QED  BY <1>2, <1>4, <1>5, LoadIs, Zenon DEF w

LEMMA WriteBytesTwice ==
    ASSUME NEW m, NEW a, NEW bytes
    PROVE  /\ WriteBytes(WriteBytes(m, a, bytes).mem, a, bytes).mem
                  = WriteBytes(m, a, bytes).mem
           /\ \A k : WriteBytes(k, a, bytes).ok <=> CanRead(a, Len(bytes))
<1>. DEFINE written == {i \in 0 .. Len(bytes) - 1 : CanRead(a, i + 1)}
            W(k) == [x \in Mapped |-> IF x \in Writable /\ Wrap(x - a) \in written
                                      THEN bytes[Wrap(x - a) + 1] ELSE k[x]]
<1>1. \A k : WriteBytes(k, a, bytes).mem = W(k)
  BY DEF WriteBytes
<1>2. W(W(m)) = W(m)
  <2>. HIDE DEF written
  <2>. QED  OBVIOUS
<1>3. \A k : WriteBytes(k, a, bytes).ok <=> CanRead(a, Len(bytes))
  BY DEF WriteBytes
<1>. HIDE DEF W
<1>. QED  BY <1>1, <1>2, <1>3

\* The second state may hold part of what is stored, if the page is mapped.
LEMMA StoreAlike ==
    ASSUME NEW s \in MachineState, NEW q \in MachineState, NEW pages,
           NEW pc \in Word, NEW pd \in Word, NEW a \in Word, NEW n \in 0 .. 4, NEW w \in Word,
           s.regs = q.regs, s.fault = q.fault,
           q.mem = s.mem \/ (Page(a) \in pages
                             /\ q.mem = WriteBytes(s.mem, a, Bytes(w, n)).mem)
    PROVE  Alike(Store(s, pages, pc, a, n, w), Store(q, pages, pd, a, n, w))
<1>. DEFINE bytes == Bytes(w, n)
            sm == WriteBytes(s.mem, a, bytes).mem
            qm == WriteBytes(q.mem, a, bytes).mem
            sn == [s EXCEPT !.mem = sm]
            qn == [q EXCEPT !.mem = qm]
            ok == CanRead(a, Len(bytes))
<1>1. "translation" \in Faults
  BY DEF Faults
<1>2. sm = qm
  BY WriteBytesTwice
<1>3. sm \in Contents
  <2>1. s.mem \in Contents /\ n \in Nat
    BY StateFields
  <2>2. bytes \in Seq(Byte)
    BY <2>1, BytesTyped
  <2>. QED  BY <2>1, <2>2, WriteBytesTyped
<1>4. /\ Store(s, pages, pc, a, n, w)
             = IF Page(a) \notin pages THEN Faulted(s, "translation", a)
               ELSE IF ~ok THEN Faulted(sn, "translation", pc) ELSE sn
      /\ Store(q, pages, pd, a, n, w)
             = IF Page(a) \notin pages THEN Faulted(q, "translation", a)
               ELSE IF ~ok THEN Faulted(qn, "translation", pd) ELSE qn
  <2>1. WriteBytes(s.mem, a, bytes).ok = ok /\ WriteBytes(q.mem, a, bytes).ok = ok
    BY WriteBytesTwice, Zenon DEF WriteBytes
  <2>. QED  BY <2>1, Zenon DEF Store
<1>. HIDE DEF sm, qm, ok, bytes
<1>5. /\ sn \in MachineState /\ sn.regs = s.regs /\ sn.mem = sm /\ sn.fault = s.fault
      /\ qn \in MachineState /\ qn.regs = q.regs /\ qn.mem = qm /\ qn.fault = q.fault
  BY <1>2, <1>3, MemTyped
<1>. HIDE DEF sn, qn
<1>6. Alike(sn, qn) /\ Alike(Faulted(sn, "translation", pc), Faulted(qn, "translation", pd))
  BY <1>1, <1>2, <1>5, FaultedAlike DEF Alike
<1>7. Page(a) \notin pages =>
          Alike(Faulted(s, "translation", a), Faulted(q, "translation", a))
  BY <1>1, FaultedAlike
<1>. QED  BY <1>4, <1>6, <1>7

LEMMA WriteBackAlike ==
    ASSUME NEW s \in MachineState, NEW q \in MachineState, Alike(s, q), NEW e \in Arm,
           NEW effective \in Word
    PROVE  Alike(WriteBack(s, e, effective), WriteBack(q, e, effective))
<1>1. e.rn \in Register /\ s.fault = q.fault
  BY ArmFields DEF Alike
<1>2. Alike(Set(s, e.rn, effective), Set(q, e.rn, effective))
  BY <1>1, SetAlike
<1>. QED  BY <1>1, <1>2 DEF WriteBack

\* What single and halfword transfers have in common: n bytes at a, and then
\* the base.
Transfer(e, s, pages, pc, effective, a, n, signed) ==
    IF a % n # 0 THEN Faulted(s, "alignment", pc)
    ELSE WriteBack(IF e.s = 1 THEN Load(s, pages, pc, a, n, signed, e.rd)
                              ELSE Store(s, pages, pc, a, n, s.regs[e.rd]),
                   e, effective)

LEMMA TransferParts ==
    ASSUME NEW e \in Arm, NEW s \in MachineState, NEW pages, NEW pc \in Word,
           NEW a \in Word, NEW n \in 0 .. 4, NEW signed \in BOOLEAN
    PROVE  /\ "alignment" \in Faults /\ "translation" \in Faults
           /\ e.rd \in Register /\ s.regs[e.rd] \in Word
           /\ Load(s, pages, pc, a, n, signed, e.rd) \in MachineState
           /\ Store(s, pages, pc, a, n, s.regs[e.rd]) \in MachineState
<1>1. e.rd \in Register /\ s.regs[e.rd] \in Word
  BY ArmFields, StateFields
<1>. QED  BY <1>1, LoadTyped, StoreTyped DEF Faults

LEMMA TransferAlike ==
    ASSUME NEW e \in Arm, NEW s \in MachineState, NEW q \in MachineState, Alike(s, q),
           NEW pages, NEW pc \in Word, NEW pd \in Word, NEW effective \in Word,
           NEW a \in Word, NEW n \in 0 .. 4, NEW signed \in BOOLEAN
    PROVE  Alike(Transfer(e, s, pages, pc, effective, a, n, signed),
                 Transfer(e, q, pages, pd, effective, a, n, signed))
<1>1. s.regs = q.regs /\ s.mem = q.mem /\ s.fault = q.fault
  BY DEF Alike
<1>. DEFINE sl == Load(s, pages, pc, a, n, signed, e.rd)
            ql == Load(q, pages, pd, a, n, signed, e.rd)
            ss == Store(s, pages, pc, a, n, s.regs[e.rd])
            qs == Store(q, pages, pd, a, n, q.regs[e.rd])
<1>2. /\ "alignment" \in Faults /\ e.rd \in Register /\ s.regs[e.rd] \in Word
      /\ sl \in MachineState /\ ql \in MachineState
      /\ ss \in MachineState /\ qs \in MachineState
  BY TransferParts
<1>3. Alike(Faulted(s, "alignment", pc), Faulted(q, "alignment", pd))
  BY <1>1, <1>2, FaultedAlike
<1>4. Alike(sl, ql)
  BY <1>2, LoadAlike
<1>5. Alike(ss, qs)
  BY <1>1, <1>2, StoreAlike
<1>. HIDE DEF sl, ql, ss, qs
<1>6. Alike(WriteBack(sl, e, effective), WriteBack(ql, e, effective))
  BY <1>2, <1>4, WriteBackAlike
<1>7. Alike(WriteBack(ss, e, effective), WriteBack(qs, e, effective))
  BY <1>2, <1>5, WriteBackAlike
<1>. QED  BY <1>3, <1>6, <1>7 DEF Transfer, sl, ql, ss, qs

LEMMA WriteBackFault ==
    ASSUME NEW s \in MachineState, NEW e \in Arm, NEW effective \in Word
    PROVE  /\ s.fault = NoFault => WriteBack(s, e, effective).fault = NoFault
           /\ s.fault # NoFault => WriteBack(s, e, effective) = s
<1>0. e.rn \in Register
  BY ArmFields
<1>1. Set(s, e.rn, effective).fault = s.fault
  BY <1>0, SetTyped
<1>. QED  BY <1>1 DEF WriteBack

LEMMA FaultNames == NoFault # "alignment" /\ NoFault # "translation"
  BY DEF NoFault

\* What a load and a store leave when they fault, and where.
Sizes == 0 .. 4

LEMMA LoadFault ==
    ASSUME NEW s \in MachineState, NEW pages, NEW pc \in Word, NEW a \in Word,
           NEW n \in Sizes, NEW signed \in BOOLEAN, NEW rd \in Register, s.fault = NoFault,
           NEW r, r = Load(s, pages, pc, a, n, signed, rd)
    PROVE  /\ r.fault = NoFault => Page(a) \in pages
           /\ r.fault # NoFault => r.regs = s.regs /\ r.mem = s.mem
<1>0. n \in 0 .. 4
  BY DEF Sizes
<1>. DEFINE w == LoadedWord(s.mem, a, n, signed)
<1>1. CanRead(a, n) => w \in Word
  BY <1>0, LoadedWordTyped, StateFields
<1>. HIDE DEF w
<1>2. CanRead(a, n) => Set(s, rd, w).fault = NoFault
  BY <1>1, SetTyped
<1>3. "translation" \in Faults
  BY DEF Faults
<1>4. \A b \in Word : /\ Faulted(s, "translation", b).fault # NoFault
                      /\ Faulted(s, "translation", b).regs = s.regs
                      /\ Faulted(s, "translation", b).mem = s.mem
  BY <1>3, FaultedTyped, FaultNames
<1>. QED  BY <1>2, <1>4, LoadIs DEF w

LEMMA StoreFault ==
    ASSUME NEW s \in MachineState, NEW pages, NEW pc \in Word, NEW a \in Word,
           NEW n \in Sizes, NEW w \in Word, s.fault = NoFault,
           NEW r, r = Store(s, pages, pc, a, n, w)
    PROVE  /\ r.regs = s.regs
           /\ r.fault = NoFault => Page(a) \in pages
           /\ r.fault # NoFault =>
                 r.mem = s.mem \/ (Page(a) \in pages
                                   /\ r.mem = WriteBytes(s.mem, a, Bytes(w, n)).mem)
<1>0. n \in 0 .. 4
  BY DEF Sizes
<1>. DEFINE m == WriteBytes(s.mem, a, Bytes(w, n)).mem
            sn == [s EXCEPT !.mem = m]
<1>1. "translation" \in Faults
  BY DEF Faults
<1>2. m \in Contents
  <2>1. s.mem \in Contents /\ n \in Nat
    BY <1>0, StateFields
  <2>2. Bytes(w, n) \in Seq(Byte)
    BY <2>1, <1>0, BytesTyped
  <2>. QED  BY <2>1, <2>2, WriteBytesTyped
<1>3. /\ r \in {Faulted(s, "translation", a), Faulted(sn, "translation", pc), sn}
      /\ Page(a) \notin pages => r = Faulted(s, "translation", a)
      /\ Page(a) \in pages => r \in {Faulted(sn, "translation", pc), sn}
  BY DEF Store
<1>. HIDE DEF m
<1>4. sn \in MachineState /\ sn.regs = s.regs /\ sn.mem = m /\ sn.fault = NoFault
  BY <1>2, MemTyped
<1>. HIDE DEF sn
<1>5. /\ Faulted(s, "translation", a).regs = s.regs
      /\ Faulted(s, "translation", a).mem = s.mem
      /\ Faulted(s, "translation", a).fault = "translation"
      /\ Faulted(sn, "translation", pc).regs = s.regs
      /\ Faulted(sn, "translation", pc).mem = m
  BY <1>1, <1>4, FaultedTyped
<1>6. /\ r.regs = s.regs
      /\ r.fault = NoFault => Page(a) \in pages
      /\ r.fault # NoFault => r.mem = s.mem \/ (Page(a) \in pages /\ r.mem = m)
  <2>1. CASE Page(a) \notin pages
    BY <1>3, <1>5, <2>1, FaultNames
  <2>2. CASE Page(a) \in pages
    BY <1>3, <1>4, <1>5, <2>2
  <2>. QED  BY <2>1, <2>2
<1>. QED  BY <1>6 DEF m

\* A transfer that does not fault does not with more pages mapped.
LEMMA TransferPages ==
    ASSUME NEW e \in Arm, NEW s \in MachineState, s.fault = NoFault, NEW all,
           NEW pages \in SUBSET all, NEW pc \in Word, NEW effective \in Word,
           NEW a \in Word, NEW n \in Sizes, NEW signed \in BOOLEAN,
           NEW r, r = Transfer(e, s, pages, pc, effective, a, n, signed), r.fault = NoFault
    PROVE  Transfer(e, s, all, pc, effective, a, n, signed) = r
<1>0. n \in 0 .. 4
  BY DEF Sizes
<1>. DEFINE l == Load(s, pages, pc, a, n, signed, e.rd)
            t == Store(s, pages, pc, a, n, s.regs[e.rd])
<1>1. /\ e.rd \in Register /\ s.regs[e.rd] \in Word
      /\ l \in MachineState /\ t \in MachineState
  BY <1>0, TransferParts
<1>2. CASE a % n # 0
  BY <1>2 DEF Transfer
<1>3. CASE a % n = 0 /\ e.s = 1
  <2>1. WriteBack(l, e, effective).fault = NoFault
    BY <1>3, Zenon DEF Transfer
  <2>2. l.fault = NoFault
    <3>. HIDE DEF l
    <3>. QED  BY <1>1, <2>1, WriteBackFault
  <2>3. Page(a) \in pages /\ Page(a) \in all
    <3>. DEFINE rd == e.rd
    <3>1. rd \in Register /\ l = Load(s, pages, pc, a, n, signed, rd)
      BY <1>1
    <3>. HIDE DEF rd, l
    <3>2. Page(a) \in pages
      BY <2>2, <3>1, LoadFault
    <3>. QED  BY <3>2
  <2>4. Load(s, all, pc, a, n, signed, e.rd) = l
    BY <2>3 DEF Load
  <2>. QED  BY <1>3, <2>4, Zenon DEF Transfer
<1>4. CASE a % n = 0 /\ e.s # 1
  <2>1. WriteBack(t, e, effective).fault = NoFault
    BY <1>4, Zenon DEF Transfer
  <2>2. t.fault = NoFault
    <3>. HIDE DEF t
    <3>. QED  BY <1>1, <2>1, WriteBackFault
  <2>3. Page(a) \in pages /\ Page(a) \in all
    <3>. DEFINE w == s.regs[e.rd]
    <3>1. w \in Word /\ t = Store(s, pages, pc, a, n, w)
      BY <1>1
    <3>. HIDE DEF w, t
    <3>2. Page(a) \in pages
      BY <2>2, <3>1, StoreFault
    <3>. QED  BY <3>2
  <2>4. Store(s, all, pc, a, n, s.regs[e.rd]) = t
    BY <2>3 DEF Store
  <2>. QED  BY <1>4, <2>4, Zenon DEF Transfer
<1>. QED  BY <1>2, <1>3, <1>4

\* One that faults leaves the registers alone, and in memory at most part of
\* what it stores there when it is executed again.
LEMMA TransferAgain ==
    ASSUME NEW e \in Arm, NEW s \in MachineState, s.fault = NoFault, NEW all,
           NEW pages \in SUBSET all, NEW pc \in Word, NEW effective \in Word,
           NEW a \in Word, NEW n \in Sizes, NEW signed \in BOOLEAN,
           NEW r, r = Transfer(e, s, pages, pc, effective, a, n, signed), r.fault # NoFault,
           NEW q \in MachineState, q.regs = r.regs, q.mem = r.mem, q.fault = NoFault,
           NEW pd \in Word, NEW ph \in Word
    PROVE  /\ q.regs = s.regs
           /\ Alike(Transfer(e, s, all, pd, effective, a, n, signed),
                    Transfer(e, q, all, ph, effective, a, n, signed))
<1>0. n \in 0 .. 4
  BY DEF Sizes
<1>. DEFINE l == Load(s, pages, pc, a, n, signed, e.rd)
            t == Store(s, pages, pc, a, n, s.regs[e.rd])
<1>1. /\ e.rd \in Register /\ s.regs[e.rd] \in Word
      /\ l \in MachineState /\ t \in MachineState
      /\ "alignment" \in Faults
  BY <1>0, TransferParts
<1>2. ASSUME r.regs = s.regs, r.mem = s.mem
      PROVE  /\ q.regs = s.regs
             /\ Alike(Transfer(e, s, all, pd, effective, a, n, signed),
                      Transfer(e, q, all, ph, effective, a, n, signed))
  <2>1. Alike(s, q)
    BY <1>2 DEF Alike
  <2>. QED  BY <1>2, <2>1, <1>0, TransferAlike
<1>3. CASE a % n # 0
  <2>1. r = Faulted(s, "alignment", pc)
    BY <1>3 DEF Transfer
  <2>2. r.regs = s.regs /\ r.mem = s.mem
    <3>1. /\ Faulted(s, "alignment", pc).regs = s.regs
          /\ Faulted(s, "alignment", pc).mem = s.mem
      BY <1>1, FaultedTyped
    <3>. QED  BY <2>1, <3>1
  <2>. QED  BY <1>2, <2>2
<1>4. CASE a % n = 0 /\ e.s = 1
  <2>1. r = WriteBack(l, e, effective)
    BY <1>4, Zenon DEF Transfer
  <2>2. l.fault # NoFault /\ r = l
    <3>. HIDE DEF l
    <3>. QED  BY <1>1, <2>1, WriteBackFault
  <2>3. r.regs = s.regs /\ r.mem = s.mem
    <3>. DEFINE rd == e.rd
    <3>1. rd \in Register /\ l = Load(s, pages, pc, a, n, signed, rd)
      BY <1>1
    <3>. HIDE DEF rd, l
    <3>2. l.regs = s.regs /\ l.mem = s.mem
      BY <2>2, <3>1, LoadFault
    <3>. QED  BY <2>2, <3>2
  <2>. QED  BY <1>2, <2>3
<1>5. CASE a % n = 0 /\ e.s # 1
  <2>1. r = WriteBack(t, e, effective)
    BY <1>5, Zenon DEF Transfer
  <2>2. t.fault # NoFault /\ r = t
    <3>. HIDE DEF t
    <3>. QED  BY <1>1, <2>1, WriteBackFault
  <2>. DEFINE m == WriteBytes(s.mem, a, Bytes(s.regs[e.rd], n)).mem
  <2>3. r.regs = s.regs /\ (r.mem = s.mem \/ (Page(a) \in pages /\ r.mem = m))
    <3>. DEFINE w == s.regs[e.rd]
    <3>1. w \in Word /\ t = Store(s, pages, pc, a, n, w)
      BY <1>1
    <3>. HIDE DEF w, t
    <3>2. /\ t.regs = s.regs
          /\ t.mem = s.mem \/ (Page(a) \in pages /\ t.mem = WriteBytes(s.mem, a, Bytes(w, n)).mem)
      BY <2>2, <3>1, StoreFault
    <3>. QED  BY <2>2, <3>2 DEF w
  <2>4. q.regs = s.regs /\ (q.mem = s.mem \/ (Page(a) \in all /\ q.mem = m))
    BY <2>3
  <2>. DEFINE ts == Store(s, all, pd, a, n, s.regs[e.rd])
              tq == Store(q, all, ph, a, n, q.regs[e.rd])
  <2>5. Alike(ts, tq)
    BY <1>1, <2>4, <1>0, StoreAlike
  <2>6. ts \in MachineState /\ tq \in MachineState
    BY <1>0, TransferParts
  <2>7. /\ Transfer(e, s, all, pd, effective, a, n, signed) = WriteBack(ts, e, effective)
        /\ Transfer(e, q, all, ph, effective, a, n, signed) = WriteBack(tq, e, effective)
    BY <1>5, Zenon DEF Transfer
  <2>. HIDE DEF ts, tq
  <2>. QED  BY <2>4, <2>5, <2>6, <2>7, WriteBackAlike
<1>. QED  BY <1>3, <1>4, <1>5

\* Offsets and addresses come from the registers alone.
LEMMA SameOffsets ==
    ASSUME NEW e \in Arm, NEW s \in MachineState, NEW q \in MachineState, s.regs = q.regs
    PROVE  /\ SingleOffset(e, s) = SingleOffset(e, q)
           /\ HalfwordOffset(e, s) = HalfwordOffset(e, q)
           /\ \A offset : Effective(e, s, offset) = Effective(e, q, offset)
           /\ \A effective : Addressed(e, s, effective) = Addressed(e, q, effective)
<1>1. ShiftedRegister(e, s).value = ShiftedRegister(e, q).value
  <2>. DEFINE type == Shifts[(e.mid % 8) \div 2 + 1]
              amount == 2 * e.rs + Bit(B7(e))
  <2>1. type \in {"LSL", "LSR", "ASR", "ROR"}
    <3>1. (e.mid % 8) \div 2 + 1 \in 1 .. 4
      BY ArmFields
    <3>2. \A k \in 1 .. 4 : Shifts[k] \in {"LSL", "LSR", "ASR", "ROR"}
      BY DEF Shifts
    <3>. QED  BY <3>1, <3>2
  <2>2. amount \in Nat
    BY ArmFields, BitTyped
  <2>3. /\ ShiftedRegister(e, s) = ShiftValue(type, s.regs[e.rm], amount, s.f.c)
        /\ ShiftedRegister(e, q) = ShiftValue(type, s.regs[e.rm], amount, q.f.c)
    BY DEF ShiftedRegister
  <2>. HIDE DEF type, amount
  <2>4. ShiftValue(type, s.regs[e.rm], amount, s.f.c).value
            = ShiftValue(type, s.regs[e.rm], amount, q.f.c).value
    BY <2>1, <2>2, ShiftCarryIrrelevant
  <2>. QED  BY <2>3, <2>4
<1>. QED  BY <1>1 DEF SingleOffset, HalfwordOffset, Effective, Addressed

\* A single transfer is one, and so is a halfword transfer that is not ignored.
SingleSize(e) == IF B22(e) THEN 1 ELSE 4
HalfwordSize(e) == IF B5(e) THEN 2 ELSE 1
SingleEffective(e, s) == Effective(e, s, SingleOffset(e, s))
HalfwordEffective(e, s) == Effective(e, s, HalfwordOffset(e, s))

SingleTransfer(e, s, pages, pc) ==
    Transfer(e, s, pages, pc, SingleEffective(e, s), Addressed(e, s, SingleEffective(e, s)),
             SingleSize(e), FALSE)
HalfwordTransfer(e, s, pages, pc) ==
    Transfer(e, s, pages, pc, HalfwordEffective(e, s),
             Addressed(e, s, HalfwordEffective(e, s)), HalfwordSize(e), B6(e))
Ignored(e, s) ==
    /\ Addressed(e, s, HalfwordEffective(e, s)) % HalfwordSize(e) = 0
    /\ e.s = 0 /\ (B6(e) \/ ~B5(e))

LEMMA TransferForms ==
    ASSUME NEW e, NEW s, NEW pages, NEW pc
    PROVE  /\ Single(e, s, pages, pc) = SingleTransfer(e, s, pages, pc)
           /\ Halfword(e, s, pages, pc)
                = IF Ignored(e, s) THEN s ELSE HalfwordTransfer(e, s, pages, pc)
<1>1. Single(e, s, pages, pc) = SingleTransfer(e, s, pages, pc)
  BY SingleIs, Zenon DEF SingleTransfer, Transfer, SingleEffective, SingleSize
<1>2. Halfword(e, s, pages, pc)
          = IF Ignored(e, s) THEN s ELSE HalfwordTransfer(e, s, pages, pc)
  BY HalfwordIs, Zenon DEF HalfwordTransfer, Transfer, HalfwordEffective, HalfwordSize, Ignored
<1>. QED  BY <1>1, <1>2

LEMMA TransferOperands ==
    ASSUME NEW e \in Arm, NEW s \in MachineState
    PROVE  /\ SingleEffective(e, s) \in Word /\ HalfwordEffective(e, s) \in Word
           /\ Addressed(e, s, SingleEffective(e, s)) \in Word
           /\ Addressed(e, s, HalfwordEffective(e, s)) \in Word
           /\ SingleSize(e) \in Sizes /\ HalfwordSize(e) \in Sizes
           /\ B6(e) \in BOOLEAN /\ FALSE \in BOOLEAN
  BY OffsetsTyped DEF SingleEffective, HalfwordEffective, SingleSize, HalfwordSize, Sizes, B6

LEMMA SameOperands ==
    ASSUME NEW e \in Arm, NEW s \in MachineState, NEW q \in MachineState, s.regs = q.regs
    PROVE  /\ SingleEffective(e, s) = SingleEffective(e, q)
           /\ HalfwordEffective(e, s) = HalfwordEffective(e, q)
           /\ Addressed(e, s, SingleEffective(e, s)) = Addressed(e, q, SingleEffective(e, q))
           /\ Addressed(e, s, HalfwordEffective(e, s))
                = Addressed(e, q, HalfwordEffective(e, q))
           /\ Ignored(e, s) <=> Ignored(e, q)
<1>1. /\ SingleEffective(e, s) = SingleEffective(e, q)
      /\ HalfwordEffective(e, s) = HalfwordEffective(e, q)
      /\ \A x : Addressed(e, s, x) = Addressed(e, q, x)
  BY SameOffsets DEF SingleEffective, HalfwordEffective
<1>. QED  BY <1>1 DEF Ignored

LEMMA SingleAlike ==
    ASSUME NEW e \in Arm, NEW s \in MachineState, NEW q \in MachineState, Alike(s, q),
           NEW pages, NEW pc \in Word, NEW pd \in Word
    PROVE  Alike(Single(e, s, pages, pc), Single(e, q, pages, pd))
<1>. DEFINE effective == SingleEffective(e, s)
            a == Addressed(e, s, effective)
            n == SingleSize(e)
<1>1. effective \in Word /\ a \in Word /\ n \in 0 .. 4 /\ FALSE \in BOOLEAN
  BY TransferOperands DEF Sizes
<1>2. effective = SingleEffective(e, q) /\ a = Addressed(e, q, SingleEffective(e, q))
  BY SameOperands DEF Alike
<1>3. /\ Single(e, s, pages, pc) = Transfer(e, s, pages, pc, effective, a, n, FALSE)
      /\ Single(e, q, pages, pd) = Transfer(e, q, pages, pd, effective, a, n, FALSE)
  BY <1>2, TransferForms, Zenon DEF SingleTransfer
<1>. HIDE DEF effective, a, n
<1>4. Alike(Transfer(e, s, pages, pc, effective, a, n, FALSE),
            Transfer(e, q, pages, pd, effective, a, n, FALSE))
  BY <1>1, TransferAlike
<1>. QED  BY <1>3, <1>4

LEMMA HalfwordAlike ==
    ASSUME NEW e \in Arm, NEW s \in MachineState, NEW q \in MachineState, Alike(s, q),
           NEW pages, NEW pc \in Word, NEW pd \in Word
    PROVE  Alike(Halfword(e, s, pages, pc), Halfword(e, q, pages, pd))
<1>. DEFINE effective == HalfwordEffective(e, s)
            a == Addressed(e, s, effective)
            n == HalfwordSize(e)
            signed == B6(e)
<1>1. effective \in Word /\ a \in Word /\ n \in 0 .. 4 /\ signed \in BOOLEAN
  BY TransferOperands DEF Sizes
<1>2. /\ effective = HalfwordEffective(e, q) /\ a = Addressed(e, q, HalfwordEffective(e, q))
      /\ Ignored(e, s) <=> Ignored(e, q)
  BY SameOperands DEF Alike
<1>3. /\ HalfwordTransfer(e, s, pages, pc) = Transfer(e, s, pages, pc, effective, a, n, signed)
      /\ HalfwordTransfer(e, q, pages, pd) = Transfer(e, q, pages, pd, effective, a, n, signed)
  BY <1>2, Zenon DEF HalfwordTransfer
<1>. HIDE DEF effective, a, n, signed
<1>4. Alike(Transfer(e, s, pages, pc, effective, a, n, signed),
            Transfer(e, q, pages, pd, effective, a, n, signed))
  BY <1>1, TransferAlike
<1>. QED  BY <1>2, <1>3, <1>4, TransferForms

LEMMA SinglePages ==
    ASSUME NEW e \in Arm, NEW s \in MachineState, s.fault = NoFault, NEW all,
           NEW pages \in SUBSET all, NEW pc \in Word,
           NEW r, r = Single(e, s, pages, pc), r.fault = NoFault
    PROVE  Single(e, s, all, pc) = r
<1>. DEFINE effective == SingleEffective(e, s)
            a == Addressed(e, s, effective)
            n == SingleSize(e)
            signed == FALSE
<1>1. effective \in Word /\ a \in Word /\ n \in Sizes /\ signed \in BOOLEAN
  BY TransferOperands
<1>2. /\ Single(e, s, pages, pc) = Transfer(e, s, pages, pc, effective, a, n, signed)
      /\ Single(e, s, all, pc) = Transfer(e, s, all, pc, effective, a, n, signed)
  BY TransferForms, Zenon DEF SingleTransfer
<1>. HIDE DEF effective, a, n, signed
<1>3. Transfer(e, s, all, pc, effective, a, n, signed)
          = Transfer(e, s, pages, pc, effective, a, n, signed)
  BY <1>1, <1>2, TransferPages
<1>. QED  BY <1>2, <1>3

LEMMA HalfwordPages ==
    ASSUME NEW e \in Arm, NEW s \in MachineState, s.fault = NoFault, NEW all,
           NEW pages \in SUBSET all, NEW pc \in Word,
           NEW r, r = Halfword(e, s, pages, pc), r.fault = NoFault
    PROVE  Halfword(e, s, all, pc) = r
<1>. DEFINE effective == HalfwordEffective(e, s)
            a == Addressed(e, s, effective)
            n == HalfwordSize(e)
            signed == B6(e)
<1>1. effective \in Word /\ a \in Word /\ n \in Sizes /\ signed \in BOOLEAN
  BY TransferOperands
<1>2. CASE Ignored(e, s)
  BY <1>2, TransferForms
<1>3. CASE ~Ignored(e, s)
  <2>1. /\ Halfword(e, s, pages, pc) = Transfer(e, s, pages, pc, effective, a, n, signed)
        /\ Halfword(e, s, all, pc) = Transfer(e, s, all, pc, effective, a, n, signed)
    BY <1>3, TransferForms, Zenon DEF HalfwordTransfer
  <2>. HIDE DEF effective, a, n, signed
  <2>2. Transfer(e, s, all, pc, effective, a, n, signed)
            = Transfer(e, s, pages, pc, effective, a, n, signed)
    BY <1>1, <2>1, TransferPages
  <2>. QED  BY <2>1, <2>2
<1>. QED  BY <1>2, <1>3

\* What a transfer from s that faulted in r leaves to the one executed again.
Left(s, r, q) ==
    /\ s.fault = NoFault /\ r.fault # NoFault /\ q.fault = NoFault
    /\ q.regs = r.regs /\ q.mem = r.mem

LEMMA SingleAgain ==
    ASSUME NEW e \in Arm, NEW s \in MachineState, NEW all,
           NEW pages \in SUBSET all, NEW pc \in Word,
           NEW r, r = Single(e, s, pages, pc),
           NEW q \in MachineState, Left(s, r, q),
           NEW pd \in Word, NEW ph \in Word
    PROVE  /\ q.regs[PC] = s.regs[PC]
           /\ Alike(Single(e, s, all, pd), Single(e, q, all, ph))
<1>. /\ s.fault = NoFault /\ r.fault # NoFault /\ q.fault = NoFault
     /\ q.regs = r.regs /\ q.mem = r.mem
  BY DEF Left
<1>. DEFINE effective == SingleEffective(e, s)
            a == Addressed(e, s, effective)
            n == SingleSize(e)
            signed == FALSE
<1>1. effective \in Word /\ a \in Word /\ n \in Sizes /\ signed \in BOOLEAN
  BY TransferOperands
<1>2. /\ Single(e, s, pages, pc) = Transfer(e, s, pages, pc, effective, a, n, signed)
      /\ Single(e, s, all, pd) = Transfer(e, s, all, pd, effective, a, n, signed)
  BY TransferForms, Zenon DEF SingleTransfer
<1>3. /\ q.regs = s.regs
      /\ Alike(Transfer(e, s, all, pd, effective, a, n, signed),
               Transfer(e, q, all, ph, effective, a, n, signed))
  <2>. HIDE DEF effective, a, n, signed
  <2>1. r = Transfer(e, s, pages, pc, effective, a, n, signed)
    BY <1>2
  <2>. QED  BY <1>1, <2>1, TransferAgain
<1>4. effective = SingleEffective(e, q) /\ a = Addressed(e, q, SingleEffective(e, q))
  BY <1>3, SameOperands
<1>5. Single(e, q, all, ph) = Transfer(e, q, all, ph, effective, a, n, signed)
  BY <1>4, TransferForms, Zenon DEF SingleTransfer
<1>. QED  BY <1>2, <1>3, <1>5

LEMMA HalfwordAgain ==
    ASSUME NEW e \in Arm, NEW s \in MachineState, NEW all,
           NEW pages \in SUBSET all, NEW pc \in Word,
           NEW r, r = Halfword(e, s, pages, pc),
           NEW q \in MachineState, Left(s, r, q),
           NEW pd \in Word, NEW ph \in Word
    PROVE  /\ q.regs[PC] = s.regs[PC]
           /\ Alike(Halfword(e, s, all, pd), Halfword(e, q, all, ph))
<1>. /\ s.fault = NoFault /\ r.fault # NoFault /\ q.fault = NoFault
     /\ q.regs = r.regs /\ q.mem = r.mem
  BY DEF Left
<1>. DEFINE effective == HalfwordEffective(e, s)
            a == Addressed(e, s, effective)
            n == HalfwordSize(e)
            signed == B6(e)
<1>0. ~Ignored(e, s)
  BY TransferForms
<1>1. effective \in Word /\ a \in Word /\ n \in Sizes /\ signed \in BOOLEAN
  BY TransferOperands
<1>2. /\ Halfword(e, s, pages, pc) = Transfer(e, s, pages, pc, effective, a, n, signed)
      /\ Halfword(e, s, all, pd) = Transfer(e, s, all, pd, effective, a, n, signed)
  BY <1>0, TransferForms, Zenon DEF HalfwordTransfer
<1>3. /\ q.regs = s.regs
      /\ Alike(Transfer(e, s, all, pd, effective, a, n, signed),
               Transfer(e, q, all, ph, effective, a, n, signed))
  <2>. HIDE DEF effective, a, n, signed
  <2>1. r = Transfer(e, s, pages, pc, effective, a, n, signed)
    BY <1>2
  <2>. QED  BY <1>1, <2>1, TransferAgain
<1>4. /\ effective = HalfwordEffective(e, q) /\ a = Addressed(e, q, HalfwordEffective(e, q))
      /\ Ignored(e, s) <=> Ignored(e, q)
  BY <1>3, SameOperands
<1>5. Halfword(e, q, all, ph) = Transfer(e, q, all, ph, effective, a, n, signed)
  BY <1>0, <1>4, TransferForms, Zenon DEF HalfwordTransfer
<1>. QED  BY <1>2, <1>3, <1>5

-----------------------------------------------------------------------------
(* Executing a transfer of several registers again *)

LEMMA BlockParts ==
    ASSUME NEW e \in Arm, NEW s \in MachineState, NEW pages
    PROVE  /\ BlockRegs(e, s.regs, pages, s.mem) \in [Register -> Word]
           /\ BlockMem(e, s.regs, pages, s.mem) \in Contents
           /\ BlockMoved(e, s, pages) \in MachineState
           /\ BlockMoved(e, s, pages).fault = s.fault
           /\ e.s = 1 => /\ BlockMoved(e, s, pages).regs = BlockRegs(e, s.regs, pages, s.mem)
                         /\ BlockMoved(e, s, pages).mem = s.mem
           /\ e.s # 1 => /\ BlockMoved(e, s, pages).regs = s.regs
                         /\ BlockMoved(e, s, pages).mem = BlockMem(e, s.regs, pages, s.mem)
<1>. DEFINE x == BlockRegs(e, s.regs, pages, s.mem)
            m == BlockMem(e, s.regs, pages, s.mem)
<1>1. s.regs \in [Register -> Word] /\ s.mem \in Contents
  BY StateFields
<1>2. x \in [Register -> Word] /\ m \in Contents
  BY <1>1, BlockRegsTyped, BlockMemTyped
<1>3. BlockMoved(e, s, pages) = IF e.s = 1 THEN [s EXCEPT !.regs = x] ELSE [s EXCEPT !.mem = m]
  BY DEF BlockMoved
<1>. HIDE DEF x, m
<1>4. /\ [s EXCEPT !.regs = x] \in MachineState
      /\ [s EXCEPT !.regs = x].regs = x /\ [s EXCEPT !.regs = x].mem = s.mem
      /\ [s EXCEPT !.regs = x].fault = s.fault
  BY <1>2, RegsTyped
<1>5. /\ [s EXCEPT !.mem = m] \in MachineState
      /\ [s EXCEPT !.mem = m].regs = s.regs /\ [s EXCEPT !.mem = m].mem = m
      /\ [s EXCEPT !.mem = m].fault = s.fault
  BY <1>2, MemTyped
<1>6. CASE e.s = 1
  <2>1. BlockMoved(e, s, pages) = [s EXCEPT !.regs = x]
    BY <1>3, <1>6
  <2>. QED  BY <1>2, <1>4, <1>6, <2>1 DEF x, m
<1>7. CASE e.s # 1
  <2>1. BlockMoved(e, s, pages) = [s EXCEPT !.mem = m]
    BY <1>3, <1>7
  <2>. QED  BY <1>2, <1>5, <1>7, <2>1 DEF x, m
<1>. QED  BY <1>6, <1>7

LEMMA ExchangeAlike ==
    ASSUME NEW s \in MachineState, NEW q \in MachineState, Alike(s, q), NEW target \in Word
    PROVE  Alike(Exchange(s, target), Exchange(q, target))
<1>1. /\ Exchange(s, target).regs = [s.regs EXCEPT ![PC] = target - (target % 2)]
      /\ Exchange(s, target).mem = s.mem /\ Exchange(s, target).fault = s.fault
  BY ExchangeTyped
<1>2. /\ Exchange(q, target).regs = [q.regs EXCEPT ![PC] = target - (target % 2)]
      /\ Exchange(q, target).mem = q.mem /\ Exchange(q, target).fault = q.fault
  BY ExchangeTyped
<1>. QED  BY <1>1, <1>2 DEF Alike

\* More pages fail fewer transfers.
LEMMA BlockFailingShrinks ==
    ASSUME NEW e, NEW regs, NEW all, NEW pages \in SUBSET all
    PROVE  /\ BlockFailing(e, regs, all) \subseteq BlockFailing(e, regs, pages)
           /\ BlockDone(e, regs, pages) \subseteq BlockDone(e, regs, all)
<1>1. BlockFailing(e, regs, all) \subseteq BlockFailing(e, regs, pages)
  BY DEF BlockFailing
<1>. QED  BY <1>1 DEF BlockDone

\* Transfers to and from the same addresses that leave the same registers and
\* memory do so with the base and the exchange of the instruction set too.
LEMMA BlockSame ==
    ASSUME NEW e \in Arm, NEW s \in MachineState, NEW q \in MachineState, NEW pages,
           NEW pc \in Word, NEW pd \in Word,
           RegisterList(e) = {} \/ B22(e) => Alike(s, q),
           \A r : BlockAt(e, s.regs, r) = BlockAt(e, q.regs, r),
           BlockBase(e, s.regs) = BlockBase(e, q.regs),
           Alike(BlockMoved(e, s, pages), BlockMoved(e, q, pages))
    PROVE  Alike(Block(e, s, pages, pc), Block(e, q, pages, pd))
<1>. DEFINE failing == BlockFailing(e, s.regs, pages)
            stopped == BlockAt(e, s.regs, CHOOSE r \in failing : \A x \in failing : r <= x)
            moved == BlockMoved(e, s, pages)
            movedq == BlockMoved(e, q, pages)
            based == BlockBased(e, s, pages)
            basedq == BlockBased(e, q, pages)
            base == BlockBase(e, s.regs)
<1>1. /\ BlockFailing(e, q.regs, pages) = failing
      /\ BlockAt(e, q.regs, CHOOSE r \in failing : \A x \in failing : r <= x) = stopped
  BY DEF BlockFailing
<1>2. stopped \in Word /\ base \in Word
  BY BlockAtTyped, StateFields
<1>3. moved \in MachineState /\ movedq \in MachineState /\ e.rn \in Register
  BY BlockParts, ArmFields
<1>4. based \in MachineState /\ basedq \in MachineState /\ Alike(based, basedq)
  <2>1. /\ based = IF B21(e) THEN Set(moved, e.rn, base) ELSE moved
        /\ basedq = IF B21(e) THEN Set(movedq, e.rn, base) ELSE movedq
    BY DEF BlockBased
  <2>. HIDE DEF moved, movedq, base, based, basedq
  <2>2. Set(moved, e.rn, base) \in MachineState /\ Set(movedq, e.rn, base) \in MachineState
    BY <1>2, <1>3, SetTyped
  <2>3. Alike(moved, movedq)
    BY DEF moved, movedq
  <2>4. Alike(Set(moved, e.rn, base), Set(movedq, e.rn, base))
    BY <1>2, <1>3, <2>3, SetAlike
  <2>. QED  BY <1>3, <2>1, <2>2, <2>3, <2>4
<1>5. /\ Block(e, s, pages, pc)
          = IF RegisterList(e) = {} \/ B22(e) THEN s
            ELSE IF failing # {}
                 THEN IF stopped % 4 # 0 THEN Faulted(moved, "alignment", pc)
                      ELSE IF Page(stopped) \notin pages
                           THEN Faulted(moved, "translation", stopped)
                      ELSE Faulted(moved, "translation", pc)
            ELSE IF e.s = 1 /\ PC \in RegisterList(e) THEN Exchange(based, based.regs[PC])
            ELSE based
      /\ Block(e, q, pages, pd)
          = IF RegisterList(e) = {} \/ B22(e) THEN q
            ELSE IF failing # {}
                 THEN IF stopped % 4 # 0 THEN Faulted(movedq, "alignment", pd)
                      ELSE IF Page(stopped) \notin pages
                           THEN Faulted(movedq, "translation", stopped)
                      ELSE Faulted(movedq, "translation", pd)
            ELSE IF e.s = 1 /\ PC \in RegisterList(e) THEN Exchange(basedq, basedq.regs[PC])
            ELSE basedq
  BY <1>1 DEF Block
<1>. DEFINE target == based.regs[PC]
<1>6. target \in Word /\ basedq.regs[PC] = target
  BY <1>4, StateFields DEF PC, Register, Alike
<1>7. "alignment" \in Faults /\ "translation" \in Faults
  BY DEF Faults
<1>8. Alike(moved, movedq)
  OBVIOUS
<1>. HIDE DEF failing, stopped, moved, movedq, based, basedq, base, target
<1>9. Alike(Exchange(based, target), Exchange(basedq, target))
  BY <1>4, <1>6, ExchangeAlike
<1>10. moved.regs = movedq.regs /\ moved.mem = movedq.mem
  BY <1>8 DEF Alike
<1>11. /\ Alike(Faulted(moved, "alignment", pc), Faulted(movedq, "alignment", pd))
       /\ Alike(Faulted(moved, "translation", stopped), Faulted(movedq, "translation", stopped))
       /\ Alike(Faulted(moved, "translation", pc), Faulted(movedq, "translation", pd))
  BY <1>2, <1>3, <1>7, <1>10, FaultedAlike
<1>12. /\ Exchange(based, based.regs[PC]) = Exchange(based, target)
       /\ Exchange(basedq, basedq.regs[PC]) = Exchange(basedq, target)
  BY <1>6 DEF target
<1>. QED  BY <1>4, <1>5, <1>9, <1>11, <1>12

LEMMA BlockAlike ==
    ASSUME NEW e \in Arm, NEW s \in MachineState, NEW q \in MachineState, Alike(s, q),
           NEW pages, NEW pc \in Word, NEW pd \in Word
    PROVE  Alike(Block(e, s, pages, pc), Block(e, q, pages, pd))
<1>1. s.regs = q.regs /\ s.mem = q.mem /\ s.fault = q.fault
  BY DEF Alike
<1>2. /\ \A r : BlockAt(e, s.regs, r) = BlockAt(e, q.regs, r)
      /\ BlockBase(e, s.regs) = BlockBase(e, q.regs)
  BY <1>1
<1>3. Alike(BlockMoved(e, s, pages), BlockMoved(e, q, pages))
  BY <1>1, BlockParts DEF Alike
<1>. QED  BY <1>2, <1>3, BlockSame

\* A transfer of several registers that faults has moved those before the one
\* that failed, and nothing else.
LEMMA BlockFault ==
    ASSUME NEW e \in Arm, NEW s \in MachineState, s.fault = NoFault, NEW pages,
           NEW pc \in Word, NEW r, r = Block(e, s, pages, pc)
    PROVE  IF r.fault = NoFault
           THEN RegisterList(e) = {} \/ B22(e) \/ BlockFailing(e, s.regs, pages) = {}
           ELSE /\ ~(RegisterList(e) = {} \/ B22(e))
                /\ BlockFailing(e, s.regs, pages) # {}
                /\ r.regs = BlockMoved(e, s, pages).regs
                /\ r.mem = BlockMoved(e, s, pages).mem
<1>. DEFINE failing == BlockFailing(e, s.regs, pages)
            stopped == BlockAt(e, s.regs, CHOOSE x \in failing : \A y \in failing : x <= y)
            moved == BlockMoved(e, s, pages)
            based == BlockBased(e, s, pages)
            base == BlockBase(e, s.regs)
            target == based.regs[PC]
<1>1. stopped \in Word /\ base \in Word
  BY BlockAtTyped, StateFields
<1>2. moved \in MachineState /\ e.rn \in Register /\ moved.fault = NoFault
  BY BlockParts, ArmFields
<1>3. based = IF B21(e) THEN Set(moved, e.rn, base) ELSE moved
  BY DEF BlockBased
<1>4. r = IF RegisterList(e) = {} \/ B22(e) THEN s
          ELSE IF failing # {}
               THEN IF stopped % 4 # 0 THEN Faulted(moved, "alignment", pc)
                    ELSE IF Page(stopped) \notin pages THEN Faulted(moved, "translation", stopped)
                    ELSE Faulted(moved, "translation", pc)
          ELSE IF e.s = 1 /\ PC \in RegisterList(e) THEN Exchange(based, target)
          ELSE based
  BY DEF Block
<1>. HIDE DEF failing, stopped, moved, based, base
<1>5. based \in MachineState /\ based.fault = NoFault
  BY <1>1, <1>2, <1>3, SetTyped
<1>6. target \in Word
  BY <1>5, StateFields DEF PC, Register
<1>. HIDE DEF target
<1>7. Exchange(based, target).fault = NoFault
  BY <1>5, <1>6, ExchangeTyped
<1>8. "alignment" \in Faults /\ "translation" \in Faults
      /\ "alignment" # NoFault /\ "translation" # NoFault
  BY DEF Faults, NoFault
<1>9. \A kind \in {"alignment", "translation"}, x \in Word :
          /\ Faulted(moved, kind, x).fault # NoFault
          /\ Faulted(moved, kind, x).regs = moved.regs
          /\ Faulted(moved, kind, x).mem = moved.mem
  BY <1>2, <1>8, FaultedTyped
<1>10. CASE RegisterList(e) = {} \/ B22(e)
  BY <1>4, <1>10
<1>11. CASE ~(RegisterList(e) = {} \/ B22(e)) /\ failing = {}
  <2>1. r \in {Exchange(based, target), based}
    BY <1>4, <1>11
  <2>2. r.fault = NoFault
    BY <1>5, <1>7, <2>1
  <2>. QED  BY <1>11, <2>2 DEF failing
<1>12. CASE ~(RegisterList(e) = {} \/ B22(e)) /\ failing # {}
  <2>1. \E kind \in {"alignment", "translation"}, x \in Word : r = Faulted(moved, kind, x)
    BY <1>1, <1>4, <1>12
  <2>2. r.fault # NoFault /\ r.regs = moved.regs /\ r.mem = moved.mem
    BY <1>9, <2>1
  <2>. QED  BY <1>12, <2>2 DEF failing, moved
<1>. QED  BY <1>10, <1>11, <1>12

LEMMA BlockPages ==
    ASSUME NEW e \in Arm, NEW s \in MachineState, s.fault = NoFault, NEW all,
           NEW pages \in SUBSET all, NEW pc \in Word,
           NEW r, r = Block(e, s, pages, pc), r.fault = NoFault
    PROVE  Block(e, s, all, pc) = r
<1>1. RegisterList(e) = {} \/ B22(e) \/ BlockFailing(e, s.regs, pages) = {}
  BY BlockFault
<1>2. CASE RegisterList(e) = {} \/ B22(e)
  BY <1>2 DEF Block
<1>3. CASE ~(RegisterList(e) = {} \/ B22(e)) /\ BlockFailing(e, s.regs, pages) = {}
  <2>1. BlockFailing(e, s.regs, all) = {}
    BY <1>3, BlockFailingShrinks
  <2>2. BlockDone(e, s.regs, all) = BlockDone(e, s.regs, pages)
    BY <1>3, <2>1 DEF BlockDone
  <2>3. /\ BlockRegs(e, s.regs, all, s.mem) = BlockRegs(e, s.regs, pages, s.mem)
        /\ BlockMem(e, s.regs, all, s.mem) = BlockMem(e, s.regs, pages, s.mem)
    BY <2>2 DEF BlockRegs, BlockMem
  <2>4. BlockMoved(e, s, all) = BlockMoved(e, s, pages)
    BY <2>3 DEF BlockMoved
  <2>5. BlockBased(e, s, all) = BlockBased(e, s, pages)
    BY <2>4 DEF BlockBased
  <2>. QED  BY <1>3, <2>1, <2>5 DEF Block
<1>. QED  BY <1>1, <1>2, <1>3

\* Stored again with more pages: what was stored is stored over.
LEMMA BlockMemTwice ==
    ASSUME NEW e, NEW regs, NEW all, NEW pages \in SUBSET all, NEW mem
    PROVE  BlockMem(e, regs, all, BlockMem(e, regs, pages, mem)) = BlockMem(e, regs, all, mem)
<1>. DEFINE value(r) == IF r = PC THEN Wrap(regs[PC] + 4) ELSE regs[r]
            covers(r, x) == Wrap(x - BlockAt(e, regs, r)) < 4
            done == BlockDone(e, regs, all)
            before == BlockDone(e, regs, pages)
            again(x) == LET r == CHOOSE r \in done : covers(r, x)
                        IN  Bytes(value(r), 4)[Wrap(x - BlockAt(e, regs, r)) + 1]
            once(x) == LET r == CHOOSE r \in before : covers(r, x)
                       IN  Bytes(value(r), 4)[Wrap(x - BlockAt(e, regs, r)) + 1]
<1>1. before \subseteq done
  BY BlockFailingShrinks
<1>2. \A m : BlockMem(e, regs, all, m)
          = [x \in Mapped |-> IF x \in Writable /\ \E r \in done : covers(r, x)
                              THEN again(x) ELSE m[x]]
  BY Zenon DEF BlockMem
<1>3. BlockMem(e, regs, pages, mem)
          = [x \in Mapped |-> IF x \in Writable /\ \E r \in before : covers(r, x)
                              THEN once(x) ELSE mem[x]]
  BY Zenon DEF BlockMem
<1>. HIDE DEF covers, done, before, again, once
<1>4. \A x \in Mapped : ~(x \in Writable /\ \E r \in done : covers(r, x))
          => BlockMem(e, regs, pages, mem)[x] = mem[x]
  BY <1>1, <1>3
<1>. QED  BY <1>2, <1>4

\* Loaded again with more pages, the base not among what is loaded.
LEMMA BlockRegsTwice ==
    ASSUME NEW e \in Arm, NEW regs \in [Register -> Word], NEW all, NEW pages \in SUBSET all,
           NEW mem, e.rn \notin RegisterList(e),
           NEW moved, moved = BlockRegs(e, regs, pages, mem)
    PROVE  /\ \A r : BlockAt(e, moved, r) = BlockAt(e, regs, r)
           /\ BlockBase(e, moved) = BlockBase(e, regs)
           /\ BlockRegs(e, moved, all, mem) = BlockRegs(e, regs, all, mem)
           /\ BlockFailing(e, regs, pages) # {} => moved[PC] = regs[PC]
<1>1. e.rn \in Register
  BY ArmFields
<1>2. \A r \in Register : r \notin BlockDone(e, regs, pages) => moved[r] = regs[r]
  BY DEF BlockRegs
<1>3. moved[e.rn] = regs[e.rn]
  BY <1>1, <1>2 DEF BlockDone
<1>4. BlockFirst(e, moved) = BlockFirst(e, regs)
  BY <1>3 DEF BlockFirst
<1>5. (\A r : BlockAt(e, moved, r) = BlockAt(e, regs, r))
      /\ BlockBase(e, moved) = BlockBase(e, regs)
  BY <1>3, <1>4 DEF BlockAt, BlockBase
<1>6. BlockDone(e, moved, all) = BlockDone(e, regs, all)
  BY <1>5 DEF BlockDone, BlockFailing
<1>7. BlockDone(e, regs, pages) \subseteq BlockDone(e, regs, all)
  BY BlockFailingShrinks
<1>8. \A r \in Register : r \notin BlockDone(e, regs, all) => moved[r] = regs[r]
  BY <1>2, <1>7
<1>9. BlockRegs(e, moved, all, mem) = BlockRegs(e, regs, all, mem)
  BY <1>5, <1>6, <1>8 DEF BlockRegs
<1>10. ASSUME BlockFailing(e, regs, pages) # {} PROVE moved[PC] = regs[PC]
  <2>1. PICK r \in BlockFailing(e, regs, pages) : TRUE
    BY <1>10
  <2>2. r \in 0 .. 15
    BY ListFinite DEF BlockFailing, Register
  <2>3. PC \notin BlockDone(e, regs, pages) /\ PC \in Register
    BY <2>2 DEF BlockDone, PC, Register
  <2>. QED  BY <1>2, <2>3
<1>. QED  BY <1>5, <1>9, <1>10

LEMMA BlockAgain ==
    ASSUME NEW e \in Arm, NEW s \in MachineState, NEW all,
           NEW pages \in SUBSET all, NEW pc \in Word,
           NEW r, r = Block(e, s, pages, pc),
           NEW q \in MachineState, Left(s, r, q),
           NEW pd \in Word, NEW ph \in Word,
           ~(e.s = 1 /\ e.rn \in RegisterList(e))
    PROVE  /\ q.regs[PC] = s.regs[PC]
           /\ Alike(Block(e, s, all, pd), Block(e, q, all, ph))
<1>. /\ s.fault = NoFault /\ r.fault # NoFault /\ q.fault = NoFault
     /\ q.regs = r.regs /\ q.mem = r.mem
  BY DEF Left
<1>1. /\ ~(RegisterList(e) = {} \/ B22(e))
      /\ BlockFailing(e, s.regs, pages) # {}
      /\ q.regs = BlockMoved(e, s, pages).regs
      /\ q.mem = BlockMoved(e, s, pages).mem
  BY BlockFault
<1>2. /\ q.regs[PC] = s.regs[PC]
      /\ \A x : BlockAt(e, s.regs, x) = BlockAt(e, q.regs, x)
      /\ BlockBase(e, s.regs) = BlockBase(e, q.regs)
      /\ Alike(BlockMoved(e, s, all), BlockMoved(e, q, all))
  <2>1. CASE e.s = 1
    <3>1. q.regs = BlockRegs(e, s.regs, pages, s.mem) /\ q.mem = s.mem
      BY <1>1, <2>1, BlockParts
    <3>2. /\ \A x : BlockAt(e, q.regs, x) = BlockAt(e, s.regs, x)
          /\ BlockBase(e, q.regs) = BlockBase(e, s.regs)
          /\ BlockRegs(e, q.regs, all, s.mem) = BlockRegs(e, s.regs, all, s.mem)
          /\ q.regs[PC] = s.regs[PC]
      <4>. DEFINE regs == s.regs
                  mem == s.mem
                  moved == q.regs
      <4>1. regs \in [Register -> Word] /\ e.rn \notin RegisterList(e)
        BY <2>1, StateFields
      <4>2. moved = BlockRegs(e, regs, pages, mem) /\ BlockFailing(e, regs, pages) # {}
        BY <1>1, <3>1
      <4>. HIDE DEF regs, mem, moved
      <4>3. /\ \A x : BlockAt(e, moved, x) = BlockAt(e, regs, x)
            /\ BlockBase(e, moved) = BlockBase(e, regs)
            /\ BlockRegs(e, moved, all, mem) = BlockRegs(e, regs, all, mem)
            /\ moved[PC] = regs[PC]
        BY <4>1, <4>2, BlockRegsTwice
      <4>. QED  BY <4>3 DEF regs, mem, moved
    <3>3. /\ BlockMoved(e, s, all).regs = BlockRegs(e, s.regs, all, s.mem)
          /\ BlockMoved(e, s, all).mem = s.mem /\ BlockMoved(e, s, all).fault = NoFault
      BY <2>1, BlockParts
    <3>4. /\ BlockMoved(e, q, all).regs = BlockRegs(e, q.regs, all, q.mem)
          /\ BlockMoved(e, q, all).mem = q.mem /\ BlockMoved(e, q, all).fault = NoFault
      BY <2>1, BlockParts
    <3>. QED  BY <3>1, <3>2, <3>3, <3>4 DEF Alike
  <2>2. CASE e.s # 1
    <3>1. q.regs = s.regs /\ q.mem = BlockMem(e, s.regs, pages, s.mem)
      BY <1>1, <2>2, BlockParts
    <3>2. BlockMem(e, s.regs, all, q.mem) = BlockMem(e, s.regs, all, s.mem)
      BY <3>1, BlockMemTwice
    <3>3. /\ BlockMoved(e, s, all).regs = s.regs
          /\ BlockMoved(e, s, all).mem = BlockMem(e, s.regs, all, s.mem)
          /\ BlockMoved(e, s, all).fault = NoFault
      BY <2>2, BlockParts
    <3>4. /\ BlockMoved(e, q, all).regs = q.regs
          /\ BlockMoved(e, q, all).mem = BlockMem(e, q.regs, all, q.mem)
          /\ BlockMoved(e, q, all).fault = NoFault
      BY <2>2, BlockParts
    <3>. QED  BY <3>1, <3>2, <3>3, <3>4 DEF Alike
  <2>. QED  BY <2>1, <2>2
<1>. QED  BY <1>1, <1>2, BlockSame

-----------------------------------------------------------------------------
(* Executing any transfer again *)

LEMMA ExecuteTransfer ==
    ASSUME NEW e, NEW s, NEW pages, NEW pc
    PROVE  /\ Handler(e) = "block" => ExecuteArm(e, s, pages, pc) = Block(e, s, pages, pc)
           /\ Handler(e) = "single" => ExecuteArm(e, s, pages, pc) = Single(e, s, pages, pc)
           /\ Handler(e) = "halfword" => ExecuteArm(e, s, pages, pc) = Halfword(e, s, pages, pc)
  BY DEF ExecuteArm

\* What a transfer does depends neither on the flags nor on its own address.
LEMMA ExecuteAlike ==
    ASSUME NEW e \in Arm, Handler(e) \in Transfers, NEW s \in MachineState,
           NEW q \in MachineState, Alike(s, q), NEW pages, NEW pc \in Word, NEW pd \in Word
    PROVE  Alike(ExecuteArm(e, s, pages, pc), ExecuteArm(e, q, pages, pd))
<1>1. CASE Handler(e) = "block"
  BY <1>1, ExecuteTransfer, BlockAlike
<1>2. CASE Handler(e) = "single"
  BY <1>2, ExecuteTransfer, SingleAlike
<1>3. CASE Handler(e) = "halfword"
  BY <1>3, ExecuteTransfer, HalfwordAlike
<1>. QED  BY <1>1, <1>2, <1>3 DEF Transfers

\* A transfer that does not fault would have done the same with more pages.
LEMMA ExecutePages ==
    ASSUME NEW e \in Arm, Handler(e) \in Transfers, NEW s \in MachineState,
           s.fault = NoFault, NEW all, NEW pages \in SUBSET all, NEW pc \in Word,
           NEW r, r = ExecuteArm(e, s, pages, pc), r.fault = NoFault
    PROVE  ExecuteArm(e, s, all, pc) = r
<1>1. CASE Handler(e) = "block"
  BY <1>1, ExecuteTransfer, BlockPages
<1>2. CASE Handler(e) = "single"
  BY <1>2, ExecuteTransfer, SinglePages
<1>3. CASE Handler(e) = "halfword"
  BY <1>3, ExecuteTransfer, HalfwordPages
<1>. QED  BY <1>1, <1>2, <1>3 DEF Transfers

\* A load of several registers may load its base, and the address is lost.
KeepsBase(e) == ~(Handler(e) = "block" /\ e.s = 1 /\ e.rn \in RegisterList(e))

\* Executed from what a transfer that faulted has left, it does what it would
\* have done in the first place with all of its pages.
LEMMA ExecuteAgain ==
    ASSUME NEW e \in Arm, Handler(e) \in Transfers, NEW s \in MachineState,
           NEW all, NEW pages \in SUBSET all, NEW pc \in Word,
           NEW r, r = ExecuteArm(e, s, pages, pc),
           NEW q \in MachineState, Left(s, r, q),
           NEW pd \in Word, NEW ph \in Word,
           KeepsBase(e)
    PROVE  /\ q.regs[PC] = s.regs[PC]
           /\ Alike(ExecuteArm(e, s, all, pd), ExecuteArm(e, q, all, ph))
<1>1. CASE Handler(e) = "block"
  <2>1. /\ r = Block(e, s, pages, pc) /\ ~(e.s = 1 /\ e.rn \in RegisterList(e))
        /\ ExecuteArm(e, s, all, pd) = Block(e, s, all, pd)
        /\ ExecuteArm(e, q, all, ph) = Block(e, q, all, ph)
    BY <1>1, ExecuteTransfer DEF KeepsBase
  <2>. QED  BY <2>1, BlockAgain
<1>2. CASE Handler(e) = "single"
  <2>1. /\ r = Single(e, s, pages, pc)
        /\ ExecuteArm(e, s, all, pd) = Single(e, s, all, pd)
        /\ ExecuteArm(e, q, all, ph) = Single(e, q, all, ph)
    BY <1>2, ExecuteTransfer
  <2>2. /\ q.regs[PC] = s.regs[PC]
        /\ Alike(Single(e, s, all, pd), Single(e, q, all, ph))
    BY <2>1, SingleAgain
  <2>. QED  BY <2>1, <2>2
<1>3. CASE Handler(e) = "halfword"
  <2>1. /\ r = Halfword(e, s, pages, pc)
        /\ ExecuteArm(e, s, all, pd) = Halfword(e, s, all, pd)
        /\ ExecuteArm(e, q, all, ph) = Halfword(e, q, all, ph)
    BY <1>3, ExecuteTransfer
  <2>2. /\ q.regs[PC] = s.regs[PC]
        /\ Alike(Halfword(e, s, all, pd), Halfword(e, q, all, ph))
    BY <2>1, HalfwordAgain
  <2>. QED  BY <2>1, <2>2
<1>. QED  BY <1>1, <1>2, <1>3 DEF Transfers

=============================================================================
