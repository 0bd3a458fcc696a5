----------------------------- MODULE PicaProofs -----------------------------
(***************************************************************************)
(* Theorems about the GPU's command words and register writes, for words   *)
(* of any number: what the decoder makes of packets, in whatever portions  *)
(* they come, and what a sequence of writes leaves.                        *)
(*                                                                         *)
(* Decode and the folds are recursive functions.  That they are what their *)
(* equations say, and what they compute for words of every length, is      *)
(* proved from the least element of a set of numbers.                      *)
(***************************************************************************)
EXTENDS Pica, FiniteSetTheorems, SequenceTheorems, WellFoundedInduction, TLAPS

-----------------------------------------------------------------------------
(* Arithmetic *)

LEMMA DivMod ==
    ASSUME NEW x \in Nat, NEW n \in Nat \ {0}
    PROVE  /\ x \div n \in Nat
           /\ x % n \in 0..(n - 1)
           /\ (x \div n) * n + (x % n) = x
OBVIOUS

LEMMA Distribute ==
    ASSUME NEW a \in Int, NEW b \in Int, NEW c \in Int
    PROVE  (a + b) * c = a * c + b * c
OBVIOUS

LEMMA ProductNat ==
    ASSUME NEW a \in Nat, NEW b \in Nat
    PROVE  a * b \in Nat
OBVIOUS

\* A multiple of c that is more than -c is not negative; one that is less
\* than k times c has a factor less than k.
LEMMA FactorBounds ==
    ASSUME NEW a \in Int, NEW k \in Int, NEW c \in Nat \ {0}
    PROVE  /\ a * c > 0 - c => a >= 0
           /\ a * c < k * c => a < k
OBVIOUS

\* Quotient and remainder are what they are written as.
LEMMA DivUnique ==
    ASSUME NEW n \in Nat \ {0}, NEW q \in Nat, NEW r \in 0..(n - 1)
    PROVE  /\ (q * n + r) \div n = q
           /\ (q * n + r) % n = r
<1>. DEFINE x == q * n + r
            a == x \div n
<1>1. q * n \in Nat
  BY ProductNat
<1>2. x \in Nat
  BY <1>1
<1>. HIDE DEF x
<1>3. a \in Nat /\ x % n \in 0..(n - 1) /\ a * n + (x % n) = x
  BY <1>2, DivMod
<1>. HIDE DEF a
<1>4. a - q \in Int /\ a * n \in Nat
  BY <1>3, ProductNat
<1>5. (a - q) * n = a * n - q * n
  BY <1>3
<1>6. (a - q) * n = r - (x % n)
  BY <1>1, <1>3, <1>4, <1>5 DEF x
<1>7. (a - q) * n > 0 - n /\ (a - q) * n < 1 * n
  BY <1>3, <1>6
<1>8. a - q >= 0 /\ a - q < 1
  BY <1>4, <1>7, FactorBounds
<1>9. a = q
  BY <1>3, <1>8
<1>10. x % n = r
  <2>1. x % n \in Nat /\ a * n = q * n
    BY <1>3, <1>9
  <2>. QED  BY <1>1, <1>3, <2>1 DEF x
<1>. QED  BY <1>9, <1>10 DEF a, x

-----------------------------------------------------------------------------
(* Induction, over sets of numbers *)

LEMMA Least ==
    ASSUME NEW S, S \subseteq Nat, S # {}
    PROVE  \E x \in S : \A y \in S : x <= y
<1>. DEFINE R == {ss \in Nat \X Nat : ss[1] < ss[2]}
<1>1. IsWellFoundedOn(R, Nat)
  BY NatLessThanWellFounded, Zenon DEF OpToRel
<1>2. ASSUME NEW x \in Nat, NEW y \in Nat, <<y, x>> \notin R
      PROVE  x <= y
  BY <1>2
<1>. HIDE DEF R
<1>3. PICK x \in S : \A y \in S : <<y, x>> \notin R
  BY <1>1, WFMin, Zenon
<1>4. \A y \in S : x <= y
  BY <1>2, <1>3
<1>. QED  BY <1>4

LEMMA Upward ==
    ASSUME NEW n \in Nat, NEW S, 0 \in S,
           \A k \in 0..(n - 1) : k \in S => k + 1 \in S
    PROVE  \A k \in 0..n : k \in S
<1>. DEFINE Bad == {k \in 0..n : k \notin S}
<1>1. SUFFICES ASSUME Bad # {} PROVE FALSE
  OBVIOUS
<1>2. Bad \subseteq Nat
  OBVIOUS
<1>3. PICK k \in Bad : \A j \in Bad : k <= j
  <2>. HIDE DEF Bad
  <2>. QED  BY <1>1, <1>2, Least
<1>4. k - 1 \in 0..(n - 1) /\ k - 1 \notin Bad /\ (k - 1) + 1 = k
  BY <1>3
<1>. QED  BY <1>3, <1>4

LEMMA Downward ==
    ASSUME NEW n \in Nat, NEW S,
           \A k \in 1..n : (\A j \in (k + 1)..n : j \in S) => k \in S
    PROVE  \A k \in 1..n : k \in S
<1>. DEFINE Bad == {i \in 0..(n - 1) : n - i \notin S}
<1>1. SUFFICES ASSUME Bad # {} PROVE FALSE
  <2>1. SUFFICES ASSUME Bad = {}, NEW k \in 1..n PROVE k \in S
    OBVIOUS
  <2>2. n - k \in 0..(n - 1) /\ n - (n - k) = k
    OBVIOUS
  <2>. QED  BY <2>1, <2>2
<1>2. Bad \subseteq Nat
  OBVIOUS
<1>3. PICK i \in Bad : \A j \in Bad : i <= j
  <2>. HIDE DEF Bad
  <2>. QED  BY <1>1, <1>2, Least
<1>4. n - i \in 1..n /\ n - i \notin S
  BY <1>3
<1>5. ASSUME NEW j \in (n - i + 1)..n
      PROVE  j \in S
  <2>1. n - j \in 0..(n - 1) /\ n - j < i /\ n - (n - j) = j
    BY <1>3
  <2>2. n - j \notin Bad
    BY <1>3, <2>1
  <2>. QED  BY <2>1, <2>2
<1>. QED  BY <1>4, <1>5

-----------------------------------------------------------------------------
(* The decoder *)

\* A register write, as the decoder makes them.
RegisterWrite == [reg : 0..(RegSpace - 1), value : Nat]

\* Where the packet at c ends, and the writes that the words have of it.
After(words, c) == c + PayloadLength(words[c]) + 1

PacketAt(words, c) ==
    LET payload == SubSeq(words, c + 1,
                          IF After(words, c) <= Len(words)
                          THEN After(words, c) - 1 ELSE Len(words))
    IN  [i \in 1..Len(payload) |->
            [reg |-> TargetReg(HeaderReg(words[c]), HeaderSequential(words[c]), i),
             value |-> payload[i]]]

Unfold(words, g, c) ==
    IF c > Len(words) THEN <<>>
    ELSE PacketAt(words, c)
         \o (IF After(words, c) <= Len(words) THEN g[After(words, c)] ELSE <<>>)

LEMMA AfterNat ==
    ASSUME NEW words \in Seq(Nat), NEW c \in 1..Len(words)
    PROVE  /\ PayloadLength(words[c]) \in Nat \ {0}
           /\ After(words, c) \in Nat /\ After(words, c) > c
<1>1. words[c] \in Nat /\ c \in Nat
  OBVIOUS
<1>2. words[c] \div RegSpace \in Nat
  BY <1>1, PicaAssumption, DivMod
<1>3. HeaderCount(words[c]) \in Nat
  <2>1. CountSpace \in Nat \ {0}
    BY PicaAssumption
  <2>2. (words[c] \div RegSpace) % CountSpace \in 0..(CountSpace - 1)
    BY <1>2, <2>1, DivMod
  <2>. QED  BY <2>1, <2>2 DEF HeaderCount
<1>4. PayloadLength(words[c]) \in Nat \ {0}
  BY <1>3 DEF PayloadLength
<1>. HIDE DEF PayloadLength
<1>. QED  BY <1>1, <1>4 DEF After

\* The writes of a packet: as many as it counts, unless it is cut off.
Size(words, c) ==
    IF After(words, c) <= Len(words) + 1 THEN PayloadLength(words[c]) ELSE Len(words) - c

WriteAt(words, c, i) ==
    [reg |-> TargetReg(HeaderReg(words[c]), HeaderSequential(words[c]), i),
     value |-> words[c + i]]

LEMMA PacketIs ==
    ASSUME NEW words \in Seq(Nat), NEW c \in 1..Len(words)
    PROVE  /\ Size(words, c) \in Nat /\ c + Size(words, c) <= Len(words)
           /\ PacketAt(words, c) = [i \in 1..Size(words, c) |-> WriteAt(words, c, i)]
           /\ PacketAt(words, c) \in Seq(RegisterWrite)
<1>. DEFINE size == PayloadLength(words[c])
            n == Size(words, c)
            end == IF After(words, c) <= Len(words) THEN After(words, c) - 1 ELSE Len(words)
            payload == SubSeq(words, c + 1, end)
            reg(i) == TargetReg(HeaderReg(words[c]), HeaderSequential(words[c]), i)
<1>1. size \in Nat \ {0} /\ After(words, c) = c + size + 1 /\ c \in Nat /\ Len(words) \in Nat
  BY AfterNat DEF After
<1>. HIDE DEF size
<1>2. n \in Nat /\ c + n <= Len(words) /\ end = c + n /\ end \in Nat
  BY <1>1 DEF Size, size
<1>. HIDE DEF n, end
<1>3. Len(payload) = n /\ \A i \in 1..n : payload[i] = words[c + i]
  <2>1. \A i \in (c + 1)..(c + n) : words[i] \in Nat
    BY <1>1, <1>2
  <2>2. /\ Len(SubSeq(words, c + 1, c + n)) = IF c + 1 <= c + n THEN c + n - (c + 1) + 1 ELSE 0
        /\ \A i \in 1..(c + n - (c + 1) + 1) :
              SubSeq(words, c + 1, c + n)[i] = words[c + 1 + i - 1]
    BY <1>1, <1>2, <2>1, SubSeqProperties
  <2>3. payload = SubSeq(words, c + 1, c + n)
    BY <1>2
  <2>. HIDE DEF payload
  <2>4. c + n - (c + 1) + 1 = n /\ (n = 0 <=> c + 1 > c + n)
    BY <1>1, <1>2
  <2>5. Len(payload) = n
    BY <1>1, <1>2, <2>2, <2>3, <2>4
  <2>6. ASSUME NEW i \in 1..n
        PROVE  payload[i] = words[c + i]
    <3>1. payload[i] = words[c + 1 + i - 1]
      BY <2>2, <2>3, <2>4
    <3>2. c + 1 + i - 1 = c + i
      BY <1>1, <1>2
    <3>. QED  BY <3>1, <3>2
  <2>. QED  BY <2>5, <2>6
<1>. HIDE DEF payload
<1>4. PacketAt(words, c) = [i \in 1..n |-> [reg |-> reg(i), value |-> words[c + i]]]
  <2>1. PacketAt(words, c)
          = [i \in 1..Len(payload) |-> [reg |-> reg(i), value |-> payload[i]]]
    BY DEF PacketAt, payload, end
  <2>. HIDE DEF reg
  <2>. QED  BY <1>3, <2>1
<1>5. ASSUME NEW i \in 1..n
      PROVE  reg(i) \in 0..(RegSpace - 1) /\ words[c + i] \in Nat
  <2>1. words[c] \in Nat /\ words[c + i] \in Nat
    BY <1>1, <1>2
  <2>2. RegSpace \in Nat \ {0}
    BY PicaAssumption
  <2>3. HeaderReg(words[c]) \in 0..(RegSpace - 1)
    BY <2>1, <2>2, DivMod DEF HeaderReg
  <2>4. HeaderReg(words[c]) + i - 1 \in Nat
    BY <1>2, <2>2, <2>3
  <2>5. (HeaderReg(words[c]) + i - 1) % RegSpace \in 0..(RegSpace - 1)
    BY <2>2, <2>4, DivMod
  <2>. QED  BY <2>1, <2>3, <2>5 DEF TargetReg
<1>. HIDE DEF reg
<1>6. PacketAt(words, c) \in Seq(RegisterWrite)
  <2>1. \A i \in 1..n : [reg |-> reg(i), value |-> words[c + i]] \in RegisterWrite
    BY <1>5 DEF RegisterWrite
  <2>. QED  BY <1>2, <1>4, <2>1
<1>. QED  BY <1>2, <1>4, <1>6 DEF n, reg, WriteAt

\* Decode is what its equation says.
LEMMA DecodeUnfolds ==
    ASSUME NEW words \in Seq(Nat)
    PROVE  \E g : /\ g = [c \in 1..(Len(words) + 1) |-> Unfold(words, g, c)]
                  /\ Decode(words) = g[1]
<1>. DEFINE n == Len(words) + 1
            S == {k \in 1..n : \E g : g = [c \in k..n |-> Unfold(words, g, c)]}
<1>1. n \in Nat /\ n >= 1 /\ Len(words) = n - 1
  OBVIOUS
<1>2. ASSUME NEW k \in 1..n, \A j \in (k + 1)..n : j \in S
      PROVE  k \in S
  <2>1. CASE k = n
    <3>. DEFINE g == [c \in k..n |-> <<>>]
    <3>1. \A c \in k..n : Unfold(words, g, c) = <<>>
      BY <1>1, <2>1 DEF Unfold
    <3>2. g = [c \in k..n |-> Unfold(words, g, c)]
      BY <3>1
    <3>. QED  BY <3>2
  <2>2. CASE k < n
    <3>1. k + 1 \in S /\ k \in Nat
      BY <1>1, <1>2, <2>2
    <3>2. PICK g : g = [c \in (k + 1)..n |-> Unfold(words, g, c)]
      BY <3>1
    <3>. DEFINE h == [c \in k..n |-> IF c = k THEN Unfold(words, g, k) ELSE g[c]]
    <3>3. ASSUME NEW c \in k..n
          PROVE  Unfold(words, h, c) = Unfold(words, g, c)
      <4>1. CASE c > Len(words)
        BY <4>1 DEF Unfold
      <4>2. CASE c <= Len(words)
        <5>1. After(words, c) \in Nat /\ After(words, c) > c
          BY <1>1, <3>1, <4>2, AfterNat
        <5>2. After(words, c) <= Len(words) => h[After(words, c)] = g[After(words, c)]
          BY <1>1, <3>1, <5>1
        <5>. HIDE DEF h, n
        <5>. QED  BY <5>2 DEF Unfold
      <4>. QED  BY <1>1, <3>1, <4>1, <4>2
    <3>4. \A c \in k..n : h[c] = Unfold(words, g, c)
      <4>1. \A c \in (k + 1)..n : g[c] = Unfold(words, g, c)
        BY <3>2
      <4>. QED  BY <1>1, <3>1, <4>1
    <3>5. h = [c \in k..n |-> h[c]]
      OBVIOUS
    <3>. HIDE DEF h
    <3>6. h = [c \in k..n |-> Unfold(words, h, c)]
      BY <3>3, <3>4, <3>5
    <3>. QED  BY <3>6
  <2>. QED  BY <1>1, <2>1, <2>2
<1>3. 1 \in S
  <2>. HIDE DEF S, n
  <2>1. \A k \in 1..n : k \in S
    BY <1>1, <1>2, Downward
  <2>. QED  BY <1>1, <2>1
<1>. DEFINE G == CHOOSE g : g = [c \in 1..n |-> Unfold(words, g, c)]
<1>4. G = [c \in 1..n |-> Unfold(words, G, c)]
  BY <1>3
<1>5. Decode(words) = G[1]
  BY Zenon DEF Decode, Unfold, After, PacketAt
<1>. QED  BY <1>4, <1>5

LEMMA UnfoldTyped ==
    ASSUME NEW words \in Seq(Nat), NEW g,
           g = [c \in 1..(Len(words) + 1) |-> Unfold(words, g, c)]
    PROVE  /\ \A c \in 1..(Len(words) + 1) : g[c] \in Seq(RegisterWrite)
           /\ g[Len(words) + 1] = <<>>
<1>. DEFINE n == Len(words) + 1
            S == {c \in 1..n : g[c] \in Seq(RegisterWrite)}
<1>1. n \in Nat /\ Len(words) = n - 1
  OBVIOUS
<1>2. <<>> \in Seq(RegisterWrite)
  OBVIOUS
<1>3. ASSUME NEW k \in 1..n, \A j \in (k + 1)..n : j \in S
      PROVE  k \in S
  <2>1. g[k] = Unfold(words, g, k)
    OBVIOUS
  <2>2. CASE k > Len(words)
    BY <1>2, <2>1, <2>2 DEF Unfold
  <2>3. CASE k <= Len(words)
    <3>1. k \in 1..Len(words)
      BY <1>1, <2>3
    <3>2. PacketAt(words, k) \in Seq(RegisterWrite)
      BY <3>1, PacketIs
    <3>3. After(words, k) \in Nat /\ After(words, k) > k
      BY <3>1, AfterNat
    <3>. DEFINE tail == IF After(words, k) <= Len(words) THEN g[After(words, k)] ELSE <<>>
    <3>4. tail \in Seq(RegisterWrite)
      <4>1. CASE After(words, k) <= Len(words)
        <5>1. After(words, k) \in (k + 1)..n
          BY <1>1, <3>1, <3>3, <4>1
        <5>2. After(words, k) \in S
          BY <1>3, <5>1
        <5>. QED  BY <4>1, <5>2
      <4>. QED  BY <1>2, <4>1
    <3>5. g[k] = PacketAt(words, k) \o tail
      <4>1. ~(k > Len(words))
        BY <3>1
      <4>. QED  BY <2>1, <4>1 DEF Unfold
    <3>. HIDE DEF tail
    <3>6. PacketAt(words, k) \o tail \in Seq(RegisterWrite)
      BY <3>2, <3>4, ConcatProperties
    <3>. QED  BY <3>5, <3>6
  <2>. QED  BY <1>1, <2>2, <2>3
<1>4. \A k \in 1..n : k \in S
  <2>. HIDE DEF S, n
  <2>. QED  BY <1>1, <1>3, Downward
<1>5. g[n] = <<>>
  <2>1. n \in 1..n /\ n > Len(words)
    BY <1>1
  <2>. QED  BY <2>1 DEF Unfold
<1>. QED  BY <1>4, <1>5

\* What the decoder makes of the words are register writes.
LEMMA DecodeTyped ==
    ASSUME NEW words \in Seq(Nat)
    PROVE  Decode(words) \in Seq(RegisterWrite)
<1>1. PICK g : /\ g = [c \in 1..(Len(words) + 1) |-> Unfold(words, g, c)]
               /\ Decode(words) = g[1]
  BY DecodeUnfolds
<1>2. 1 \in 1..(Len(words) + 1)
  OBVIOUS
<1>. QED  BY <1>1, <1>2, UnfoldTyped

LEMMA DecodeNothing == Decode(<<>>) = <<>>
<1>. DEFINE none == <<>>
<1>1. none \in Seq(Nat) /\ Len(none) = 0
  OBVIOUS
<1>2. PICK g : /\ g = [c \in 1..(Len(none) + 1) |-> Unfold(none, g, c)]
               /\ Decode(none) = g[1]
  BY <1>1, DecodeUnfolds
<1>3. g[Len(none) + 1] = <<>>
  <2>. HIDE DEF none
  <2>. QED  BY <1>1, <1>2, UnfoldTyped
<1>. QED  BY <1>1, <1>2, <1>3

\* Words that are whole packets: packets begin at some places, the first word
\* among them, and each ends where another begins or the words end.
Complete(words) ==
    \E B \in SUBSET (1..(Len(words) + 1)) :
        /\ 1 \in B
        /\ \A c \in B : c <= Len(words) => After(words, c) \in B

LEMMA JoinIs ==
    ASSUME NEW a \in Seq(Nat), NEW b \in Seq(Nat)
    PROVE  /\ a \o b \in Seq(Nat)
           /\ Len(a \o b) = Len(a) + Len(b)
           /\ \A i \in 1..Len(a) : (a \o b)[i] = a[i]
           /\ \A i \in 1..Len(b) : (a \o b)[Len(a) + i] = b[i]
<1>1. /\ a \o b \in Seq(Nat)
      /\ Len(a \o b) = Len(a) + Len(b)
      /\ \A i \in 1..Len(a) + Len(b) :
            (a \o b)[i] = IF i <= Len(a) THEN a[i] ELSE b[i - Len(a)]
  BY ConcatProperties
<1>2. Len(a) \in Nat /\ Len(b) \in Nat
  OBVIOUS
<1>3. ASSUME NEW i \in 1..Len(a)
      PROVE  (a \o b)[i] = a[i]
  BY <1>1, <1>2
<1>4. ASSUME NEW i \in 1..Len(b)
      PROVE  (a \o b)[Len(a) + i] = b[i]
  <2>1. /\ Len(a) + i \in 1..Len(a) + Len(b)
        /\ ~(Len(a) + i <= Len(a)) /\ Len(a) + i - Len(a) = i
    BY <1>2
  <2>. QED  BY <1>1, <2>1
<1>. QED  BY <1>1, <1>3, <1>4

LEMMA WritesAssociative ==
    ASSUME NEW p \in Seq(RegisterWrite), NEW q \in Seq(RegisterWrite),
           NEW r \in Seq(RegisterWrite)
    PROVE  (p \o q) \o r = p \o (q \o r)
BY ConcatAssociative

\* Packets in front do not change what comes after them.
LEMMA SecondPart ==
    ASSUME NEW a \in Seq(Nat), NEW b \in Seq(Nat), NEW i \in 1..Len(b)
    PROVE  /\ After(a \o b, Len(a) + i) = Len(a) + After(b, i)
           /\ PacketAt(a \o b, Len(a) + i) = PacketAt(b, i)
<1>. DEFINE all == a \o b
            l == Len(a)
            m == Len(b)
<1>1. /\ all \in Seq(Nat) /\ Len(all) = l + m /\ l \in Nat /\ m \in Nat
      /\ \A j \in 1..m : all[l + j] = b[j]
  BY JoinIs
<1>2. i \in Nat /\ l + i \in 1..Len(all) /\ all[l + i] = b[i]
  BY <1>1
<1>. HIDE DEF all, l, m
<1>3. PayloadLength(b[i]) \in Nat /\ After(b, i) = i + PayloadLength(b[i]) + 1
  BY AfterNat DEF After
<1>4. After(all, l + i) = l + After(b, i) /\ After(b, i) \in Nat
  <2>1. PICK s \in Nat : s = PayloadLength(b[i])
    BY <1>3
  <2>2. After(all, l + i) = l + i + s + 1
    BY <1>2, <2>1, Zenon DEF After
  <2>3. After(b, i) = i + s + 1
    BY <1>3, <2>1, Zenon
  <2>4. i \in Nat /\ l \in Nat
    BY <1>1, <1>2
  <2>5. l + i + s + 1 = l + (i + s + 1) /\ i + s + 1 \in Nat
    BY <2>1, <2>4
  <2>. QED  BY <2>2, <2>3, <2>5, Zenon
<1>5. Size(all, l + i) = Size(b, i)
  <2>1. After(all, l + i) <= Len(all) + 1 <=> After(b, i) <= m + 1
    <3>1. l + After(b, i) <= l + m + 1 <=> After(b, i) <= m + 1
      BY <1>1, <1>4
    <3>. QED  BY <1>1, <1>4, <3>1, Zenon
  <2>2. Len(all) - (l + i) = m - i
    BY <1>1, <1>2
  <2>. QED  BY <1>2, <2>1, <2>2, Zenon DEF Size, m
<1>. DEFINE n == Size(b, i)
<1>6. /\ n \in Nat /\ i + n <= m
      /\ PacketAt(b, i) = [j \in 1..n |-> WriteAt(b, i, j)]
  BY PacketIs DEF m
<1>7. PacketAt(all, l + i) = [j \in 1..n |-> WriteAt(all, l + i, j)]
  BY <1>1, <1>2, <1>5, PacketIs
<1>. HIDE DEF n
<1>8. ASSUME NEW j \in 1..n
      PROVE  WriteAt(all, l + i, j) = WriteAt(b, i, j)
  <2>1. i + j \in 1..m /\ l + i + j = l + (i + j)
    BY <1>1, <1>2, <1>6
  <2>2. all[l + i + j] = b[i + j]
    BY <1>1, <2>1
  <2>. QED  BY <1>2, <2>2 DEF WriteAt
<1>9. PacketAt(all, l + i) = PacketAt(b, i)
  BY <1>6, <1>7, <1>8
<1>. QED  BY <1>4, <1>9 DEF all, l

\* Nor does what comes after a whole packet change it.
LEMMA FirstPart ==
    ASSUME NEW a \in Seq(Nat), NEW b \in Seq(Nat), NEW i \in 1..Len(a),
           After(a, i) <= Len(a) + 1
    PROVE  /\ After(a \o b, i) = After(a, i)
           /\ PacketAt(a \o b, i) = PacketAt(a, i)
<1>. DEFINE all == a \o b
            l == Len(a)
<1>1. /\ all \in Seq(Nat) /\ Len(all) = l + Len(b) /\ l \in Nat /\ Len(b) \in Nat
      /\ \A j \in 1..l : all[j] = a[j]
  BY JoinIs
<1>2. i \in Nat /\ i \in 1..Len(all) /\ all[i] = a[i]
  BY <1>1
<1>. HIDE DEF all
<1>3. After(all, i) = After(a, i) /\ After(a, i) \in Nat
  BY <1>2, AfterNat DEF After
<1>4. Size(all, i) = Size(a, i)
  BY <1>1, <1>2, <1>3 DEF Size
<1>. DEFINE n == Size(a, i)
<1>5. /\ n \in Nat /\ i + n <= l
      /\ PacketAt(a, i) = [j \in 1..n |-> WriteAt(a, i, j)]
  BY PacketIs
<1>6. PacketAt(all, i) = [j \in 1..n |-> WriteAt(all, i, j)]
  BY <1>1, <1>2, <1>4, PacketIs
<1>. HIDE DEF n
<1>7. ASSUME NEW j \in 1..n
      PROVE  WriteAt(all, i, j) = WriteAt(a, i, j)
  <2>1. i + j \in 1..l
    BY <1>1, <1>2, <1>5
  <2>2. all[i + j] = a[i + j]
    BY <1>1, <2>1
  <2>. QED  BY <1>2, <2>2 DEF WriteAt
<1>8. PacketAt(all, i) = PacketAt(a, i)
  BY <1>5, <1>6, <1>7
<1>. QED  BY <1>3, <1>8 DEF all

LEMMA CompleteJoin ==
    ASSUME NEW a \in Seq(Nat), NEW b \in Seq(Nat), Complete(a), Complete(b)
    PROVE  Complete(a \o b)
<1>. DEFINE all == a \o b
            l == Len(a)
            m == Len(b)
<1>1. Len(all) = l + m /\ l \in Nat /\ m \in Nat
  BY JoinIs
<1>2. PICK B \in SUBSET (1..(l + 1)) : 1 \in B /\ \A c \in B : c <= l => After(a, c) \in B
  BY DEF Complete
<1>3. PICK D \in SUBSET (1..(m + 1)) : 1 \in D /\ \A d \in D : d <= m => After(b, d) \in D
  BY DEF Complete
<1>. DEFINE E == {l + d : d \in D}
<1>. HIDE DEF all
<1>4. B \cup E \in SUBSET (1..(Len(all) + 1))
  <2>1. \A c \in B : c \in 1..(Len(all) + 1)
    BY <1>1, <1>2
  <2>2. \A d \in D : l + d \in 1..(Len(all) + 1)
    BY <1>1, <1>3
  <2>. QED  BY <2>1, <2>2
<1>5. ASSUME NEW d \in D, l + d <= Len(all)
      PROVE  After(all, l + d) \in E
  <2>1. d \in 1..m
    BY <1>1, <1>3, <1>5
  <2>2. After(all, l + d) = l + After(b, d) /\ After(b, d) \in D
    BY <1>1, <1>3, <2>1, SecondPart DEF all
  <2>. QED  BY <2>2
<1>6. ASSUME NEW c \in B, c <= Len(all)
      PROVE  After(all, c) \in B \cup E
  <2>1. CASE c <= l
    <3>1. c \in 1..l /\ After(a, c) \in B
      BY <1>1, <1>2, <2>1
    <3>2. After(a, c) <= l + 1
      <4>1. After(a, c) \in 1..(l + 1)
        BY <1>2, <3>1
      <4>. QED  BY <1>1, <4>1
    <3>3. After(all, c) = After(a, c)
      BY <3>1, <3>2, FirstPart DEF all
    <3>. QED  BY <3>1, <3>3
  <2>2. CASE c = l + 1
    <3>1. 1 \in D /\ l + 1 <= Len(all)
      BY <1>3, <1>6, <2>2
    <3>2. After(all, l + 1) \in E
      BY <1>5, <3>1
    <3>. QED  BY <2>2, <3>2
  <2>3. c <= l \/ c = l + 1
    BY <1>1, <1>2
  <2>. QED  BY <2>1, <2>2, <2>3
<1>7. \A c \in B \cup E : c <= Len(all) => After(all, c) \in B \cup E
  BY <1>5, <1>6
<1>. HIDE DEF E
<1>. QED  BY <1>2, <1>4, <1>7 DEF Complete, all

\* Decoding whole packets and what comes after them, one after the other or
\* together, leads to the same writes.
THEOREM DecodeInPortions ==
    ASSUME NEW a \in Seq(Nat), NEW b \in Seq(Nat), Complete(a)
    PROVE  Decode(a \o b) = Decode(a) \o Decode(b)
<1>. DEFINE all == a \o b
            l == Len(a)
            m == Len(b)
            n == l + m
<1>1. /\ all \in Seq(Nat) /\ Len(all) = n /\ l \in Nat /\ m \in Nat /\ n \in Nat
      /\ l + 1 \in Nat /\ m + 1 \in Nat
  BY JoinIs
<1>. HIDE DEF all
<1>2. PICK g : g = [c \in 1..(l + 1) |-> Unfold(a, g, c)] /\ Decode(a) = g[1]
  BY DecodeUnfolds
<1>3. PICK h : h = [c \in 1..(m + 1) |-> Unfold(b, h, c)] /\ Decode(b) = h[1]
  BY DecodeUnfolds
<1>4. PICK f : f = [c \in 1..(n + 1) |-> Unfold(all, f, c)] /\ Decode(all) = f[1]
  BY <1>1, DecodeUnfolds
<1>5. \A c \in 1..(m + 1) : f[l + c] = h[c]
  <2>. DEFINE S == {c \in 1..(m + 1) : f[l + c] = h[c]}
  <2>1. ASSUME NEW c \in 1..(m + 1), \A d \in (c + 1)..(m + 1) : d \in S
        PROVE  c \in S
    <3>1. l + c \in 1..(n + 1)
      BY <1>1
    <3>2. f[l + c] = Unfold(all, f, l + c) /\ h[c] = Unfold(b, h, c)
      BY <1>3, <1>4, <3>1
    <3>3. CASE c > m
      <4>1. l + c > Len(all)
        BY <1>1, <3>3
      <4>2. f[l + c] = <<>> /\ h[c] = <<>>
        BY <3>2, <3>3, <4>1 DEF Unfold
      <4>. QED  BY <4>2
    <3>4. CASE c <= m
      <4>1. c \in 1..m /\ ~(c > m) /\ ~(l + c > Len(all))
        BY <1>1, <3>4
      <4>2. /\ After(all, l + c) = l + After(b, c)
            /\ PacketAt(all, l + c) = PacketAt(b, c)
        BY <4>1, SecondPart DEF all
      <4>3. After(b, c) \in Nat /\ After(b, c) > c
        BY <4>1, AfterNat
      <4>4. After(all, l + c) <= Len(all) <=> After(b, c) <= m
        BY <1>1, <4>2, <4>3
      <4>5. After(b, c) <= m => f[After(all, l + c)] = h[After(b, c)]
        <5>1. SUFFICES ASSUME After(b, c) <= m PROVE f[l + After(b, c)] = h[After(b, c)]
          BY <4>2
        <5>2. After(b, c) \in (c + 1)..(m + 1)
          <6>. DEFINE d == After(b, c)
          <6>1. d \in Nat /\ c < d /\ d <= m /\ m \in Nat /\ c \in Nat
            BY <1>1, <4>1, <4>3, <5>1
          <6>. HIDE DEF d, m, S
          <6>2. d \in (c + 1)..(m + 1)
            BY <6>1
          <6>. QED  BY <6>2 DEF d
        <5>3. After(b, c) \in S
          BY <2>1, <5>2
        <5>. QED  BY <5>3
      <4>. QED  BY <3>2, <4>1, <4>2, <4>4, <4>5 DEF Unfold
    <3>. QED  BY <1>1, <3>3, <3>4
  <2>. HIDE DEF S
  <2>2. \A c \in 1..(m + 1) : c \in S
    BY <1>1, <2>1, Downward
  <2>. QED  BY <2>2 DEF S
<1>6. PICK B \in SUBSET (1..(l + 1)) : 1 \in B /\ \A c \in B : c <= l => After(a, c) \in B
  BY DEF Complete
<1>7. h[1] \in Seq(RegisterWrite) /\ g[l + 1] = <<>> /\ f[n + 1] = <<>>
  <2>1. \A c \in 1..(m + 1) : h[c] \in Seq(RegisterWrite)
    BY <1>3, UnfoldTyped
  <2>2. g[l + 1] = <<>>
    BY <1>2, UnfoldTyped
  <2>3. f[Len(all) + 1] = <<>>
    BY <1>1, <1>4, UnfoldTyped
  <2>. QED  BY <1>1, <2>1, <2>2, <2>3
<1>8. \A c \in 1..(l + 1) : g[c] \in Seq(RegisterWrite)
  BY <1>2, UnfoldTyped
<1>9. \A c \in 1..(l + 1) : c \in B => f[c] = g[c] \o h[1]
  <2>. DEFINE S == {c \in 1..(l + 1) : c \in B => f[c] = g[c] \o h[1]}
  <2>1. ASSUME NEW c \in 1..(l + 1), \A d \in (c + 1)..(l + 1) : d \in S
        PROVE  c \in S
    <3>. SUFFICES ASSUME c \in B PROVE f[c] = g[c] \o h[1]
      OBVIOUS
    <3>1. CASE c = l + 1
      <4>1. f[l + 1] = h[1] /\ g[c] = <<>>
        <5>1. 1 \in 1..(m + 1)
          BY <1>1
        <5>. QED  BY <1>5, <1>7, <3>1, <5>1
      <4>2. <<>> \o h[1] = h[1]
        BY <1>7, ConcatEmptySeq
      <4>. QED  BY <3>1, <4>1, <4>2
    <3>2. CASE c # l + 1
      <4>1. c \in 1..l /\ c \in 1..(n + 1) /\ ~(c > l) /\ ~(c > Len(all))
        BY <1>1, <3>2
      <4>2. After(a, c) \in B /\ After(a, c) \in (c + 1)..(l + 1)
        <5>1. After(a, c) \in B /\ After(a, c) \in 1..(l + 1)
          <6>1. c <= l
            BY <1>1, <4>1
          <6>2. After(a, c) \in B
            BY <1>6, <6>1, Zenon
          <6>. QED  BY <1>6, <6>2, Zenon
        <5>2. After(a, c) \in Nat /\ After(a, c) > c
          BY <4>1, AfterNat
        <5>. QED  BY <1>1, <4>1, <5>1, <5>2
      <4>3. f[After(a, c)] = g[After(a, c)] \o h[1]
        <5>1. After(a, c) \in S
          BY <2>1, <4>2
        <5>. QED  BY <4>2, <5>1
      <4>4. After(all, c) = After(a, c) /\ PacketAt(all, c) = PacketAt(a, c)
        BY <4>1, <4>2, FirstPart DEF all
      <4>5. g[c] = PacketAt(a, c) \o g[After(a, c)]
        <5>1. g[c] = Unfold(a, g, c)
          BY <1>2
        <5>2. ~(After(a, c) <= l) => g[After(a, c)] = <<>>
          <6>. DEFINE d == After(a, c)
          <6>1. d \in (c + 1)..(l + 1) /\ l \in Nat /\ c \in Nat
            BY <1>1, <4>1, <4>2
          <6>. HIDE DEF d, l, S
          <6>2. ~(d <= l) => d = l + 1
            BY <6>1
          <6>. QED  BY <1>7, <6>2 DEF d
        <5>. QED  BY <4>1, <5>1, <5>2 DEF Unfold
      <4>6. f[c] = PacketAt(a, c) \o f[After(a, c)]
        <5>1. f[c] = Unfold(all, f, c)
          BY <1>4, <4>1
        <5>2. ~(After(all, c) <= Len(all)) => f[After(a, c)] = <<>>
          <6>1. \A x \in (c + 1)..(l + 1) : ~(x <= n) => x = n + 1
            <7>1. c \in Nat /\ l <= n
              BY <1>1, <4>1
            <7>. HIDE DEF l, m, n, S
            <7>. QED  BY <1>1, <7>1
          <6>. QED  BY <1>1, <1>7, <4>2, <4>4, <6>1
        <5>. QED  BY <4>1, <4>4, <5>1, <5>2 DEF Unfold
      <4>7. PacketAt(a, c) \in Seq(RegisterWrite) /\ g[After(a, c)] \in Seq(RegisterWrite)
        <5>1. PacketAt(a, c) \in Seq(RegisterWrite)
          BY <4>1, PacketIs
        <5>. QED  BY <1>6, <1>8, <4>2, <5>1
      <4>8. (PacketAt(a, c) \o g[After(a, c)]) \o h[1]
                = PacketAt(a, c) \o (g[After(a, c)] \o h[1])
        <5>. DEFINE p == PacketAt(a, c)
                    q == g[After(a, c)]
                    r == h[1]
        <5>1. p \in Seq(RegisterWrite) /\ q \in Seq(RegisterWrite) /\ r \in Seq(RegisterWrite)
          BY <1>7, <4>7
        <5>. HIDE DEF p, q, r
        <5>2. (p \o q) \o r = p \o (q \o r)
          BY <5>1, WritesAssociative, Zenon
        <5>. QED  BY <5>2 DEF p, q, r
      <4>. QED  BY <4>3, <4>5, <4>6, <4>8
    <3>. QED  BY <3>1, <3>2
  <2>. HIDE DEF S
  <2>2. \A c \in 1..(l + 1) : c \in S
    BY <1>1, <2>1, Downward
  <2>. QED  BY <2>2 DEF S
<1>10. f[1] = g[1] \o h[1]
  BY <1>6, <1>9
<1>. QED  BY <1>2, <1>3, <1>4, <1>10 DEF all

-----------------------------------------------------------------------------
(* Packets *)

\* A header is read as it was written.
LEMMA HeaderRoundTrip ==
    ASSUME NEW reg \in 0..(RegSpace - 1), NEW count \in 0..(CountSpace - 1),
           NEW sequential \in BOOLEAN
    PROVE  LET word == Encode(reg, count, sequential) IN
           /\ word \in Nat
           /\ HeaderReg(word) = reg
           /\ HeaderCount(word) = count
           /\ HeaderSequential(word) = sequential
<1>. DEFINE word == Encode(reg, count, sequential)
            flag == IF sequential THEN 1 ELSE 0
            upper == flag * CountSpace + count
            lower == reg + RegSpace * count
            space == RegSpace * CountSpace
<1>1. /\ RegSpace \in Nat \ {0} /\ CountSpace \in Nat \ {0}
      /\ flag \in {0, 1} /\ reg \in Nat /\ count \in Nat
  BY PicaAssumption
<1>2. RegSpace * count \in Nat /\ space \in Nat
  BY <1>1, ProductNat
<1>3. flag * CountSpace \in Nat /\ flag * CountSpace = IF sequential THEN CountSpace ELSE 0
  BY <1>1
<1>4. upper \in Nat
  BY <1>1, <1>3
<1>5. upper * RegSpace = (flag * CountSpace) * RegSpace + count * RegSpace
  <2>. HIDE DEF flag
  <2>. QED  BY <1>1, <1>3, Distribute DEF upper
<1>6. (flag * CountSpace) * RegSpace = IF sequential THEN space ELSE 0
  BY <1>1, <1>3
<1>7. count * RegSpace = RegSpace * count
  BY <1>1
<1>8. word = upper * RegSpace + reg
  <2>1. word = reg + RegSpace * count + (IF sequential THEN space ELSE 0)
    BY DEF Encode
  <2>. HIDE DEF word, upper, space, flag
  <2>. QED  BY <1>1, <1>2, <1>5, <1>6, <1>7, <2>1
<1>9. lower \in 0..(space - 1) /\ space \in Nat \ {0}
  <2>1. count + 1 <= CountSpace
    BY <1>1
  <2>2. PICK d \in Nat : CountSpace = (count + 1) + d
    <3>1. CountSpace - (count + 1) \in Nat /\ CountSpace = (count + 1) + (CountSpace - (count + 1))
      BY <1>1, <2>1
    <3>. QED  BY <3>1
  <2>3. /\ ((count + 1) + d) * RegSpace = (count + 1) * RegSpace + d * RegSpace
        /\ (count + 1) * RegSpace = count * RegSpace + 1 * RegSpace
        /\ d * RegSpace \in Nat
    BY <1>1, <2>2, Distribute, ProductNat
  <2>4. space = CountSpace * RegSpace
    BY <1>1
  <2>5. space = RegSpace * count + RegSpace + d * RegSpace
    <3>. HIDE DEF space
    <3>. QED  BY <1>1, <1>2, <1>7, <2>2, <2>3, <2>4
  <2>. HIDE DEF space
  <2>. QED  BY <1>1, <1>2, <2>3, <2>5
<1>10. word = flag * space + lower
  <2>1. word = reg + RegSpace * count + (IF sequential THEN space ELSE 0)
    BY DEF Encode
  <2>2. flag * space = IF sequential THEN space ELSE 0
    BY <1>2
  <2>. HIDE DEF word, space, flag
  <2>. QED  BY <1>1, <1>2, <2>1, <2>2
<1>. HIDE DEF word, upper, lower, space
<1>11. word \div RegSpace = upper /\ word % RegSpace = reg
  BY <1>1, <1>4, <1>8, DivUnique
<1>12. upper % CountSpace = count
  <2>. HIDE DEF flag
  <2>. QED  BY <1>1, DivUnique DEF upper
<1>13. word \div space = flag
  <2>1. flag \in Nat
    BY <1>1
  <2>. HIDE DEF flag
  <2>. QED  BY <1>9, <1>10, <2>1, DivUnique
<1>14. (flag % 2 = 1) = sequential
  OBVIOUS
<1>15. word \in Nat
  <2>1. upper * RegSpace \in Nat
    BY <1>1, <1>4, ProductNat
  <2>. QED  BY <1>1, <1>8, <2>1
<1>. HIDE DEF flag
<1>. QED  BY <1>11, <1>12, <1>13, <1>14, <1>15
          DEF word, space, HeaderReg, HeaderCount, HeaderSequential

\* A packet that has the values it counts; a count of zero stands for one.
Whole(reg, count, sequential, values) ==
    /\ reg \in 0..(RegSpace - 1) /\ count \in 0..(CountSpace - 1) /\ sequential \in BOOLEAN
    /\ values \in Seq(Nat)
    /\ Len(values) = IF count = 0 THEN 1 ELSE count

\* The words of a packet are decoded to the writes it asks for.
Decoded(words, reg, sequential, values) ==
    /\ words \in Seq(Nat)
    /\ Complete(words)
    /\ Decode(words) = [i \in DOMAIN values |->
                           [reg |-> TargetReg(reg, sequential, i), value |-> values[i]]]

THEOREM PacketDecodes ==
    ASSUME NEW reg, NEW count, NEW sequential, NEW values,
           Whole(reg, count, sequential, values)
    PROVE  Decoded(<<Encode(reg, count, sequential)>> \o values, reg, sequential, values)
<1>. DEFINE word == Encode(reg, count, sequential)
            words == <<word>> \o values
            n == Len(values)
<1>1. /\ word \in Nat /\ HeaderReg(word) = reg /\ HeaderCount(word) = count
      /\ HeaderSequential(word) = sequential
  BY HeaderRoundTrip DEF Whole
<1>. HIDE DEF word
<1>2. values \in Seq(Nat) /\ n \in Nat /\ PayloadLength(word) = n
  BY <1>1 DEF Whole, PayloadLength
<1>3. <<word>> \in Seq(Nat) /\ Len(<<word>>) = 1 /\ <<word>>[1] = word
  BY <1>1
<1>4. /\ words \in Seq(Nat) /\ Len(words) = 1 + n /\ words[1] = word
      /\ \A i \in 1..n : words[1 + i] = values[i]
  <2>. DEFINE head == <<word>>
  <2>1. head \in Seq(Nat) /\ Len(head) = 1 /\ head[1] = word /\ 1 \in 1..Len(head)
    BY <1>3
  <2>. HIDE DEF head
  <2>2. /\ head \o values \in Seq(Nat)
        /\ Len(head \o values) = Len(head) + Len(values)
        /\ \A i \in 1..Len(head) : (head \o values)[i] = head[i]
        /\ \A i \in 1..Len(values) : (head \o values)[Len(head) + i] = values[i]
    BY <1>2, <2>1, JoinIs, Zenon
  <2>. QED  BY <2>1, <2>2, Zenon DEF head
<1>. HIDE DEF words, n
<1>5. After(words, 1) = 1 + n + 1
  BY <1>2, <1>4 DEF After
<1>6. Complete(words)
  <2>1. {1, n + 2} \in SUBSET (1..(Len(words) + 1))
    BY <1>2, <1>4
  <2>2. \A c \in {1, n + 2} : c <= Len(words) => After(words, c) \in {1, n + 2}
    BY <1>2, <1>4, <1>5
  <2>. QED  BY <2>1, <2>2 DEF Complete
<1>7. 1 \in 1..Len(words) /\ Size(words, 1) = n
  BY <1>2, <1>4, <1>5 DEF Size
<1>8. PacketAt(words, 1) = [i \in 1..n |-> [reg |-> TargetReg(reg, sequential, i),
                                            value |-> values[i]]]
  <2>1. PacketAt(words, 1) = [i \in 1..n |-> WriteAt(words, 1, i)]
    BY <1>4, <1>7, PacketIs
  <2>2. \A i \in 1..n : WriteAt(words, 1, i) = [reg |-> TargetReg(reg, sequential, i),
                                                value |-> values[i]]
    BY <1>1, <1>4 DEF WriteAt
  <2>. QED  BY <2>1, <2>2
<1>9. PICK g : g = [c \in 1..(Len(words) + 1) |-> Unfold(words, g, c)] /\ Decode(words) = g[1]
  BY <1>4, DecodeUnfolds
<1>10. Decode(words) = PacketAt(words, 1) \o <<>>
  <2>1. 1 \in 1..(Len(words) + 1) /\ ~(1 > Len(words)) /\ ~(After(words, 1) <= Len(words))
    BY <1>2, <1>4, <1>5
  <2>2. g[1] = Unfold(words, g, 1)
    BY <1>9, <2>1
  <2>. QED  BY <1>9, <2>1, <2>2 DEF Unfold
<1>11. Decode(words) = PacketAt(words, 1)
  <2>1. PacketAt(words, 1) \in Seq(RegisterWrite)
    BY <1>4, <1>7, PacketIs
  <2>. QED  BY <1>10, <2>1, ConcatEmptySeq
<1>12. DOMAIN values = 1..n
  BY <1>2 DEF n
<1>. QED  BY <1>4, <1>6, <1>8, <1>11, <1>12 DEF words, word, Decoded

-----------------------------------------------------------------------------
(* Folds *)

LEMMA Greatest ==
    ASSUME NEW n \in Nat, NEW s, s \subseteq 1..n, s # {}
    PROVE  Max(s) \in s /\ \A x \in s : Max(s) >= x
<1>. DEFINE Below == {n - x : x \in s}
<1>1. \A x \in s : x \in Nat /\ n - x \in Nat
  OBVIOUS
<1>2. Below \subseteq Nat /\ Below # {}
  BY <1>1
<1>3. PICK d \in Below : \A e \in Below : d <= e
  <2>. HIDE DEF Below
  <2>. QED  BY <1>2, Least
<1>4. PICK m \in s : d = n - m
  BY <1>3
<1>5. ASSUME NEW x \in s
      PROVE  m >= x
  <2>1. n - m <= n - x
    BY <1>3, <1>4
  <2>. QED  BY <1>1, <2>1
<1>6. \E y \in s : \A x \in s : y >= x
  BY <1>5
<1>. QED  BY <1>6 DEF Max

LEMMA UpTo ==
    ASSUME NEW n \in Nat, NEW k \in 1..n
    PROVE  /\ 1..k \in SUBSET (1..n) /\ 1..k # {} /\ k - 1 \in 0..n /\ k \in 0..n
           /\ Max(1..k) = k /\ (1..k) \ {k} = 1..(k - 1)
<1>. DEFINE top == 1..k
<1>1. k \in Nat /\ k - 1 \in 0..n /\ k \in 0..n /\ k \in top
  OBVIOUS
<1>2. \A x \in top : x \in 1..n
  OBVIOUS
<1>3. top \ {k} = 1..(k - 1)
  OBVIOUS
<1>4. \A x \in top : x >= k => x = k
  OBVIOUS
<1>5. top \subseteq 1..k /\ top # {}
  BY <1>1
<1>. HIDE DEF top
<1>6. Max(top) \in top /\ \A x \in top : Max(top) >= x
  BY <1>1, <1>5, Greatest
<1>7. Max(top) = k
  BY <1>1, <1>4, <1>6
<1>. QED  BY <1>1, <1>2, <1>3, <1>5, <1>7 DEF top

\* The recursive function that the library's fold of a sequence is: its
\* argument is the set of the places still to fold, of which the greatest
\* comes last.
IsFold(f, n, G, base, step) ==
    /\ f \in [SUBSET (1..n) -> G]
    /\ \A s \in SUBSET (1..n) :
          f[s] = IF s = {} THEN base ELSE step[<<f[s \ {Max(s)}], Max(s)>>]

LEMMA FoldExists ==
    ASSUME NEW n \in Nat, NEW G, NEW base \in G, NEW step \in [G \X (1..n) -> G]
    PROVE  \E f : IsFold(f, n, G, base, step)
<1>. DEFINE Is(f, k) == \A s \in SUBSET (1..k) :
                f[s] = IF s = {} THEN base ELSE step[<<f[s \ {Max(s)}], Max(s)>>]
            K == {k \in 0..n : \E f \in [SUBSET (1..k) -> G] : Is(f, k)}
<1>1. 0 \in K
  <2>. DEFINE f == [s \in SUBSET (1..0) |-> base]
  <2>1. f \in [SUBSET (1..0) -> G] /\ 0 \in 0..n
    OBVIOUS
  <2>2. \A s \in SUBSET (1..0) : s = {} /\ f[s] = base
    OBVIOUS
  <2>3. Is(f, 0)
    BY <2>2
  <2>. HIDE DEF f, Is
  <2>. QED  BY <2>1, <2>3
<1>2. ASSUME NEW k \in 0..(n - 1), k \in K
      PROVE  k + 1 \in K
  <2>1. PICK f \in [SUBSET (1..k) -> G] : Is(f, k)
    BY <1>2
  <2>. DEFINE h == [s \in SUBSET (1..(k + 1)) |->
                      IF s \subseteq 1..k THEN f[s] ELSE step[<<f[s \ {k + 1}], k + 1>>]]
  <2>2. k \in Nat /\ k + 1 \in Nat /\ k + 1 \in 1..n /\ k + 1 \in 0..n
    OBVIOUS
  <2>3. ASSUME NEW s \in SUBSET (1..(k + 1)), s \subseteq 1..k
        PROVE  h[s] \in G /\ h[s] = f[s]
    BY <2>3
  <2>4. ASSUME NEW s \in SUBSET (1..(k + 1)), ~(s \subseteq 1..k)
        PROVE  /\ h[s] = step[<<f[s \ {k + 1}], k + 1>>]
               /\ k + 1 \in s /\ s \ {k + 1} \subseteq 1..k
               /\ h[s] \in G
    <3>1. k + 1 \in s /\ s \ {k + 1} \subseteq 1..k
      BY <2>2, <2>4
    <3>2. f[s \ {k + 1}] \in G
      BY <3>1
    <3>3. h[s] = step[<<f[s \ {k + 1}], k + 1>>]
      BY <2>4
    <3>4. <<f[s \ {k + 1}], k + 1>> \in G \X (1..n)
      BY <2>2, <3>2
    <3>. QED  BY <3>1, <3>3, <3>4
  <2>5. h \in [SUBSET (1..(k + 1)) -> G]
    <3>1. \A s \in SUBSET (1..(k + 1)) : h[s] \in G
      BY <2>3, <2>4
    <3>2. h = [s \in SUBSET (1..(k + 1)) |-> h[s]]
      OBVIOUS
    <3>. HIDE DEF h
    <3>. QED  BY <3>1, <3>2
  <2>6. ASSUME NEW s \in SUBSET (1..(k + 1))
        PROVE  h[s] = IF s = {} THEN base ELSE step[<<h[s \ {Max(s)}], Max(s)>>]
    <3>1. CASE s \subseteq 1..k
      <4>1. s \ {Max(s)} \subseteq 1..k /\ s \ {Max(s)} \in SUBSET (1..(k + 1))
        BY <3>1
      <4>2. h[s] = f[s] /\ h[s \ {Max(s)}] = f[s \ {Max(s)}]
        <5>. HIDE DEF h
        <5>. QED  BY <2>3, <3>1, <4>1
      <4>3. f[s] = IF s = {} THEN base ELSE step[<<f[s \ {Max(s)}], Max(s)>>]
        BY <2>1, <3>1
      <4>. HIDE DEF h
      <4>. QED  BY <4>2, <4>3
    <3>2. CASE ~(s \subseteq 1..k)
      <4>1. /\ h[s] = step[<<f[s \ {k + 1}], k + 1>>]
            /\ k + 1 \in s /\ s \ {k + 1} \subseteq 1..k
        <5>. HIDE DEF h
        <5>. QED  BY <2>4, <3>2
      <4>2. Max(s) = k + 1 /\ s # {}
        <5>1. s # {} /\ s \subseteq 1..(k + 1)
          BY <4>1
        <5>2. Max(s) \in s /\ \A x \in s : Max(s) >= x
          BY <2>2, <5>1, Greatest
        <5>3. \A x \in 1..(k + 1) : x >= k + 1 => x = k + 1
          BY <2>2
        <5>. QED  BY <4>1, <5>1, <5>2, <5>3, Zenon
      <4>3. h[s \ {k + 1}] = f[s \ {k + 1}]
        <5>1. s \ {k + 1} \in SUBSET (1..(k + 1))
          OBVIOUS
        <5>. HIDE DEF h
        <5>. QED  BY <2>3, <4>1, <5>1
      <4>. HIDE DEF h
      <4>. QED  BY <4>1, <4>2, <4>3
    <3>. QED  BY <3>1, <3>2
  <2>7. Is(h, k + 1)
    <3>. HIDE DEF h
    <3>. QED  BY <2>6
  <2>. HIDE DEF h, Is
  <2>. QED  BY <2>2, <2>5, <2>7
<1>3. \A k \in 0..n : k \in K
  <2>. HIDE DEF K
  <2>. QED  BY <1>1, <1>2, Upward
<1>4. \E f \in [SUBSET (1..n) -> G] : Is(f, n)
  <2>1. n \in K
    <3>. HIDE DEF K
    <3>. QED  BY <1>3
  <2>. HIDE DEF Is
  <2>. QED  BY <2>1
<1>. QED  BY <1>4, Zenon DEF IsFold

-----------------------------------------------------------------------------
(* Register writes *)

ShaderOp == {"XorConst", "RotateChannels"}

Screen == [color : Int, shader : Seq(ShaderOp), constant : Nat, format : Nat]

GpuState ==
    [microcode : Seq(Nat), constant : Nat, shader : Seq(ShaderOp), format : Nat,
     screen : Screen, trace : Seq(RegisterWrite), events : Nat]

LEMMA NewGpuTyped == NewGpu \in GpuState
BY DEF NewGpu, NoClear, GpuState, Screen

LEMMA TranslateTyped ==
    ASSUME NEW code \in Seq(Nat)
    PROVE  Translate(code) \in Seq(ShaderOp)
<1>1. DOMAIN code = 1..Len(code) /\ Len(code) \in Nat
  OBVIOUS
<1>2. \A i \in 1..Len(code) :
         (IF code[i] % 2 = 0 THEN "XorConst" ELSE "RotateChannels") \in ShaderOp
  BY DEF ShaderOp
<1>. HIDE DEF ShaderOp
<1>3. Translate(code) \in [1..Len(code) -> ShaderOp]
  BY <1>1, <1>2 DEF Translate
<1>. QED  BY <1>1, <1>3

LEMMA ApplyTyped ==
    ASSUME NEW g \in GpuState, NEW w \in RegisterWrite
    PROVE  Apply(g, w) \in GpuState
<1>. DEFINE t == Traced(g, w)
<1>1. w.reg \in Int /\ w.value \in Nat /\ w.value % 2 \in Nat
  BY PicaAssumption DEF RegisterWrite
<1>2. t \in GpuState
  <2>1. Append(g.trace, w) \in Seq(RegisterWrite)
    BY DEF GpuState
  <2>. HIDE DEF RegisterWrite, ShaderOp, Screen
  <2>. QED  BY <2>1 DEF GpuState, Traced
<1>3. Append(t.microcode, w.value) \in Seq(Nat)
  <2>. HIDE DEF t
  <2>. QED  BY <1>1, <1>2 DEF GpuState
<1>4. Translate(t.microcode) \in Seq(ShaderOp)
  BY <1>2, TranslateTyped DEF GpuState
<1>5. [color |-> w.value, shader |-> t.shader, constant |-> t.constant,
       format |-> t.format] \in Screen
  <2>. HIDE DEF t, ShaderOp
  <2>1. t.shader \in Seq(ShaderOp) /\ t.constant \in Nat /\ t.format \in Nat
    BY <1>2 DEF GpuState
  <2>2. w.value \in Int
    BY <1>1
  <2>. QED  BY <2>1, <2>2 DEF Screen
<1>6. \/ Apply(g, w) = [t EXCEPT !.microcode = Append(@, w.value)]
      \/ Apply(g, w) = [t EXCEPT !.constant = w.value, !.shader = Translate(t.microcode)]
      \/ Apply(g, w) = [t EXCEPT !.screen = [color |-> w.value, shader |-> t.shader,
                                             constant |-> t.constant, format |-> t.format]]
      \/ Apply(g, w) = [t EXCEPT !.format = w.value % 2]
      \/ Apply(g, w) = [t EXCEPT !.events = @ + 1]
      \/ Apply(g, w) = t
  <2>. HIDE DEF Traced, Translate, Draws
  <2>. QED  BY DEF Apply
<1>. HIDE DEF t, RegisterWrite, ShaderOp, Screen
<1>7. [t EXCEPT !.microcode = Append(@, w.value)] \in GpuState
  BY <1>2, <1>3 DEF GpuState
<1>8. [t EXCEPT !.constant = w.value, !.shader = Translate(t.microcode)] \in GpuState
  BY <1>1, <1>2, <1>4 DEF GpuState
<1>9. [t EXCEPT !.screen = [color |-> w.value, shader |-> t.shader,
                            constant |-> t.constant, format |-> t.format]] \in GpuState
  BY <1>2, <1>5 DEF GpuState
<1>10. [t EXCEPT !.format = w.value % 2] \in GpuState /\ [t EXCEPT !.events = @ + 1] \in GpuState
  <2>1. t.events \in Nat /\ t.events + 1 \in Nat
    BY <1>2 DEF GpuState
  <2>2. [t EXCEPT !.format = w.value % 2] \in GpuState
    BY <1>1, <1>2 DEF GpuState
  <2>3. [t EXCEPT !.events = t.events + 1] \in GpuState
    BY <1>2, <2>1 DEF GpuState
  <2>. QED  BY <2>2, <2>3
<1>. QED  BY <1>2, <1>6, <1>7, <1>8, <1>9, <1>10, Zenon

\* The states of a GPU from g on, as the writes are applied one by one.
AppliedFrom(F, g, ws) ==
    /\ F[0] = g
    /\ \A k \in 1..Len(ws) : F[k] = Apply(F[k - 1], ws[k])

LEMMA AppliedTyped ==
    ASSUME NEW g \in GpuState, NEW ws \in Seq(RegisterWrite), NEW F, AppliedFrom(F, g, ws)
    PROVE  \A k \in 0..Len(ws) : F[k] \in GpuState
<1>. DEFINE n == Len(ws)
            K == {k \in 0..n : F[k] \in GpuState}
<1>1. 0 \in K
  BY DEF AppliedFrom
<1>2. ASSUME NEW k \in 0..(n - 1), k \in K
      PROVE  k + 1 \in K
  <2>1. k + 1 \in 1..n /\ k + 1 \in 0..n /\ (k + 1) - 1 = k /\ ws[k + 1] \in RegisterWrite
    OBVIOUS
  <2>2. F[k + 1] = Apply(F[k], ws[k + 1])
    <3>1. F[k + 1] = Apply(F[(k + 1) - 1], ws[k + 1])
      BY <2>1, Zenon DEF AppliedFrom
    <3>. QED  BY <2>1, <3>1
  <2>3. F[k] \in GpuState
    BY <1>2
  <2>4. F[k + 1] \in GpuState
    BY <2>1, <2>2, <2>3, ApplyTyped
  <2>. QED  BY <2>1, <2>4
<1>. HIDE DEF K
<1>3. \A k \in 0..n : k \in K
  BY <1>1, <1>2, Upward
<1>. QED  BY <1>3 DEF K

LEMMA AppliedSame ==
    ASSUME NEW g, NEW ws \in Seq(RegisterWrite), NEW F, NEW H,
           AppliedFrom(F, g, ws), AppliedFrom(H, g, ws)
    PROVE  \A k \in 0..Len(ws) : F[k] = H[k]
<1>. DEFINE n == Len(ws)
            K == {k \in 0..n : F[k] = H[k]}
<1>1. 0 \in K
  BY DEF AppliedFrom
<1>2. ASSUME NEW k \in 0..(n - 1), k \in K
      PROVE  k + 1 \in K
  <2>1. k + 1 \in 1..n /\ k + 1 \in 0..n /\ (k + 1) - 1 = k
    OBVIOUS
  <2>2. /\ F[k + 1] = Apply(F[(k + 1) - 1], ws[k + 1])
        /\ H[k + 1] = Apply(H[(k + 1) - 1], ws[k + 1])
    BY <2>1, Zenon DEF AppliedFrom
  <2>3. F[(k + 1) - 1] = H[(k + 1) - 1]
    BY <1>2, <2>1
  <2>. QED  BY <2>1, <2>2, <2>3
<1>. HIDE DEF K
<1>3. \A k \in 0..n : k \in K
  BY <1>1, <1>2, Upward
<1>. QED  BY <1>3 DEF K

LEMMA AppliedExists ==
    ASSUME NEW g \in GpuState, NEW ws \in Seq(RegisterWrite)
    PROVE  \E F : AppliedFrom(F, g, ws) /\ FoldLeft(Apply, g, ws) = F[Len(ws)]
<1>. DEFINE n == Len(ws)
            apply == [x \in GpuState \X (1..n) |-> Apply(x[1], ws[x[2]])]
<1>1. n \in Nat /\ DOMAIN ws = 1..n /\ \A i \in 1..n : ws[i] \in RegisterWrite
  OBVIOUS
<1>. HIDE DEF n, RegisterWrite, GpuState
<1>2. apply \in [GpuState \X (1..n) -> GpuState]
  <2>1. \A x \in GpuState \X (1..n) : Apply(x[1], ws[x[2]]) \in GpuState
    BY <1>1, ApplyTyped
  <2>. QED  BY <2>1
<1>3. \A h \in GpuState, i \in 1..n : apply[<<h, i>>] = Apply(h, ws[i])
  OBVIOUS
<1>. HIDE DEF apply
<1>4. PICK f : IsFold(f, n, GpuState, g, apply)
  BY <1>1, <1>2, FoldExists, Zenon
<1>5. \A s \in SUBSET (1..n) :
          f[s] = IF s = {} THEN g ELSE Apply(f[s \ {Max(s)}], ws[Max(s)])
  <2>. SUFFICES ASSUME NEW s \in SUBSET (1..n), s # {}
                PROVE  f[s] = Apply(f[s \ {Max(s)}], ws[Max(s)])
    BY <1>4 DEF IsFold
  <2>1. Max(s) \in 1..n
    BY <1>1, Greatest
  <2>2. f[s \ {Max(s)}] \in GpuState
    BY <1>4 DEF IsFold
  <2>. QED  BY <1>3, <1>4, <2>1, <2>2 DEF IsFold
<1>. DEFINE Is(c) == c = [s \in SUBSET (DOMAIN ws) |->
                            IF s = {} THEN g ELSE Apply(c[s \ {Max(s)}], ws[Max(s)])]
            C == CHOOSE c : Is(c)
<1>6. Is(f)
  <2>1. f = [s \in SUBSET (1..n) |-> f[s]]
    BY <1>4 DEF IsFold
  <2>. QED  BY <1>1, <1>5, <2>1
<1>7. Is(C)
  <2>. HIDE DEF Is
  <2>. QED  BY <1>6, Zenon
<1>8. FoldLeft(Apply, g, ws) = C[DOMAIN ws]
  BY Zenon DEF FoldLeft, MapThenFoldSet
<1>9. \A s \in SUBSET (1..n) :
          C[s] = IF s = {} THEN g ELSE Apply(C[s \ {Max(s)}], ws[Max(s)])
  <2>. HIDE DEF C
  <2>. QED  BY <1>1, <1>7
<1>. HIDE DEF C, Is
<1>. DEFINE F == [k \in 0..n |-> C[1..k]]
<1>10. F[0] = g
  <2>1. 1..0 = {} /\ {} \in SUBSET (1..n) /\ 0 \in 0..n
    BY <1>1
  <2>. QED  BY <1>9, <2>1
<1>11. ASSUME NEW k \in 1..n
       PROVE  F[k] = Apply(F[k - 1], ws[k])
  <2>1. /\ 1..k \in SUBSET (1..n) /\ 1..k # {} /\ k - 1 \in 0..n /\ k \in 0..n
        /\ Max(1..k) = k /\ (1..k) \ {k} = 1..(k - 1)
    BY <1>1, UpTo
  <2>2. C[1..k] = Apply(C[(1..k) \ {Max(1..k)}], ws[Max(1..k)])
    <3>. HIDE DEF F
    <3>. QED  BY <1>9, <2>1
  <2>. QED  BY <2>1, <2>2
<1>12. F[n] = C[DOMAIN ws]
  BY <1>1
<1>. HIDE DEF F
<1>. QED  BY <1>8, <1>10, <1>11, <1>12 DEF AppliedFrom, n

\* The fold of Apply is what is left when the last write has been applied.
LEMMA FoldApplied ==
    ASSUME NEW g \in GpuState, NEW ws \in Seq(RegisterWrite), NEW F, AppliedFrom(F, g, ws)
    PROVE  FoldLeft(Apply, g, ws) = F[Len(ws)]
<1>1. PICK H : AppliedFrom(H, g, ws) /\ FoldLeft(Apply, g, ws) = H[Len(ws)]
  BY AppliedExists
<1>2. Len(ws) \in 0..Len(ws)
  OBVIOUS
<1>. QED  BY <1>1, <1>2, AppliedSame

LEMMA FoldTyped ==
    ASSUME NEW g \in GpuState, NEW ws \in Seq(RegisterWrite)
    PROVE  FoldLeft(Apply, g, ws) \in GpuState
<1>1. Len(ws) \in 0..Len(ws)
  OBVIOUS
<1>. QED  BY <1>1, AppliedExists, AppliedTyped

\* Applying one sequence of writes and then another is applying both.
LEMMA FoldJoin ==
    ASSUME NEW g \in GpuState, NEW a \in Seq(RegisterWrite), NEW b \in Seq(RegisterWrite)
    PROVE  FoldLeft(Apply, g, a \o b) = FoldLeft(Apply, FoldLeft(Apply, g, a), b)
<1>. DEFINE all == a \o b
            l == Len(a)
            m == Len(b)
            mid == FoldLeft(Apply, g, a)
<1>1. /\ all \in Seq(RegisterWrite) /\ Len(all) = l + m
      /\ \A i \in 1..l : all[i] = a[i]
      /\ \A i \in (l + 1)..(l + m) : all[i] = b[i - l]
  <2>1. /\ all \in Seq(RegisterWrite) /\ Len(all) = l + m
        /\ \A i \in 1..l + m : all[i] = IF i <= l THEN a[i] ELSE b[i - l]
    BY ConcatProperties
  <2>2. l \in Nat /\ m \in Nat
    OBVIOUS
  <2>. HIDE DEF all, l, m
  <2>3. \A i \in 1..l : i \in 1..l + m /\ i <= l
    BY <2>2
  <2>4. \A i \in (l + 1)..(l + m) : i \in 1..l + m /\ ~(i <= l)
    BY <2>2
  <2>. QED  BY <2>1, <2>3, <2>4
<1>2. l \in Nat /\ m \in Nat
  OBVIOUS
<1>3. mid \in GpuState
  BY FoldTyped
<1>4. PICK F : AppliedFrom(F, g, a) /\ mid = F[l]
  BY AppliedExists
<1>. HIDE DEF all, mid
<1>5. PICK H : AppliedFrom(H, mid, b) /\ FoldLeft(Apply, mid, b) = H[m]
  BY <1>3, AppliedExists
<1>. HIDE DEF l, m
<1>. DEFINE J == [k \in 0..(l + m) |-> IF k <= l THEN F[k] ELSE H[k - l]]
<1>6. \A k \in 1..l : F[k] = Apply(F[k - 1], a[k])
  BY <1>4 DEF AppliedFrom, l
<1>7. H[0] = mid /\ \A k \in 1..m : H[k] = Apply(H[k - 1], b[k])
  BY <1>5 DEF AppliedFrom, m
<1>8. J[0] = g
  BY <1>2, <1>4 DEF AppliedFrom
<1>9. ASSUME NEW k \in 1..(l + m)
      PROVE  J[k] = Apply(J[k - 1], all[k])
  <2>1. CASE k <= l
    <3>1. /\ k \in 1..l /\ k \in 0..(l + m) /\ k - 1 \in 0..(l + m) /\ k - 1 <= l
      BY <1>2, <2>1
    <3>2. J[k] = F[k] /\ J[k - 1] = F[k - 1]
      BY <2>1, <3>1
    <3>. HIDE DEF J
    <3>. QED  BY <1>1, <1>6, <3>1, <3>2
  <2>2. CASE k = l + 1
    <3>1. /\ k \in (l + 1)..(l + m) /\ k - l = 1 /\ 1 \in 1..m /\ 1 - 1 = 0
          /\ k \in 0..(l + m) /\ k - 1 \in 0..(l + m) /\ k - 1 = l /\ ~(k <= l) /\ l <= l
      BY <1>2, <2>2
    <3>2. J[k] = H[1] /\ J[k - 1] = mid
      BY <1>4, <3>1
    <3>3. H[1] = Apply(mid, b[1])
      BY <1>7, <3>1
    <3>. HIDE DEF J
    <3>. QED  BY <1>1, <3>1, <3>2, <3>3
  <2>3. CASE k > l + 1
    <3>1. /\ k \in (l + 1)..(l + m) /\ k - l \in 1..m /\ (k - 1) - l = (k - l) - 1
          /\ k \in 0..(l + m) /\ k - 1 \in 0..(l + m) /\ ~(k <= l) /\ ~(k - 1 <= l)
      BY <1>2, <2>3
    <3>2. J[k] = H[k - l] /\ J[k - 1] = H[(k - l) - 1]
      BY <3>1
    <3>. HIDE DEF J
    <3>. QED  BY <1>1, <1>7, <3>1, <3>2
  <2>. QED  BY <1>2, <2>1, <2>2, <2>3
<1>10. J[l + m] = H[m]
  <2>1. CASE m = 0
    <3>1. l + m = l /\ l <= l /\ l + m \in 0..(l + m)
      BY <1>2, <2>1
    <3>. QED  BY <1>4, <1>7, <2>1, <3>1
  <2>2. CASE m # 0
    <3>1. ~(l + m <= l) /\ (l + m) - l = m /\ l + m \in 0..(l + m)
      BY <1>2, <2>2
    <3>. QED  BY <3>1
  <2>. QED  BY <2>1, <2>2
<1>. HIDE DEF J
<1>11. AppliedFrom(J, g, all)
  BY <1>1, <1>8, <1>9 DEF AppliedFrom
<1>12. FoldLeft(Apply, g, all) = J[l + m]
  BY <1>1, <1>11, FoldApplied
<1>. QED  BY <1>5, <1>10, <1>12 DEF all, mid

LEMMA RegistersDiffer ==
    /\ RegShaderCode \notin {RegShaderConst, RegFormat, RegColorClear, RegDrawTrigger}
    /\ RegShaderConst \notin {RegFormat, RegColorClear, RegDrawTrigger}
    /\ RegFormat \notin {RegColorClear, RegDrawTrigger}
    /\ RegColorClear # RegDrawTrigger
<1>. DEFINE registers == <<RegShaderCode, RegShaderConst, RegFormat, RegColorClear,
                           RegDrawTrigger>>
<1>1. \A i, j \in 1..5 : registers[i] = registers[j] => i = j
  BY PicaAssumption
<1>2. /\ registers[1] = RegShaderCode /\ registers[2] = RegShaderConst
      /\ registers[3] = RegFormat /\ registers[4] = RegColorClear
      /\ registers[5] = RegDrawTrigger
  OBVIOUS
<1>. HIDE DEF registers
<1>. QED  BY <1>1, <1>2

\* A write that makes the GPU draw.
Triggers(w) == w.reg = RegDrawTrigger /\ w.value % 2 = 1

\* What each kind of write does, the write having been traced.
LEMMA ApplyIs ==
    ASSUME NEW g \in GpuState, NEW w \in RegisterWrite
    PROVE  LET t == [g EXCEPT !.trace = Append(@, w)] IN
           /\ w.reg = RegShaderCode => Apply(g, w) = [t EXCEPT !.microcode = Append(@, w.value)]
           /\ w.reg = RegShaderConst =>
                 Apply(g, w) = [t EXCEPT !.constant = w.value, !.shader = Translate(t.microcode)]
           /\ w.reg = RegColorClear =>
                 Apply(g, w) = [t EXCEPT !.screen = [color |-> w.value, shader |-> t.shader,
                                                     constant |-> t.constant,
                                                     format |-> t.format]]
           /\ w.reg = RegFormat => Apply(g, w) = [t EXCEPT !.format = w.value % 2]
           /\ Triggers(w) => Apply(g, w) = [t EXCEPT !.events = @ + 1]
           /\ (w.reg \notin {RegShaderCode, RegShaderConst, RegColorClear, RegFormat}
               /\ ~Triggers(w)) => Apply(g, w) = t
BY RegistersDiffer DEF Apply, Draws, Triggers, Traced

\* Two GPUs that differ in what they have traced and reported at most.
Alike(g, h) ==
    /\ g.microcode = h.microcode /\ g.constant = h.constant /\ g.shader = h.shader
    /\ g.format = h.format /\ g.screen = h.screen

LEMMA ApplyFields ==
    ASSUME NEW g \in GpuState, NEW w \in RegisterWrite
    PROVE  LET r == Apply(g, w) IN
           /\ r.trace = Append(g.trace, w)
           /\ r.events = IF Triggers(w) THEN g.events + 1 ELSE g.events
           /\ r.microcode = IF w.reg = RegShaderCode THEN Append(g.microcode, w.value)
                                                     ELSE g.microcode
           /\ r.constant = IF w.reg = RegShaderConst THEN w.value ELSE g.constant
           /\ r.shader = IF w.reg = RegShaderConst THEN Translate(g.microcode) ELSE g.shader
           /\ r.format = IF w.reg = RegFormat THEN w.value % 2 ELSE g.format
           /\ r.screen = IF w.reg = RegColorClear
                         THEN [color |-> w.value, shader |-> g.shader,
                               constant |-> g.constant, format |-> g.format]
                         ELSE g.screen
<1>. DEFINE t == [g EXCEPT !.trace = Append(@, w)]
            r == Apply(g, w)
            fields == {"microcode", "constant", "shader", "format", "screen", "trace",
                       "events"}
<1>1. DOMAIN g = fields
  BY DEF GpuState
<1>2. /\ DOMAIN t = fields /\ t.trace = Append(g.trace, w) /\ t.events = g.events
      /\ t.microcode = g.microcode /\ t.constant = g.constant /\ t.shader = g.shader
      /\ t.format = g.format /\ t.screen = g.screen
  BY <1>1
<1>3. /\ w.reg = RegShaderCode => r = [t EXCEPT !.microcode = Append(@, w.value)]
      /\ w.reg = RegShaderConst =>
            r = [t EXCEPT !.constant = w.value, !.shader = Translate(t.microcode)]
      /\ w.reg = RegColorClear =>
            r = [t EXCEPT !.screen = [color |-> w.value, shader |-> t.shader,
                                      constant |-> t.constant, format |-> t.format]]
      /\ w.reg = RegFormat => r = [t EXCEPT !.format = w.value % 2]
      /\ Triggers(w) => r = [t EXCEPT !.events = @ + 1]
      /\ (w.reg \notin {RegShaderCode, RegShaderConst, RegColorClear, RegFormat}
          /\ ~Triggers(w)) => r = t
  BY ApplyIs
<1>. HIDE DEF t, r
<1>4. CASE w.reg = RegShaderCode
  <2>1. ~Triggers(w) /\ w.reg \notin {RegShaderConst, RegColorClear, RegFormat}
    BY <1>4, RegistersDiffer DEF Triggers
  <2>. QED  BY <1>2, <1>3, <1>4, <2>1 DEF r
<1>5. CASE w.reg = RegShaderConst
  <2>1. ~Triggers(w) /\ w.reg \notin {RegShaderCode, RegColorClear, RegFormat}
    BY <1>5, RegistersDiffer DEF Triggers
  <2>. QED  BY <1>2, <1>3, <1>5, <2>1 DEF r
<1>6. CASE w.reg = RegColorClear
  <2>1. ~Triggers(w) /\ w.reg \notin {RegShaderCode, RegShaderConst, RegFormat}
    BY <1>6, RegistersDiffer DEF Triggers
  <2>. QED  BY <1>2, <1>3, <1>6, <2>1 DEF r
<1>7. CASE w.reg = RegFormat
  <2>1. ~Triggers(w) /\ w.reg \notin {RegShaderCode, RegShaderConst, RegColorClear}
    BY <1>7, RegistersDiffer DEF Triggers
  <2>. QED  BY <1>2, <1>3, <1>7, <2>1 DEF r
<1>8. CASE Triggers(w)
  <2>1. w.reg \notin {RegShaderCode, RegShaderConst, RegColorClear, RegFormat}
    BY <1>8, RegistersDiffer DEF Triggers
  <2>. QED  BY <1>2, <1>3, <1>8, <2>1 DEF r
<1>9. CASE /\ w.reg \notin {RegShaderCode, RegShaderConst, RegColorClear, RegFormat}
           /\ ~Triggers(w)
  BY <1>2, <1>3, <1>9 DEF r
<1>. QED  BY <1>4, <1>5, <1>6, <1>7, <1>8, <1>9

LEMMA ApplyTraces ==
    ASSUME NEW g \in GpuState, NEW w \in RegisterWrite
    PROVE  /\ Apply(g, w).trace = Append(g.trace, w)
           /\ Apply(g, w).events = IF Triggers(w) THEN g.events + 1 ELSE g.events
BY ApplyFields

LEMMA ApplyAlike ==
    ASSUME NEW g \in GpuState, NEW h \in GpuState, NEW w \in RegisterWrite, Alike(g, h)
    PROVE  Alike(Apply(g, w), Apply(h, w))
<1>. DEFINE Is(x, r) ==
           /\ r.microcode = IF w.reg = RegShaderCode THEN Append(x.microcode, w.value)
                                                     ELSE x.microcode
           /\ r.constant = IF w.reg = RegShaderConst THEN w.value ELSE x.constant
           /\ r.shader = IF w.reg = RegShaderConst THEN Translate(x.microcode) ELSE x.shader
           /\ r.format = IF w.reg = RegFormat THEN w.value % 2 ELSE x.format
           /\ r.screen = IF w.reg = RegColorClear
                         THEN [color |-> w.value, shader |-> x.shader,
                               constant |-> x.constant, format |-> x.format]
                         ELSE x.screen
<1>1. Is(g, Apply(g, w)) /\ Is(h, Apply(h, w))
  BY ApplyFields
<1>. QED  BY <1>1 DEF Alike

\* One more place of a sequence of writes after another.
LEMMA AppendNext ==
    ASSUME NEW s \in Seq(RegisterWrite), NEW ws \in Seq(RegisterWrite), NEW k \in Nat,
           k + 1 \in 1..Len(ws)
    PROVE  Append(s \o SubSeq(ws, 1, k), ws[k + 1]) = s \o SubSeq(ws, 1, k + 1)
<1>. DEFINE p == SubSeq(ws, 1, k)
            e == ws[k + 1]
            q == <<e>>
<1>1. e \in RegisterWrite /\ q \in Seq(RegisterWrite)
  OBVIOUS
<1>2. p \in Seq(RegisterWrite)
  OBVIOUS
<1>3. SubSeq(ws, 1, k + 1) = p \o q
  <2>1. 1 \in 1..Len(ws) /\ k + 1 \in 1..Len(ws) /\ (k + 1) - 1 = k
    OBVIOUS
  <2>2. SubSeq(ws, 1, k + 1) = SubSeq(ws, 1, (k + 1) - 1) \o <<ws[k + 1]>>
    BY <2>1, SubSeqRecursiveSecond
  <2>. QED  BY <2>1, <2>2
<1>. HIDE DEF p, e
<1>4. s \o p \in Seq(RegisterWrite)
  BY <1>2, ConcatProperties
<1>5. Append(s \o p, e) = (s \o p) \o q
  BY <1>1, <1>4, AppendIsConcat
<1>. HIDE DEF q
<1>6. (s \o p) \o q = s \o (p \o q)
  BY <1>1, <1>2, WritesAssociative, Zenon
<1>. QED  BY <1>3, <1>5, <1>6 DEF p, e

\* The trace of a GPU is of every write, in order.
LEMMA FoldTraces ==
    ASSUME NEW g \in GpuState, NEW ws \in Seq(RegisterWrite)
    PROVE  FoldLeft(Apply, g, ws).trace = g.trace \o ws
<1>1. PICK F : AppliedFrom(F, g, ws) /\ FoldLeft(Apply, g, ws) = F[Len(ws)]
  BY AppliedExists
<1>. DEFINE n == Len(ws)
            K == {k \in 0..n : F[k].trace = g.trace \o SubSeq(ws, 1, k)}
<1>2. g.trace \in Seq(RegisterWrite) /\ n \in Nat
  BY DEF GpuState
<1>3. \A k \in 0..n : F[k] \in GpuState
  BY <1>1, AppliedTyped
<1>4. 0 \in K
  <2>1. SubSeq(ws, 1, 0) = <<>> /\ 0 \in 0..n
    OBVIOUS
  <2>2. g.trace \o <<>> = g.trace
    BY <1>2, ConcatEmptySeq
  <2>3. F[0] = g
    BY <1>1 DEF AppliedFrom
  <2>. QED  BY <2>1, <2>2, <2>3
<1>5. ASSUME NEW k \in 0..(n - 1), k \in K
      PROVE  k + 1 \in K
  <2>1. /\ k + 1 \in 1..n /\ k + 1 \in 0..n /\ (k + 1) - 1 = k /\ k \in 0..n /\ k \in Nat
        /\ ws[k + 1] \in RegisterWrite
    OBVIOUS
  <2>2. F[k + 1] = Apply(F[k], ws[k + 1])
    <3>1. F[k + 1] = Apply(F[(k + 1) - 1], ws[k + 1])
      BY <1>1, <2>1, Zenon DEF AppliedFrom
    <3>. QED  BY <2>1, <3>1
  <2>3. F[k + 1].trace = Append(F[k].trace, ws[k + 1])
    BY <1>3, <2>1, <2>2, ApplyTraces
  <2>4. F[k].trace = g.trace \o SubSeq(ws, 1, k)
    BY <1>5
  <2>5. Append(g.trace \o SubSeq(ws, 1, k), ws[k + 1]) = g.trace \o SubSeq(ws, 1, k + 1)
    BY <1>2, <2>1, AppendNext
  <2>. QED  BY <2>1, <2>3, <2>4, <2>5
<1>6. n \in K
  <2>. HIDE DEF K, n
  <2>1. \A k \in 0..n : k \in K
    BY <1>2, <1>4, <1>5, Upward
  <2>. QED  BY <1>2, <2>1
<1>7. SubSeq(ws, 1, n) = ws
  BY SubSeqFull
<1>. QED  BY <1>1, <1>6, <1>7

\* Screen and registers do not depend on what has been traced or reported.
LEMMA FoldAlike ==
    ASSUME NEW g \in GpuState, NEW h \in GpuState, NEW ws \in Seq(RegisterWrite), Alike(g, h)
    PROVE  Alike(FoldLeft(Apply, g, ws), FoldLeft(Apply, h, ws))
<1>1. PICK F : AppliedFrom(F, g, ws) /\ FoldLeft(Apply, g, ws) = F[Len(ws)]
  BY AppliedExists
<1>2. PICK H : AppliedFrom(H, h, ws) /\ FoldLeft(Apply, h, ws) = H[Len(ws)]
  BY AppliedExists
<1>. DEFINE n == Len(ws)
            K == {k \in 0..n : Alike(F[k], H[k])}
<1>3. \A k \in 0..n : F[k] \in GpuState /\ H[k] \in GpuState
  BY <1>1, <1>2, AppliedTyped
<1>4. n \in Nat
  OBVIOUS
<1>5. 0 \in K
  BY <1>1, <1>2, <1>4 DEF AppliedFrom
<1>6. ASSUME NEW k \in 0..(n - 1), k \in K
      PROVE  k + 1 \in K
  <2>1. /\ k + 1 \in 1..n /\ k + 1 \in 0..n /\ (k + 1) - 1 = k /\ k \in 0..n
        /\ ws[k + 1] \in RegisterWrite
    OBVIOUS
  <2>2. F[k + 1] = Apply(F[k], ws[k + 1]) /\ H[k + 1] = Apply(H[k], ws[k + 1])
    <3>1. /\ F[k + 1] = Apply(F[(k + 1) - 1], ws[k + 1])
          /\ H[k + 1] = Apply(H[(k + 1) - 1], ws[k + 1])
      BY <1>1, <1>2, <2>1, Zenon DEF AppliedFrom
    <3>. QED  BY <2>1, <3>1
  <2>3. Alike(F[k], H[k])
    BY <1>6
  <2>4. Alike(F[k + 1], H[k + 1])
    BY <1>3, <2>1, <2>2, <2>3, ApplyAlike
  <2>. QED  BY <2>1, <2>4
<1>7. n \in K
  <2>. HIDE DEF K, n
  <2>1. \A k \in 0..n : k \in K
    BY <1>4, <1>5, <1>6, Upward
  <2>. QED  BY <1>4, <2>1
<1>. QED  BY <1>1, <1>2, <1>7

\* The triggers in a trace, from behind a place on.
Drawn(trace, base) == {i \in (base + 1)..Len(trace) : Triggers(trace[i])}

LEMMA DrawnFinite ==
    ASSUME NEW trace \in Seq(RegisterWrite), NEW base \in Nat
    PROVE  IsFiniteSet(Drawn(trace, base)) /\ Cardinality(Drawn(trace, base)) \in Nat
<1>1. IsFiniteSet((base + 1)..Len(trace))
  BY FS_Interval
<1>2. Drawn(trace, base) \in SUBSET ((base + 1)..Len(trace))
  BY DEF Drawn
<1>. QED  BY <1>1, <1>2, FS_Subset, FS_CardinalityType

LEMMA DrawnNext ==
    ASSUME NEW trace \in Seq(RegisterWrite), NEW base \in 0..Len(trace),
           NEW w \in RegisterWrite
    PROVE  Cardinality(Drawn(Append(trace, w), base))
              = IF Triggers(w) THEN Cardinality(Drawn(trace, base)) + 1
                               ELSE Cardinality(Drawn(trace, base))
<1>. DEFINE longer == Append(trace, w)
            n == Len(trace)
            before == Drawn(trace, base)
            after == Drawn(longer, base)
<1>1. /\ n \in Nat /\ base \in Nat /\ base <= n /\ Len(longer) = n + 1 /\ longer[n + 1] = w
      /\ \A i \in 1..n : longer[i] = trace[i]
  BY AppendProperties
<1>2. IsFiniteSet(before)
  BY <1>1, DrawnFinite
<1>. HIDE DEF longer, n
<1>3. \A i \in (base + 1)..(n + 1) : i \in (base + 1)..n \/ i = n + 1
  BY <1>1
<1>4. /\ \A i \in (base + 1)..n : i \in (base + 1)..(n + 1) /\ i \in 1..n /\ i # n + 1
      /\ n + 1 \in (base + 1)..(n + 1)
  BY <1>1
<1>5. before = {i \in (base + 1)..n : Triggers(trace[i])}
      /\ after = {i \in (base + 1)..(n + 1) : Triggers(longer[i])}
  BY <1>1 DEF Drawn, n
<1>. HIDE DEF before, after
<1>6. n + 1 \notin before
  BY <1>4, <1>5
<1>7. CASE Triggers(w)
  <2>1. after = before \cup {n + 1}
    BY <1>1, <1>3, <1>4, <1>5, <1>7
  <2>. QED  BY <1>2, <1>6, <1>7, <2>1, FS_AddElement DEF after, before, longer
<1>8. CASE ~Triggers(w)
  <2>1. after = before
    BY <1>1, <1>3, <1>4, <1>5, <1>8
  <2>. QED  BY <1>8, <2>1 DEF after, before, longer
<1>. QED  BY <1>7, <1>8

Balanced(p, q, r, t) == {p, q, r, t} \subseteq Nat /\ p + q = r + t

LEMMA BalancedNext ==
    ASSUME NEW p, NEW q, NEW r, NEW t, Balanced(p, q, r, t)
    PROVE  Balanced(p + 1, q, r, t + 1)
BY DEF Balanced

\* Each trigger is reported once, and nothing else is.
LEMMA FoldReports ==
    ASSUME NEW g \in GpuState, NEW ws \in Seq(RegisterWrite), NEW base \in 0..Len(g.trace)
    PROVE  LET r == FoldLeft(Apply, g, ws) IN
           /\ base <= Len(r.trace)
           /\ r.events + Cardinality(Drawn(g.trace, base))
                 = g.events + Cardinality(Drawn(r.trace, base))
<1>1. PICK F : AppliedFrom(F, g, ws) /\ FoldLeft(Apply, g, ws) = F[Len(ws)]
  BY AppliedExists
<1>. DEFINE n == Len(ws)
            c == Cardinality(Drawn(g.trace, base))
            Good(r) == /\ base <= Len(r.trace)
                       /\ r.events + c = g.events + Cardinality(Drawn(r.trace, base))
            K == {k \in 0..n : Good(F[k])}
<1>2. g.trace \in Seq(RegisterWrite) /\ Len(g.trace) \in Nat /\ base \in Nat /\ n \in Nat
  BY DEF GpuState
<1>3. \A k \in 0..n : F[k] \in GpuState
  BY <1>1, AppliedTyped
<1>4. c \in Nat
  BY <1>2, DrawnFinite
<1>. HIDE DEF n
<1>5. 0 \in K
  <2>1. F[0] = g /\ 0 \in 0..n
    BY <1>1, <1>2 DEF AppliedFrom
  <2>2. Good(g)
    BY <1>2
  <2>. QED  BY <2>1, <2>2
<1>6. ASSUME NEW k \in 0..(n - 1), k \in K
      PROVE  k + 1 \in K
  <2>1. k + 1 \in 1..n /\ k + 1 \in 0..n /\ (k + 1) - 1 = k /\ k \in 0..n
    BY <1>2
  <2>2. ws[k + 1] \in RegisterWrite
    BY <2>1 DEF n
  <2>. DEFINE f == F[k]
              w == ws[k + 1]
  <2>3. F[k + 1] = Apply(f, w)
    <3>1. F[k + 1] = Apply(F[(k + 1) - 1], ws[k + 1])
      BY <1>1, <2>1, Zenon DEF AppliedFrom, n
    <3>. QED  BY <2>1, <3>1
  <2>4. f \in GpuState /\ Good(f)
    BY <1>3, <1>6, <2>1
  <2>. HIDE DEF f, w
  <2>5. /\ Apply(f, w).trace = Append(f.trace, w)
        /\ Apply(f, w).events = IF Triggers(w) THEN f.events + 1 ELSE f.events
    BY <2>2, <2>4, ApplyTraces DEF w
  <2>6. /\ f.trace \in Seq(RegisterWrite) /\ Len(f.trace) \in Nat /\ f.events \in Nat
        /\ base \in 0..Len(f.trace)
    <3>1. f.trace \in Seq(RegisterWrite) /\ Len(f.trace) \in Nat /\ f.events \in Nat
      BY <2>4 DEF GpuState
    <3>. QED  BY <1>2, <2>4, <3>1
  <2>7. /\ Len(Append(f.trace, w)) = Len(f.trace) + 1
        /\ Cardinality(Drawn(Append(f.trace, w), base))
              = IF Triggers(w) THEN Cardinality(Drawn(f.trace, base)) + 1
                               ELSE Cardinality(Drawn(f.trace, base))
    BY <2>2, <2>6, AppendProperties, DrawnNext DEF w
  <2>8. Cardinality(Drawn(f.trace, base)) \in Nat /\ g.events \in Nat
    BY <1>2, <2>6, DrawnFinite DEF GpuState
  <2>9. Good(Apply(f, w))
    <3>. DEFINE more == Apply(f, w)
                d == Cardinality(Drawn(f.trace, base))
    <3>1. base <= Len(more.trace)
      BY <1>2, <2>4, <2>5, <2>6, <2>7
    <3>2. /\ more.events = IF Triggers(w) THEN f.events + 1 ELSE f.events
          /\ Cardinality(Drawn(more.trace, base)) = IF Triggers(w) THEN d + 1 ELSE d
      BY <2>5, <2>7, Zenon
    <3>3. Balanced(f.events, c, g.events, d)
      BY <1>4, <2>4, <2>6, <2>8 DEF Balanced
    <3>. HIDE DEF c, d, more
    <3>4. more.events + c = g.events + Cardinality(Drawn(more.trace, base))
      <4>1. CASE Triggers(w)
        <5>1. Balanced(f.events + 1, c, g.events, d + 1)
          BY <3>3, BalancedNext, Zenon
        <5>. QED  BY <3>2, <4>1, <5>1, Zenon DEF Balanced
      <4>2. CASE ~Triggers(w)
        BY <3>2, <3>3, <4>2, Zenon DEF Balanced
      <4>. QED  BY <4>1, <4>2
    <3>. QED  BY <3>1, <3>4 DEF more
  <2>. HIDE DEF Good
  <2>. QED  BY <2>1, <2>3, <2>9
<1>7. n \in K
  <2>. HIDE DEF K
  <2>1. \A k \in 0..n : k \in K
    BY <1>2, <1>5, <1>6, Upward
  <2>. QED  BY <1>2, <2>1
<1>. QED  BY <1>1, <1>7 DEF n

-----------------------------------------------------------------------------
(* Replaying a trace *)

\* The library's flattening of sequences of numbers, one after the other.
Flattening(f, seqs, n) ==
    /\ f[1] = seqs[1]
    /\ \A k \in 1..(n - 1) : f[k + 1] = f[k] \o seqs[k + 1]

LEMMA FlattenUnfolds ==
    ASSUME NEW seqs, NEW n \in Nat \ {0}, seqs \in [1..n -> Seq(Nat)]
    PROVE  \E f : Flattening(f, seqs, n) /\ FlattenSeq(seqs) = f[n]
<1>. DEFINE Is(f, m) == f = [i \in 1..m |-> IF i = 1 THEN seqs[i] ELSE f[i - 1] \o seqs[i]]
            K == {k \in 0..n : \E f : Is(f, k)}
<1>1. seqs \in Seq(Seq(Nat)) /\ Len(seqs) = n /\ n # 0
  OBVIOUS
<1>2. 0 \in K
  <2>. DEFINE f == [i \in 1..0 |-> <<>>]
  <2>1. Is(f, 0) /\ 0 \in 0..n
    OBVIOUS
  <2>. HIDE DEF Is, f
  <2>. QED  BY <2>1
<1>3. ASSUME NEW k \in 0..(n - 1), k \in K
      PROVE  k + 1 \in K
  <2>1. PICK f : Is(f, k)
    BY <1>3
  <2>2. k + 1 \in 0..n /\ k \in Nat
    OBVIOUS
  <2>. DEFINE last == IF k + 1 = 1 THEN seqs[1] ELSE f[k] \o seqs[k + 1]
              h == [i \in 1..(k + 1) |-> IF i <= k THEN f[i] ELSE last]
  <2>. HIDE DEF last
  <2>3. ASSUME NEW i \in 1..(k + 1)
        PROVE  h[i] = IF i = 1 THEN seqs[i] ELSE h[i - 1] \o seqs[i]
    <3>1. CASE i <= k
      <4>1. i \in 1..k /\ (i # 1 => i - 1 \in 1..(k + 1) /\ i - 1 <= k)
        BY <2>2, <3>1
      <4>2. h[i] = f[i] /\ (i # 1 => h[i - 1] = f[i - 1])
        BY <3>1, <4>1
      <4>3. f[i] = IF i = 1 THEN seqs[i] ELSE f[i - 1] \o seqs[i]
        BY <2>1, <4>1
      <4>. HIDE DEF h
      <4>. QED  BY <4>2, <4>3
    <3>2. CASE i = k + 1
      <4>1. ~(i <= k) /\ i - 1 = k /\ (i # 1 => k \in 1..(k + 1) /\ k <= k)
        BY <2>2, <3>2
      <4>2. h[i] = last /\ (i # 1 => h[k] = f[k])
        BY <4>1
      <4>. HIDE DEF h
      <4>. QED  BY <3>2, <4>1, <4>2 DEF last
    <3>. QED  BY <2>2, <3>1, <3>2
  <2>4. h = [i \in 1..(k + 1) |-> h[i]]
    OBVIOUS
  <2>. HIDE DEF h
  <2>5. Is(h, k + 1)
    BY <2>3, <2>4
  <2>. QED  BY <2>2, <2>5
<1>4. \E f : Is(f, n)
  <2>1. n \in K
    <3>. HIDE DEF K
    <3>1. \A k \in 0..n : k \in K
      BY <1>2, <1>3, Upward
    <3>. QED  BY <3>1
  <2>. QED  BY <2>1
<1>. DEFINE C == CHOOSE f : f = [i \in 1..Len(seqs) |->
                                    IF i = 1 THEN seqs[i] ELSE f[i - 1] \o seqs[i]]
<1>5. FlattenSeq(seqs) = C[Len(seqs)]
  BY <1>1, Zenon DEF FlattenSeq
<1>6. Is(C, n)
  BY <1>1, <1>4
<1>. HIDE DEF C
<1>7. C[1] = seqs[1]
  BY <1>6
<1>8. ASSUME NEW k \in 1..(n - 1)
      PROVE  C[k + 1] = C[k] \o seqs[k + 1]
  <2>1. k + 1 \in 1..n /\ k + 1 # 1 /\ (k + 1) - 1 = k
    OBVIOUS
  <2>. QED  BY <1>6, <2>1
<1>9. Flattening(C, seqs, n)
  BY <1>7, <1>8 DEF Flattening
<1>. QED  BY <1>1, <1>5, <1>9, Zenon

\* The packet that makes one write.
Plain(t) == <<Encode(t.reg, 1, FALSE), t.value>>

LEMMA PlainDecodes ==
    ASSUME NEW t \in RegisterWrite
    PROVE  /\ Plain(t) \in Seq(Nat)
           /\ Complete(Plain(t))
           /\ Decode(Plain(t)) = <<t>>
<1>. DEFINE values == <<t.value>>
            word == Encode(t.reg, 1, FALSE)
<1>1. t.reg \in 0..(RegSpace - 1) /\ t.value \in Nat /\ t = [reg |-> t.reg, value |-> t.value]
  BY DEF RegisterWrite
<1>2. values \in Seq(Nat) /\ Len(values) = 1 /\ values[1] = t.value /\ DOMAIN values = {1}
  BY <1>1
<1>3. Plain(t) = <<word>> \o values
  <2>. HIDE DEF word
  <2>1. Plain(t) = <<word, t.value>>
    BY DEF Plain, word
  <2>2. word \in Nat
    <3>1. 1 \in 0..(CountSpace - 1) /\ FALSE \in BOOLEAN
      BY PicaAssumption
    <3>. QED  BY <1>1, <3>1, HeaderRoundTrip DEF word
  <2>. QED  BY <1>1, <2>1, <2>2
<1>4. 1 \in 0..(CountSpace - 1) /\ 1 # 0
  BY PicaAssumption
<1>. HIDE DEF values, word
<1>5. Whole(t.reg, 1, FALSE, values)
  BY <1>1, <1>2, <1>4 DEF Whole
<1>6. /\ Plain(t) \in Seq(Nat) /\ Complete(Plain(t))
      /\ Decode(Plain(t)) = [i \in DOMAIN values |->
                                [reg |-> TargetReg(t.reg, FALSE, i), value |-> values[i]]]
  <2>1. Decoded(<<Encode(t.reg, 1, FALSE)>> \o values, t.reg, FALSE, values)
    BY <1>5, PacketDecodes, Zenon
  <2>2. Decoded(Plain(t), t.reg, FALSE, values)
    BY <1>3, <2>1, Zenon DEF word
  <2>. QED  BY <2>2, Zenon DEF Decoded
<1>7. [i \in DOMAIN values |-> [reg |-> TargetReg(t.reg, FALSE, i), value |-> values[i]]]
          = <<t>>
  <2>1. TargetReg(t.reg, FALSE, 1) = t.reg
    BY DEF TargetReg
  <2>. DEFINE e == [i \in DOMAIN values |->
                       [reg |-> TargetReg(t.reg, FALSE, i), value |-> values[i]]]
  <2>2. e = [i \in {1} |-> t]
    BY <1>1, <1>2, <2>1
  <2>3. <<t>> = [i \in {1} |-> t]
    OBVIOUS
  <2>. QED  BY <2>2, <2>3
<1>. QED  BY <1>6, <1>7

LEMMA FirstAlone ==
    ASSUME NEW trace \in Seq(RegisterWrite), 1 \in 1..Len(trace)
    PROVE  SubSeq(trace, 1, 1) = <<trace[1]>>
<1>. DEFINE one == SubSeq(trace, 1, 1)
<1>1. \A i \in 1..1 : trace[i] \in RegisterWrite
  OBVIOUS
<1>2. /\ one \in Seq(RegisterWrite)
      /\ Len(one) = IF 1 <= 1 THEN 1 - 1 + 1 ELSE 0
      /\ \A i \in 1..(1 - 1 + 1) : one[i] = trace[1 + i - 1]
  BY <1>1, SubSeqProperties
<1>. HIDE DEF one
<1>3. Len(one) = 1 /\ one[1] = trace[1]
  BY <1>2
<1>4. one = <<trace[1]>>
  BY <1>2, <1>3
<1>. QED  BY <1>4 DEF one

\* A trace, written as packets of one write each, is decoded to itself.
LEMMA TraceDecodes ==
    ASSUME NEW trace \in Seq(RegisterWrite)
    PROVE  LET words == FlattenSeq([i \in DOMAIN trace |-> Plain(trace[i])]) IN
           words \in Seq(Nat) /\ Decode(words) = trace
<1>. DEFINE n == Len(trace)
            seqs == [i \in DOMAIN trace |-> Plain(trace[i])]
            words == FlattenSeq(seqs)
<1>1. n \in Nat /\ DOMAIN trace = 1..n /\ \A i \in 1..n : trace[i] \in RegisterWrite
  OBVIOUS
<1>2. CASE n = 0
  <2>1. trace = <<>> /\ DOMAIN trace = {}
    BY <1>2
  <2>2. seqs = <<>> /\ Len(<<>>) = 0
    BY <2>1
  <2>. HIDE DEF seqs
  <2>3. words = <<>>
    BY <2>2, Zenon DEF FlattenSeq
  <2>. HIDE DEF words
  <2>4. words \in Seq(Nat) /\ Decode(words) = trace
    BY <2>1, <2>3, DecodeNothing
  <2>. QED  BY <2>4 DEF words, seqs
<1>3. CASE n # 0
  <2>1. seqs \in [1..n -> Seq(Nat)] /\ n \in Nat \ {0}
    BY <1>1, <1>3, PlainDecodes
  <2>2. \A i \in 1..n : seqs[i] = Plain(trace[i])
    BY <1>1
  <2>. HIDE DEF seqs
  <2>3. PICK f : /\ words = f[n] /\ f[1] = seqs[1]
                 /\ \A k \in 1..(n - 1) : f[k + 1] = f[k] \o seqs[k + 1]
    <3>1. PICK f : Flattening(f, seqs, n) /\ words = f[n]
      BY <2>1, FlattenUnfolds, Zenon DEF words
    <3>. QED  BY <3>1 DEF Flattening
  <2>. HIDE DEF words
  <2>. DEFINE Good(k) == /\ f[k] \in Seq(Nat) /\ Complete(f[k])
                         /\ Decode(f[k]) = SubSeq(trace, 1, k)
              K == {k \in 0..(n - 1) : Good(k + 1)}
  <2>4. 0 \in K
    <3>1. 1 \in 1..n /\ 0 \in 0..(n - 1) /\ 0 + 1 = 1
      BY <1>1, <1>3
    <3>2. f[1] = Plain(trace[1]) /\ trace[1] \in RegisterWrite
      BY <1>1, <2>2, <2>3, <3>1
    <3>3. f[1] \in Seq(Nat) /\ Complete(f[1]) /\ Decode(f[1]) = <<trace[1]>>
      BY <3>2, PlainDecodes
    <3>4. SubSeq(trace, 1, 1) = <<trace[1]>>
      BY <1>1, <3>1, FirstAlone
    <3>. QED  BY <3>1, <3>3, <3>4
  <2>5. ASSUME NEW k \in 0..((n - 1) - 1), k \in K
        PROVE  k + 1 \in K
    <3>1. /\ k + 1 \in 1..(n - 1) /\ k + 1 \in 0..(n - 1) /\ (k + 1) + 1 \in 1..n
          /\ k + 1 \in Nat
      BY <1>1
    <3>. DEFINE j == k + 1
                more == Plain(trace[j + 1])
    <3>2. f[j + 1] = f[j] \o more /\ trace[j + 1] \in RegisterWrite
      BY <1>1, <2>2, <2>3, <3>1
    <3>3. more \in Seq(Nat) /\ Complete(more) /\ Decode(more) = <<trace[j + 1]>>
      BY <3>2, PlainDecodes
    <3>4. f[j] \in Seq(Nat) /\ Complete(f[j]) /\ Decode(f[j]) = SubSeq(trace, 1, j)
      BY <2>5
    <3>. HIDE DEF more
    <3>5. f[j + 1] \in Seq(Nat)
      BY <3>2, <3>3, <3>4, JoinIs
    <3>6. Complete(f[j + 1])
      BY <3>2, <3>3, <3>4, CompleteJoin
    <3>7. Decode(f[j + 1]) = SubSeq(trace, 1, j) \o <<trace[j + 1]>>
      BY <3>2, <3>3, <3>4, DecodeInPortions
    <3>8. SubSeq(trace, 1, j + 1) = SubSeq(trace, 1, j) \o <<trace[j + 1]>>
      <4>1. 1 \in 1..n /\ j + 1 \in 1..n /\ (j + 1) - 1 = j
        BY <3>1
      <4>2. SubSeq(trace, 1, j + 1) = SubSeq(trace, 1, (j + 1) - 1) \o <<trace[j + 1]>>
        BY <4>1, SubSeqRecursiveSecond
      <4>. QED  BY <4>1, <4>2
    <3>9. Good(j + 1)
      BY <3>5, <3>6, <3>7, <3>8
    <3>. HIDE DEF Good
    <3>. QED  BY <3>1, <3>9
  <2>6. Good(n)
    <3>1. n - 1 \in Nat /\ n - 1 \in 0..(n - 1) /\ (n - 1) + 1 = n
      BY <1>1, <1>3
    <3>2. n - 1 \in K
      <4>. HIDE DEF K, n
      <4>1. \A k \in 0..(n - 1) : k \in K
        BY <2>4, <2>5, <3>1, Upward
      <4>. QED  BY <3>1, <4>1
    <3>. HIDE DEF Good, n
    <3>. QED  BY <3>1, <3>2
  <2>7. SubSeq(trace, 1, n) = trace
    BY SubSeqFull
  <2>. QED  BY <2>3, <2>6, <2>7 DEF words, seqs
<1>. QED  BY <1>2, <1>3

=============================================================================
