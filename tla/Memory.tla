------------------------------- MODULE Memory -------------------------------
(***************************************************************************)
(* Physical memory (src/src/core/memory.rs, and bus.rs, to which nothing   *)
(* attaches a device): segments that do not overlap, some of them read     *)
(* only, with addresses between and above them that hold nothing.          *)
(*                                                                         *)
(* Words are those of Alu, four bytes of ByteBits bits each, 8 in the code. *)
(***************************************************************************)
EXTENDS Alu, Sequences, FiniteSets

CONSTANTS
    Segments,   \* records of start, end (exclusive) and writable
    ByteBits

ASSUME MemoryAssumption ==
    /\ \A s \in Segments : {s.start, s.end} \subseteq Word /\ s.writable \in BOOLEAN
    /\ \A s \in Segments : s.start % 4 = 0 /\ s.end % 4 = 0
    /\ \A s, t \in Segments : s = t \/ s.end <= t.start \/ t.end <= s.start
    /\ ByteBits \in Nat /\ ByteBits >= 2 /\ 2 ^ (4 * ByteBits) = Modulus

WordBits == 4 * ByteBits
ByteBase == 2 ^ ByteBits
Byte == 0 .. ByteBase - 1

In(s, a) == s.start <= a /\ a < s.end
Mapped == {a \in Word : \E s \in Segments : In(s, a)}
Writable == {a \in Word : \E s \in Segments : In(s, a) /\ s.writable}

Contents == [Mapped -> Byte]

\* clear_writable, of memory m; a new memory holds nothing but zeros.
Cleared(m) == [a \in Mapped |-> IF a \in Writable THEN 0 ELSE m[a]]

\* The k-th address from a on; addresses wrap around.
Address(a, k) == Wrap(a + k)

\* All of the n bytes from a on can be reached.
CanRead(a, n) == \A i \in 0 .. n - 1 : Address(a, i) \in Mapped

\* Bytes written one after the other, as write_u32_checked and map_segment do:
\* those before the first address that is not mapped are written all the same.
\* A write to read-only memory succeeds and changes nothing.
WriteBytes(m, a, bytes) ==
    LET written == {i \in 0 .. Len(bytes) - 1 : CanRead(a, i + 1)}
    IN  [ok |-> CanRead(a, Len(bytes)),
         mem |-> [x \in Mapped |->
                     IF x \in Writable /\ Wrap(x - a) \in written
                     THEN bytes[Wrap(x - a) + 1]
                     ELSE m[x]]]

-----------------------------------------------------------------------------
(* Words and halfwords in bytes, the least significant first *)

\* What a one is worth in the i-th byte, from 0.
Weight(i) == 2 ^ (ByteBits * i)

Bytes(w, n) == [i \in 1 .. n |-> (w \div Weight(i - 1)) % ByteBase]

Value(m, a, n) ==
    LET part[i \in 0 .. n] ==
            IF i = 0 THEN 0 ELSE part[i - 1] + m[Address(a, i - 1)] * Weight(i - 1)
    IN  part[n]

=============================================================================
