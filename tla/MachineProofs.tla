--------------------------- MODULE MachineProofs ---------------------------
(***************************************************************************)
(* Proofs about the machine, for images, memories, words and programs of   *)
(* any size: where the sections of an image that is accepted are and what  *)
(* is in memory after a load; that every register, byte and system         *)
(* register stays in its range; and that a load or store that is aborted   *)
(* and executed again ends as if it had not been.                          *)
(***************************************************************************)
EXTENDS Machine, IsaProofs, SequenceTheorems, WellFoundedInduction, TLAPS

-----------------------------------------------------------------------------
(* Sections of the file *)

\* The first of several: RomImage::parse and ExeFs::file look for one.
LEMMA Smallest ==
    ASSUME NEW S, S \subseteq Nat, S # {}
    PROVE  \E x \in S : \A y \in S : x <= y
  <1>. DEFINE R == {ss \in Nat \X Nat : ss[1] < ss[2]}
  <1>1. IsWellFoundedOn(R, Nat)
    BY NatLessThanWellFounded, Zenon DEF OpToRel
  <1>2. ASSUME NEW x \in Nat, NEW y \in Nat, <<y, x>> \notin R
        PROVE  x <= y
    BY <1>2
  <1>. HIDE DEF R
  <1>3. PICK x \in S : \A y \in S : <<y, x>> \notin R
    BY <1>1, WFMin, Zenon
  <1>4. \A y \in S : x <= y
    BY <1>2, <1>3
  <1>. QED
    BY <1>4

LEMMA Remainder ==
    ASSUME NEW a \in Int, NEW n \in Nat \ {0}
    PROVE  a % n \in 0 .. n - 1 /\ (a \in 0 .. n - 1 => a % n = a)
  OBVIOUS

LEMMA WordNat == Word \subseteq Nat
  BY HalfAssumption DEF Word, Modulus

LEMMA UnitsNat == \A n \in Nat : Units(n) \in Nat
  <1>. SUFFICES ASSUME NEW n \in Nat PROVE Units(n) \in Nat
    OBVIOUS
  <1>1. n * Unit \in Int
    BY LoaderAssumption
  <1>. QED
    BY <1>1, Remainder, LoaderAssumption DEF Units

LEMMA PlusExact ==
    ASSUME NEW a \in Nat, NEW b \in Nat
    PROVE  Plus(a, b) \in Nat /\ (a + b < Usize => Plus(a, b) = a + b)
  <1>. DEFINE sum == a + b
  <1>1. sum \in Int /\ sum >= 0
    OBVIOUS
  <1>2. sum % Usize \in 0 .. Usize - 1 /\ (sum \in 0 .. Usize - 1 => sum % Usize = sum)
    <2>. HIDE DEF sum
    <2>. QED
      BY <1>1, Remainder, LoaderAssumption
  <1>. QED
    BY <1>1, <1>2, LoaderAssumption DEF Plus

\* The program that is run is a partition that was looked at.
LEMMA ProgramPresent ==
    ASSUME NEW rom \in Image, ImageParses(rom),
           NEW i \in DOMAIN rom.partitions, Present(rom.partitions[i])
    PROVE  LET p == rom.partitions[i]
           IN  /\ p \in Partition
               /\ ProgramParses(rom, p)
               /\ Start(p) \in Nat /\ Size(p) \in Nat
               /\ End(p) = Start(p) + Size(p)
               /\ End(p) <= rom.length
  <1>. DEFINE p == rom.partitions[i]
  <1>1. p \in Partition
    BY DEF Image
  <1>2. Start(p) \in Nat /\ Size(p) \in Nat
    <2>1. p.offset \in Nat /\ p.size \in Nat
      BY <1>1, WordNat DEF Partition
    <2>. QED
      BY <2>1, UnitsNat DEF Start, Size
  <1>3. Fits(Start(p), Size(p), rom.length) /\ ProgramParses(rom, p)
    BY DEF ImageParses
  <1>4. End(p) = Start(p) + Size(p) /\ End(p) <= rom.length
    <2>1. Start(p) + Size(p) < Usize /\ Start(p) + Size(p) <= rom.length
      BY <1>3 DEF Fits
    <2>. QED
      BY <1>2, <2>1, PlusExact DEF End
  <1>. QED
    BY <1>1, <1>2, <1>3, <1>4

\* The sections of a partition that parse_ncch_program takes.
Taken(p) == {p.exefs} \cup (IF HasRomfs(p) THEN {p.romfs} ELSE {})

\* Every slice that the loader takes of the file (the extended header, ExeFS
\* and RomFS) lies in it, whatever the width of usize: wrapped offsets are
\* checked too, so no slice is out of range.
THEOREM SectionsInFile ==
    ASSUME NEW rom \in Image, ImageParses(rom),
           NEW i \in DOMAIN rom.partitions, Present(rom.partitions[i])
    PROVE  LET p == rom.partitions[i]
           IN  /\ ExheaderStart(p) \in Nat /\ ExheaderStart(p) + p.exheaderSize <= rom.length
               /\ \A s \in Taken(p) :
                     /\ SectionStart(p, s) \in Nat
                     /\ SectionStart(p, s) + Units(s.size) <= rom.length
  <1>. DEFINE p == rom.partitions[i]
  <1>1. /\ p \in Partition /\ ProgramParses(rom, p)
        /\ Start(p) \in Nat /\ End(p) \in Nat /\ End(p) <= rom.length
    BY ProgramPresent
  <1>2. ExheaderStart(p) \in Nat
    BY <1>1, PlusExact, LoaderAssumption DEF ExheaderStart
  <1>3. ExheaderStart(p) + p.exheaderSize <= rom.length
    BY <1>1 DEF ProgramParses, Fits
  <1>4. ASSUME NEW s \in Taken(p)
        PROVE  SectionStart(p, s) \in Nat /\ SectionStart(p, s) + Units(s.size) <= rom.length
    <2>1. SectionFits(p, s) /\ s.offset \in Word /\ s.size \in Word
      BY <1>1 DEF ProgramParses, Taken, Partition
    <2>2. Units(s.offset) \in Nat /\ Units(s.size) \in Nat
      BY <2>1, UnitsNat, HalfAssumption DEF Word, Modulus
    <2>3. SectionStart(p, s) \in Nat
      BY <1>1, <2>2, PlusExact DEF SectionStart
    <2>4. SectionStart(p, s) + Units(s.size) <= End(p)
      BY <2>1 DEF SectionFits, Fits
    <2>. QED
      BY <1>1, <2>2, <2>3, <2>4 DEF Image
  <1>. QED
    BY <1>2, <1>3, <1>4

LEMMA ProductMonotone ==
    ASSUME NEW a \in Nat, NEW b \in Nat, a <= b, NEW u \in Nat
    PROVE  a * u <= b * u
  OBVIOUS

\* Where usize holds two offsets of 2^32 media units, as it does in 64 bits,
\* a section lies in the partition it belongs to.  In 32 bits its offset wraps
\* and it may lie before the partition, in the headers or in another one.
THEOREM SectionsInPartition ==
    ASSUME NEW rom \in Image, ImageParses(rom), 2 * (Modulus * Unit) <= Usize,
           NEW i \in DOMAIN rom.partitions, Present(rom.partitions[i])
    PROVE  LET p == rom.partitions[i]
           IN  \A s \in Taken(p) :
                  /\ Start(p) <= SectionStart(p, s)
                  /\ SectionStart(p, s) + Units(s.size) <= Start(p) + Size(p)
  <1>. DEFINE p == rom.partitions[i]
  <1>1. /\ p \in Partition /\ ProgramParses(rom, p)
        /\ Start(p) \in Nat /\ End(p) = Start(p) + Size(p)
    BY ProgramPresent
  <1>2. ASSUME NEW n \in Word
        PROVE  Units(n) = n * Unit /\ Units(n) \in Nat /\ 2 * Units(n) < Usize
    <2>1. n \in Nat /\ n <= Modulus - 1 /\ Modulus \in Nat \ {0}
      BY HalfAssumption DEF Word, Modulus
    <2>2. n * Unit <= (Modulus - 1) * Unit
      <3>1. Modulus - 1 \in Nat /\ Unit \in Nat
        BY <2>1, LoaderAssumption
      <3>. DEFINE top == Modulus - 1
      <3>2. top \in Nat /\ n <= top
        BY <2>1, <3>1
      <3>. HIDE DEF top
      <3>3. n * Unit <= top * Unit
        BY <2>1, <3>1, <3>2, ProductMonotone
      <3>. QED
        BY <3>3 DEF top
    <2>3. (Modulus - 1) * Unit = Modulus * Unit - Unit
      BY <2>1, LoaderAssumption
    <2>4. n * Unit \in Nat /\ Modulus * Unit \in Nat
      BY <2>1, LoaderAssumption
    <2>5. 2 * (n * Unit) < Usize
      BY <2>2, <2>3, <2>4, LoaderAssumption
    <2>6. n * Unit \in 0 .. Usize - 1
      BY <2>4, <2>5, LoaderAssumption
    <2>7. (n * Unit) % Usize = n * Unit
      <3>. DEFINE k == n * Unit
      <3>1. k \in Int /\ k \in 0 .. Usize - 1
        BY <2>4, <2>6
      <3>. HIDE DEF k
      <3>2. k % Usize = k
        BY <3>1, Remainder, LoaderAssumption
      <3>. QED
        BY <3>2 DEF k
    <2>. QED
      BY <2>4, <2>5, <2>7 DEF Units
  <1>3. ASSUME NEW s \in Taken(p)
        PROVE  /\ Start(p) <= SectionStart(p, s)
               /\ SectionStart(p, s) + Units(s.size) <= Start(p) + Size(p)
    <2>1. SectionFits(p, s) /\ s.offset \in Word /\ p.offset \in Word
      BY <1>1 DEF ProgramParses, Taken, Partition
    <2>2. SectionStart(p, s) = Start(p) + Units(s.offset)
      <3>1. /\ Start(p) \in Nat /\ 2 * Start(p) < Usize
            /\ Units(s.offset) \in Nat /\ 2 * Units(s.offset) < Usize
        BY <1>2, <2>1 DEF Start
      <3>2. Start(p) + Units(s.offset) < Usize
        BY <3>1, LoaderAssumption
      <3>. QED
        BY <3>1, <3>2, PlusExact DEF SectionStart
    <2>. QED
      BY <1>1, <1>2, <2>1, <2>2 DEF SectionFits, Fits
  <1>. QED
    BY <1>3

-----------------------------------------------------------------------------
(* Writing bytes *)

\* The highest address holds nothing, so that an access never wraps around.
LEMMA TopUnmapped ==
    /\ Mapped \subseteq Word
    /\ \A x \in Mapped : x < Modulus - 1
  BY MemoryAssumption, HalfAssumption DEF Mapped, In, Word, Modulus

LEMMA NoWrap ==
    ASSUME NEW a \in Word, NEW k \in Nat, CanRead(a, k + 1)
    PROVE  a + k < Modulus - 1 /\ a + k \in Mapped
  <1>0. Modulus \in Nat /\ a \in 0 .. Modulus - 1
    BY HalfAssumption DEF Word, Modulus
  <1>1. a + k < Modulus - 1
    <2>1. SUFFICES ASSUME a + k >= Modulus - 1
                   PROVE  FALSE
      BY <1>0
    <2>. DEFINE j == Modulus - 1 - a
    <2>2. j \in 0 .. k
      BY <1>0, <2>1
    <2>3. Address(a, j) \in Mapped
      BY <2>2 DEF CanRead
    <2>4. Address(a, j) = Modulus - 1
      <3>1. a + j = Modulus - 1
        BY <1>0
      <3>2. Wrap(Modulus - 1) = Modulus - 1
        BY <1>0, WrapAdd
      <3>. QED
        BY <3>1, <3>2 DEF Address
    <2>. QED
      BY <2>3, <2>4, TopUnmapped, <1>0
  <1>2. Address(a, k) \in Mapped
    BY DEF CanRead
  <1>3. Address(a, k) = a + k
    BY <1>0, <1>1, WrapAdd DEF Address
  <1>. QED
    BY <1>1, <1>2, <1>3

\* A byte of memory is left alone, or gets the byte written at its address;
\* it does get it, unless it is read-only or the write has failed.
LEMMA Written ==
    ASSUME NEW m, NEW a \in Word, NEW bytes \in Seq(Byte), NEW x \in Mapped
    PROVE  LET w == WriteBytes(m, a, bytes)
               inside == x - a \in 0 .. Len(bytes) - 1
           IN  /\ \/ w.mem[x] = m[x]
                  \/ x \in Writable /\ inside /\ w.mem[x] = bytes[x - a + 1]
               /\ x \in Writable /\ inside /\ w.ok => w.mem[x] = bytes[x - a + 1]
               /\ ~inside => w.mem[x] = m[x]
  <1>. DEFINE w == WriteBytes(m, a, bytes)
              offset == Wrap(x - a)
              written == {i \in 0 .. Len(bytes) - 1 : CanRead(a, i + 1)}
              inside == x - a \in 0 .. Len(bytes) - 1
  <1>0. /\ Modulus \in Nat /\ a \in 0 .. Modulus - 1 /\ x \in 0 .. Modulus - 1
        /\ Len(bytes) \in Nat
    BY HalfAssumption, TopUnmapped DEF Word, Modulus
  <1>1. offset = IF x < a THEN x - a + Modulus ELSE x - a
    BY <1>0, WrapSub
  <1>2. w.mem[x] = IF x \in Writable /\ offset \in written THEN bytes[offset + 1] ELSE m[x]
    BY DEF WriteBytes
  <1>3. w.ok <=> CanRead(a, Len(bytes))
    BY DEF WriteBytes
  <1>4. offset \in written => offset = x - a /\ inside
    <2>1. SUFFICES ASSUME offset \in written
                   PROVE  offset = x - a /\ inside
      OBVIOUS
    <2>. HIDE DEF offset
    <2>2. offset \in Nat /\ offset \in 0 .. Len(bytes) - 1 /\ CanRead(a, offset + 1)
      BY <2>1, <1>0
    <2>3. a + offset < Modulus - 1
      BY <2>2, NoWrap
    <2>. QED
      BY <1>0, <1>1, <2>2, <2>3
  <1>5. w.ok /\ inside => offset \in written
    <2>1. SUFFICES ASSUME w.ok, inside
                   PROVE  offset \in written
      OBVIOUS
    <2>2. offset = x - a
      BY <1>0, <1>1, <2>1
    <2>3. CanRead(a, offset + 1)
      BY <1>0, <1>3, <2>1, <2>2 DEF CanRead
    <2>. QED
      BY <2>1, <2>2, <2>3
  <1>. HIDE DEF w, written, offset
  <1>. QED
    BY <1>2, <1>4, <1>5 DEF w

LEMMA ThenWritten ==
    ASSUME NEW r, NEW a \in Word, NEW bytes \in Seq(Byte), NEW x \in Mapped
    PROVE  LET w == Then(r, a, bytes)
               inside == x - a \in 0 .. Len(bytes) - 1
           IN  /\ \/ w.mem[x] = r.mem[x]
                  \/ x \in Writable /\ inside /\ w.mem[x] = bytes[x - a + 1]
               /\ x \in Writable /\ inside /\ w.ok => w.mem[x] = bytes[x - a + 1]
               /\ ~inside => w.mem[x] = r.mem[x]
               /\ w.ok => r.ok
  <1>1. CASE r.ok
    <2>1. Then(r, a, bytes) = WriteBytes(r.mem, a, bytes)
      BY <1>1 DEF Then
    <2>. QED
      BY <1>1, <2>1, Written
  <1>2. CASE ~r.ok
    BY <1>2 DEF Then
  <1>. QED
    BY <1>1, <1>2

-----------------------------------------------------------------------------
(* Sections in memory *)

LEMMA CodeTyped ==
    ASSUME NEW p \in Partition, HasCode(p)
    PROVE  Code(p) \in Seq(Byte)
  <1>. DEFINE files == p.exefs.files
              named == {i \in DOMAIN files : files[i].code # <<>>}
  <1>1. files \in Seq(File)
    BY DEF Partition
  <1>2. named \subseteq Nat /\ named # {}
    BY <1>1 DEF HasCode
  <1>3. PICK i \in named : \A j \in named : i <= j
    <2>. HIDE DEF named
    <2>. QED
      BY <1>2, Smallest
  <1>4. \A j \in 1 .. i - 1 : files[j].code = <<>>
    BY <1>1, <1>3
  <1>5. \E k \in DOMAIN files :
           files[k].code # <<>> /\ \A j \in 1 .. k - 1 : files[j].code = <<>>
    BY <1>3, <1>4
  <1>6. PICK k \in DOMAIN files : Code(p) = files[k].code
    BY <1>5 DEF Code
  <1>. HIDE DEF files
  <1>7. files[k] \in File
    BY <1>1, <1>6
  <1>8. files[k].code \in Seq(Byte)
    BY <1>7 DEF File
  <1>. QED
    BY <1>6, <1>8 DEF files

LEMMA SliceTyped ==
    ASSUME NEW S, NEW s \in Seq(S), NEW skip \in Nat, NEW n \in Nat, skip + n <= Len(s)
    PROVE  LET slice == SubSeq(s, skip + 1, skip + n)
           IN  slice \in Seq(S) /\ Len(slice) = n
  <1>1. \A i \in skip + 1 .. skip + n : s[i] \in S
    OBVIOUS
  <1>. QED
    BY <1>1, SubSeqProperties

\* validate_layout: the sections follow one another, and the code is there.
LEMMA Sections ==
    ASSUME NEW p \in Partition, ProcessParses(p)
    PROVE  LET x == p.exheader
           IN  /\ {x.text.address, x.ro.address, x.data.address} \subseteq Word
               /\ {x.text.size, x.ro.size, x.data.size, x.bss} \subseteq Nat
               /\ x.text.address + x.text.size <= x.ro.address
               /\ x.ro.address + x.ro.size <= x.data.address
               /\ TextBytes(p) \in Seq(Byte) /\ Len(TextBytes(p)) = x.text.size
               /\ RoBytes(p) \in Seq(Byte) /\ Len(RoBytes(p)) = x.ro.size
               /\ DataBytes(p) \in Seq(Byte) /\ Len(DataBytes(p)) = x.data.size
  <1>. DEFINE x == p.exheader
              code == Code(p)
  <1>1. /\ {x.text.address, x.ro.address, x.data.address} \subseteq Word
        /\ {x.text.size, x.ro.size, x.data.size, x.bss} \subseteq Nat
    BY WordNat DEF Partition, Section
  <1>2. LayoutValid(x, Len(code)) /\ code \in Seq(Byte)
    BY CodeTyped DEF ProcessParses
  <1>3. /\ x.text.size + x.ro.size + x.data.size <= Len(code)
        /\ x.text.address + x.text.size <= x.ro.address
        /\ x.ro.address + x.ro.size <= x.data.address
    BY <1>2 DEF LayoutValid
  <1>. DEFINE ts == x.text.size
              rs == x.ro.size
              ds == x.data.size
  <1>4. /\ ts \in Nat /\ rs \in Nat /\ ds \in Nat /\ Len(code) \in Nat
        /\ ts + rs + ds <= Len(code)
    BY <1>1, <1>2, <1>3
  <1>5. /\ TextBytes(p) = SubSeq(code, 1, ts)
        /\ RoBytes(p) = SubSeq(code, ts + 1, ts + rs)
        /\ DataBytes(p) = SubSeq(code, (ts + rs) + 1, (ts + rs) + ds)
    BY DEF TextBytes, RoBytes, DataBytes
  <1>. HIDE DEF code, ts, rs, ds
  <1>6. SubSeq(code, 1, ts) \in Seq(Byte) /\ Len(SubSeq(code, 1, ts)) = ts
    <2>1. LET slice == SubSeq(code, 0 + 1, 0 + ts)
          IN  slice \in Seq(Byte) /\ Len(slice) = ts
      BY <1>2, <1>4, SliceTyped
    <2>. QED
      BY <1>4, <2>1
  <1>7. LET slice == SubSeq(code, ts + 1, ts + rs)
        IN  slice \in Seq(Byte) /\ Len(slice) = rs
    BY <1>2, <1>4, SliceTyped
  <1>8. LET slice == SubSeq(code, (ts + rs) + 1, (ts + rs) + ds)
        IN  slice \in Seq(Byte) /\ Len(slice) = ds
    BY <1>2, <1>4, SliceTyped
  <1>. QED
    BY <1>1, <1>3, <1>5, <1>6, <1>7, <1>8 DEF ts, rs, ds

\* Sections in ascending order, whose bytes are written, and zeros after them.
LEMMA SectionsWritten ==
    ASSUME NEW m, NEW a \in Mapped,
           NEW zeros \in Seq(Byte), NEW T \in Word, NEW R \in Word, NEW D \in Word,
           NEW tb \in Seq(Byte), NEW rb \in Seq(Byte), NEW db \in Seq(Byte),
           T + Len(tb) <= R, R + Len(rb) <= D
    PROVE  LET text == WriteBytes(Cleared(m), T, tb)
               ro == Then(text, R, rb)
               data == Then(ro, D, db)
               bss == Then(data, Wrap(D + Len(db)), zeros)
               byte == IF a - T \in 0 .. Len(tb) - 1 THEN tb[a - T + 1]
                       ELSE IF a - R \in 0 .. Len(rb) - 1 THEN rb[a - R + 1]
                       ELSE IF a - D \in 0 .. Len(db) - 1 THEN db[a - D + 1]
                       ELSE 0
           IN  (\A i \in 1 .. Len(zeros) : zeros[i] = 0) =>
               /\ a \notin Writable => bss.mem[a] = m[a]
               /\ a \in Writable => bss.mem[a] \in {0, byte}
               /\ a \in Writable /\ bss.ok => bss.mem[a] = byte
  <1>. DEFINE c == Cleared(m)
              text == WriteBytes(c, T, tb)
              ro == Then(text, R, rb)
              data == Then(ro, D, db)
              B == Wrap(D + Len(db))
              bss == Then(data, B, zeros)
              inText == a - T \in 0 .. Len(tb) - 1
              inRo == a - R \in 0 .. Len(rb) - 1
              inData == a - D \in 0 .. Len(db) - 1
              inBss == a - B \in 0 .. Len(zeros) - 1
  <1>0. SUFFICES ASSUME \A i \in 1 .. Len(zeros) : zeros[i] = 0
                 PROVE  LET byte == IF inText THEN tb[a - T + 1]
                                    ELSE IF inRo THEN rb[a - R + 1]
                                    ELSE IF inData THEN db[a - D + 1]
                                    ELSE 0
                        IN  /\ a \notin Writable => bss.mem[a] = m[a]
                            /\ a \in Writable => bss.mem[a] \in {0, byte}
                            /\ a \in Writable /\ bss.ok => bss.mem[a] = byte
    OBVIOUS
  <1>1. /\ T \in Nat /\ R \in Nat /\ D \in Nat /\ a \in Nat
        /\ Len(tb) \in Nat /\ Len(rb) \in Nat /\ Len(db) \in Nat
    BY TopUnmapped, WordNat
  <1>2. c[a] = IF a \in Writable THEN 0 ELSE m[a]
    BY DEF Cleared
  <1>3. B \in Word
    BY <1>1, HalfAssumption DEF Wrap, Word, Modulus
  <1>4. Len(zeros) \in Nat
    OBVIOUS
  <1>5. /\ \/ text.mem[a] = c[a]
           \/ a \in Writable /\ inText /\ text.mem[a] = tb[a - T + 1]
        /\ a \in Writable /\ inText /\ text.ok => text.mem[a] = tb[a - T + 1]
        /\ ~inText => text.mem[a] = c[a]
    <2>. HIDE DEF c
    <2>. QED
      BY Written
  <1>6. /\ \/ ro.mem[a] = text.mem[a]
           \/ a \in Writable /\ inRo /\ ro.mem[a] = rb[a - R + 1]
        /\ a \in Writable /\ inRo /\ ro.ok => ro.mem[a] = rb[a - R + 1]
        /\ ~inRo => ro.mem[a] = text.mem[a]
        /\ ro.ok => text.ok
    <2>. HIDE DEF text
    <2>. QED
      BY ThenWritten
  <1>7. /\ \/ data.mem[a] = ro.mem[a]
           \/ a \in Writable /\ inData /\ data.mem[a] = db[a - D + 1]
        /\ a \in Writable /\ inData /\ data.ok => data.mem[a] = db[a - D + 1]
        /\ ~inData => data.mem[a] = ro.mem[a]
        /\ data.ok => ro.ok
    <2>. HIDE DEF ro
    <2>. QED
      BY ThenWritten
  <1>8. /\ \/ bss.mem[a] = data.mem[a]
           \/ a \in Writable /\ inBss /\ bss.mem[a] = 0
        /\ ~inBss => bss.mem[a] = data.mem[a]
        /\ bss.ok => data.ok
    <2>1. inBss => zeros[a - B + 1] = 0
      <3>. HIDE DEF B
      <3>. QED
        BY <1>0, <1>1, <1>3, <1>4, WordNat
    <2>. HIDE DEF data, B
    <2>2. /\ \/ bss.mem[a] = data.mem[a]
             \/ /\ a \in Writable /\ a - B \in 0 .. Len(zeros) - 1
                /\ bss.mem[a] = zeros[a - B + 1]
          /\ ~(a - B \in 0 .. Len(zeros) - 1) => bss.mem[a] = data.mem[a]
          /\ bss.ok => data.ok
      BY <1>3, ThenWritten
    <2>. QED
      BY <1>4, <2>1, <2>2
  <1>9. /\ inText => ~inRo /\ ~inData
        /\ inRo => ~inData
    BY <1>1
  \* The zeros come after the data, or the data has not been written: then D
  \* plus its length may have wrapped around.
  <1>10. data.ok /\ inBss => ~inText /\ ~inRo /\ ~inData
    <2>1. SUFFICES ASSUME data.ok, inBss
                   PROVE  ~inText /\ ~inRo /\ ~inData
      OBVIOUS
    <2>2. D + Len(db) < Modulus
      <3>1. CASE Len(db) = 0
        BY <1>1, <3>1, HalfAssumption DEF Word, Modulus
      <3>2. CASE Len(db) > 0
        <4>1. CanRead(D, (Len(db) - 1) + 1)
          BY <1>1, <2>1, <3>2 DEF Then, WriteBytes
        <4>2. D + (Len(db) - 1) < Modulus - 1
          <5>. DEFINE k == Len(db) - 1
          <5>1. k \in Nat
            BY <1>1, <3>2
          <5>. HIDE DEF k
          <5>2. D + k < Modulus - 1
            BY <4>1, <5>1, NoWrap DEF k
          <5>. QED
            BY <5>2 DEF k
        <4>. QED
          BY <1>1, <4>2, HalfAssumption DEF Modulus
      <3>. QED
        BY <1>1, <3>1, <3>2
    <2>3. B = D + Len(db)
      <3>1. D + Len(db) \in Int /\ 0 <= D + Len(db) /\ Modulus \in Nat
        BY <1>1, HalfAssumption DEF Modulus
      <3>. QED
        BY <2>2, <3>1, WrapAdd
    <2>. HIDE DEF B
    <2>. QED
      BY <1>1, <2>1, <2>3
  <1>11. bss.mem[a] # data.mem[a] => data.ok
    BY DEF Then
  <1>. HIDE DEF c, text, ro, data, bss, inText, inRo, inData, inBss
  <1>. QED
    BY <1>2, <1>5, <1>6, <1>7, <1>8, <1>9, <1>10, <1>11

\* install_process_image, of memory in which what is not writable is m: every
\* byte that may be written is zero or the image's, and the image's if all of
\* it has a place, although the end of the data and of bss is not checked.
THEOREM InstallExact ==
    ASSUME NEW m, NEW p \in Partition, ProcessParses(p), NEW a \in Mapped
    PROVE  LET r == Install(Cleared(m), p)
           IN  /\ a \notin Writable => r.mem[a] = m[a]
               /\ a \in Writable => r.mem[a] \in {0, ImageByte(p, a)}
               /\ a \in Writable /\ r.ok => r.mem[a] = ImageByte(p, a)
  <1>. DEFINE x == p.exheader
              T == x.text.address
              R == x.ro.address
              D == x.data.address
              tb == TextBytes(p)
              rb == RoBytes(p)
              db == DataBytes(p)
  <1>1. /\ T \in Word /\ R \in Word /\ D \in Word /\ x.bss \in Nat
        /\ tb \in Seq(Byte) /\ Len(tb) = x.text.size
        /\ rb \in Seq(Byte) /\ Len(rb) = x.ro.size
        /\ db \in Seq(Byte) /\ Len(db) = x.data.size
        /\ T + Len(tb) <= R /\ R + Len(rb) <= D
    BY Sections
  <1>2. Install(Cleared(m), p) =
           Then(Then(Then(WriteBytes(Cleared(m), T, tb), R, rb), D, db),
                Wrap(D + Len(db)), [i \in 1 .. x.bss |-> 0])
    BY <1>1 DEF Install
  <1>3. ImageByte(p, a) = IF a - T \in 0 .. Len(tb) - 1 THEN tb[a - T + 1]
                          ELSE IF a - R \in 0 .. Len(rb) - 1 THEN rb[a - R + 1]
                          ELSE IF a - D \in 0 .. Len(db) - 1 THEN db[a - D + 1]
                          ELSE 0
    <2>1. /\ a \in Nat /\ T \in Nat /\ R \in Nat /\ D \in Nat
          /\ Len(tb) \in Nat /\ Len(rb) \in Nat /\ Len(db) \in Nat
      <3>. HIDE DEF T, R, D, tb, rb, db
      <3>. QED
        BY <1>1, TopUnmapped, WordNat
    <2>2. /\ a \in T .. T + Len(tb) - 1 <=> a - T \in 0 .. Len(tb) - 1
          /\ a \in R .. R + Len(rb) - 1 <=> a - R \in 0 .. Len(rb) - 1
          /\ a \in D .. D + Len(db) - 1 <=> a - D \in 0 .. Len(db) - 1
      <3>. HIDE DEF T, R, D, tb, rb, db
      <3>. QED
        BY <2>1
    <2>. QED
      BY <1>1, <2>2 DEF ImageByte
  <1>. HIDE DEF T, R, D, tb, rb, db
  <1>. DEFINE zeros == [i \in 1 .. x.bss |-> 0]
  <1>4. /\ T \in Word /\ R \in Word /\ D \in Word
        /\ tb \in Seq(Byte) /\ rb \in Seq(Byte) /\ db \in Seq(Byte)
        /\ T + Len(tb) <= R /\ R + Len(rb) <= D
    BY <1>1
  <1>5. zeros \in Seq(Byte) /\ \A i \in 1 .. Len(zeros) : zeros[i] = 0
    <2>. DEFINE n == x.bss
    <2>1. n \in Nat
      BY <1>1
    <2>2. 0 \in Byte
      BY WordFacts DEF Byte
    <2>. HIDE DEF n
    <2>3. [i \in 1 .. n |-> 0] \in Seq(Byte)
      BY <2>1, <2>2
    <2>4. Len([i \in 1 .. n |-> 0]) = n
      BY <2>1
    <2>5. \A i \in 1 .. Len([j \in 1 .. n |-> 0]) : [j \in 1 .. n |-> 0][i] = 0
      BY <2>1, <2>4
    <2>. QED
      BY <2>3, <2>5 DEF n
  <1>. HIDE DEF zeros
  <1>6. LET r == Then(Then(Then(WriteBytes(Cleared(m), T, tb), R, rb), D, db),
                      Wrap(D + Len(db)), zeros)
            byte == IF a - T \in 0 .. Len(tb) - 1 THEN tb[a - T + 1]
                    ELSE IF a - R \in 0 .. Len(rb) - 1 THEN rb[a - R + 1]
                    ELSE IF a - D \in 0 .. Len(db) - 1 THEN db[a - D + 1]
                    ELSE 0
        IN  /\ a \notin Writable => r.mem[a] = m[a]
            /\ a \in Writable => r.mem[a] \in {0, byte}
            /\ a \in Writable /\ r.ok => r.mem[a] = byte
    BY <1>4, <1>5, SectionsWritten
  <1>. QED
    BY <1>2, <1>3, <1>6 DEF zeros

-----------------------------------------------------------------------------
(* Loading *)

\* The program of an image that was parsed, and its entry point.
LEMMA ParsedProgram ==
    ASSUME NEW i \in Parsed
    PROVE  LET p == Program(Roms[i])
           IN  /\ p \in Partition /\ ProcessParses(p)
               /\ p.entry - p.exheader.text.address \in 0 .. p.exheader.text.size - 1
  <1>. DEFINE rom == Roms[i]
              parts == rom.partitions
              present == {j \in DOMAIN parts : Present(parts[j])}
              p == Program(rom)
  <1>1. rom \in Image /\ ImageParses(rom) /\ ProcessParses(p)
    BY MachineAssumption DEF Parsed, Accepted
  <1>2. parts \in Seq(Partition)
    BY <1>1 DEF Image
  <1>3. present \subseteq Nat /\ present # {}
    BY <1>1, <1>2 DEF ImageParses
  <1>4. PICK j \in present : \A k \in present : j <= k
    <2>. HIDE DEF present
    <2>. QED
      BY <1>3, Smallest
  <1>5. \A k \in 1 .. j - 1 : ~Present(parts[k])
    BY <1>2, <1>4
  <1>6. \E k \in DOMAIN parts : Present(parts[k]) /\ \A l \in 1 .. k - 1 : ~Present(parts[l])
    BY <1>4, <1>5
  <1>7. PICK k \in DOMAIN parts : p = parts[k]
    BY <1>6 DEF Program
  <1>8. p \in Partition
    <2>. HIDE DEF parts
    <2>. QED
      BY <1>2, <1>7
  <1>9. p.entry - p.exheader.text.address \in 0 .. p.exheader.text.size - 1
    <2>. DEFINE T == p.exheader.text.address
                n == p.exheader.text.size
    <2>1. p.entry \in Nat /\ T \in Nat /\ n \in Nat
      BY <1>8, WordNat DEF Partition, Section
    <2>2. T <= p.entry /\ LayoutValid(p.exheader, Len(Code(p)))
          /\ p.entry < (IF T + n < Modulus THEN T + n ELSE Modulus - 1)
      BY <1>1 DEF ProcessParses
    <2>3. T + n < Modulus
      BY <2>2 DEF LayoutValid
    <2>. QED
      BY <2>1, <2>2, <2>3
  <1>. QED
    BY <1>1, <1>8, <1>9

\* MemoryIsTheImage of the specification, for every memory and all images: a
\* load that succeeds leaves the image in memory and the CPU at its entry in
\* the text; one that fails leaves zeros, or bytes of the rejected image, and
\* the CPU as it was.  The bytes come from InstallExact; no other action is a
\* load.
THEOREM MemoryFaithful == MachineSpec => MemoryIsTheImage
<1>. DEFINE Faithful ==
        last' # NoLoad /\ loads' # loads =>
          LET p == Program(Roms[last'.rom])
          IN  /\ \A a \in Mapped \ Writable : mem'[a] = mem[a]
              /\ last'.ok =>
                    /\ \A a \in Writable : mem'[a] = ImageByte(p, a)
                    /\ cpu'.regs[PC] - p.exheader.text.address
                           \in 0 .. p.exheader.text.size - 1
              /\ ~last'.ok =>
                    /\ \A a \in Writable :
                          mem'[a] = 0 \/ (last'.rom \in Parsed /\ mem'[a] = ImageByte(p, a))
                    /\ UNCHANGED cpu
<1>0. Writable \subseteq Mapped
  BY DEF Writable, Mapped
<1>1. ASSUME NEW i \in DOMAIN Roms, LoadRom(i)
      PROVE  Faithful
  <2>. DEFINE p == Program(Roms[i])
              r == Install(Cleared(mem), p)
  <2>1. CASE i \notin Parsed
    <3>1. mem' = Cleared(mem) /\ last' = [rom |-> i, ok |-> FALSE] /\ UNCHANGED cpu
      BY <1>1, <2>1 DEF LoadRom
    <3>2. \A a \in Mapped : Cleared(mem)[a] = IF a \in Writable THEN 0 ELSE mem[a]
      BY DEF Cleared
    <3>. QED
      BY <1>0, <3>1, <3>2
  <2>2. CASE i \in Parsed
    <3>1. /\ \A a \in Mapped \ Writable : r.mem[a] = mem[a]
          /\ \A a \in Writable : r.mem[a] = 0 \/ r.mem[a] = ImageByte(p, a)
          /\ r.ok => \A a \in Writable : r.mem[a] = ImageByte(p, a)
      BY <1>0, <2>2, ParsedProgram, InstallExact
    <3>2. CASE ~r.ok
      <4>1. mem' = r.mem /\ last' = [rom |-> i, ok |-> FALSE] /\ UNCHANGED cpu
        BY <1>1, <2>2, <3>2 DEF LoadRom
      <4>. HIDE DEF r
      <4>. QED
        BY <2>2, <3>1, <4>1
    <3>3. CASE r.ok
      <4>1. mem' = r.mem /\ last' = [rom |-> i, ok |-> TRUE] /\ cpu' = ResetCpu(p.entry)
        BY <1>1, <2>2, <3>3 DEF LoadRom
      <4>2. cpu'.regs[PC] = p.entry
        BY <4>1 DEF ResetCpu, Register, PC
      <4>3. p.entry - p.exheader.text.address \in 0 .. p.exheader.text.size - 1
        BY <2>2, ParsedProgram
      <4>. HIDE DEF r
      <4>. QED
        BY <2>2, <3>1, <3>3, <4>1, <4>2, <4>3
    <3>. QED
      BY <3>2, <3>3
  <2>. QED
    BY <2>1, <2>2
<1>2. ASSUME MachineNext, \A i \in DOMAIN Roms : ~LoadRom(i)
      PROVE  last' = NoLoad \/ loads' = loads
  <2>1. CASE Reset
    BY <2>1 DEF Reset
  <2>2. CASE StepArm
    BY <2>2 DEF StepArm
  <2>3. CASE StepThumb
    BY <2>3 DEF StepThumb
  <2>4. CASE PrefetchAbort
    BY <2>4 DEF PrefetchAbort
  <2>5. CASE \E table \in PageTables : Remap(table)
    BY <2>5 DEF Remap
  <2>6. CASE Resume
    BY <2>6 DEF Resume
  <2>. QED
    BY <1>2, <2>1, <2>2, <2>3, <2>4, <2>5, <2>6 DEF MachineNext
<1>3. [MachineNext]_machineVars => [Faithful]_machineVars
  <2>. SUFFICES ASSUME MachineNext
                PROVE  Faithful
    OBVIOUS
  <2>1. CASE \E i \in DOMAIN Roms : LoadRom(i)
    <3>. HIDE DEF Faithful
    <3>. QED
      BY <1>1, <2>1
  <2>2. CASE \A i \in DOMAIN Roms : ~LoadRom(i)
    BY <1>2, <2>2
  <2>. QED
    BY <2>1, <2>2
<1>. QED
  BY <1>3, PTL DEF MachineSpec, MemoryIsTheImage

-----------------------------------------------------------------------------
(* Types *)

CpuState ==
    [regs : [Register -> Word], f : Nzcv, t : BOOLEAN, cp15 : [SystemRegister -> Word],
     halted : BOOLEAN]

MachineInv ==
    /\ cpu \in CpuState
    /\ mem \in Contents
    /\ pages \subseteq AllPages
    /\ trap.pc \in Word
    /\ loaded \in BOOLEAN
    /\ loads \in 0 .. MaxLoads
    /\ steps \in 0 .. MaxSteps

LEMMA CpuFields ==
    ASSUME NEW c \in CpuState
    PROVE  /\ c.regs \in [Register -> Word] /\ c.f \in Nzcv /\ c.t \in BOOLEAN
           /\ c.cp15 \in [SystemRegister -> Word] /\ c.halted \in BOOLEAN
           /\ \A r \in Register : c.regs[r] \in Word
           /\ \A r \in SystemRegister : c.cp15[r] \in Word
<1>1. /\ c.regs \in [Register -> Word] /\ c.f \in Nzcv /\ c.t \in BOOLEAN
      /\ c.cp15 \in [SystemRegister -> Word] /\ c.halted \in BOOLEAN
  BY Zenon DEF CpuState
<1>. QED  BY <1>1

LEMMA ZeroWord == 0 \in Word /\ \A b \in {0, 1, 5} : b \in Word
  BY WordFacts DEF Word

LEMMA ResetTyped ==
    ASSUME NEW entry \in Word
    PROVE  ResetCpu(entry) \in CpuState
<1>1. [r \in Register |-> IF r = PC THEN entry ELSE 0] \in [Register -> Word]
  BY ZeroWord
<1>2. [i \in SystemRegister |-> 0] \in [SystemRegister -> Word]
  BY ZeroWord
<1>3. ClearFlags \in Nzcv
  BY DEF ClearFlags, Nzcv
<1>. QED  BY <1>1, <1>2, <1>3, Zenon DEF ResetCpu, CpuState

\* Zero and the bytes of an image are bytes.
LEMMA ClearedTyped ==
    ASSUME NEW m \in Contents
    PROVE  Cleared(m) \in Contents
<1>1. 0 \in Byte
  BY WordFacts DEF Byte
<1>. QED  BY <1>1 DEF Cleared, Contents

LEMMA ThenTyped ==
    ASSUME NEW r, r.mem \in Contents, NEW a, NEW bytes \in Seq(Byte)
    PROVE  Then(r, a, bytes).mem \in Contents
  BY WriteBytesTyped DEF Then

LEMMA InstallTyped ==
    ASSUME NEW m \in Contents, NEW p \in Partition, ProcessParses(p)
    PROVE  Install(m, p).mem \in Contents
<1>. DEFINE x == p.exheader
            zeros == [i \in 1 .. x.bss |-> 0]
            text == WriteBytes(m, x.text.address, TextBytes(p))
            ro == Then(text, x.ro.address, RoBytes(p))
            data == Then(ro, x.data.address, DataBytes(p))
            end == Wrap(x.data.address + x.data.size)
<1>1. /\ TextBytes(p) \in Seq(Byte) /\ RoBytes(p) \in Seq(Byte) /\ DataBytes(p) \in Seq(Byte)
      /\ x.bss \in Nat
  BY Sections
<1>2. zeros \in Seq(Byte)
  <2>1. 0 \in Byte
    BY WordFacts DEF Byte
  <2>. DEFINE n == x.bss
  <2>2. n \in Nat
    BY <1>1
  <2>. HIDE DEF n
  <2>3. [i \in 1 .. n |-> 0] \in Seq(Byte)
    BY <2>1, <2>2
  <2>. QED  BY <2>3 DEF n
<1>3. Install(m, p) = Then(data, end, zeros)
  BY DEF Install
<1>. HIDE DEF zeros, end
<1>4. text.mem \in Contents
  BY <1>1, WriteBytesTyped
<1>. HIDE DEF text
<1>5. ro.mem \in Contents
  BY <1>1, <1>4, ThenTyped
<1>. HIDE DEF ro
<1>6. data.mem \in Contents
  BY <1>1, <1>5, ThenTyped
<1>. HIDE DEF data
<1>. QED  BY <1>2, <1>3, <1>6, ThenTyped

LEMMA FetchedTyped ==
    ASSUME MachineInv, NEW size \in Int
    PROVE  /\ Fetched(size) \in MachineState
           /\ Fetched(size).fault = NoFault
           /\ Fetched(size).regs = [cpu.regs EXCEPT ![PC] = Wrap(@ + size)]
           /\ Fetched(size).mem = mem
           /\ Fetched(size).t = cpu.t /\ Fetched(size).f = cpu.f
<1>1. cpu \in CpuState /\ mem \in Contents
  BY DEF MachineInv
<1>2. PC \in Register /\ cpu.regs[PC] \in Int /\ cpu.regs \in [Register -> Word]
  BY <1>1, CpuFields, WordFacts DEF PC, Register, Word
<1>. DEFINE regs == [cpu.regs EXCEPT ![PC] = Wrap(@ + size)]
<1>3. regs \in [Register -> Word]
  <2>1. cpu.regs[PC] + size \in Int
    BY <1>2
  <2>2. Wrap(cpu.regs[PC] + size) \in Word
    BY <2>1, WrapIsWord
  <2>. QED  BY <1>2, <2>2
<1>4. Fetched(size) = [regs |-> regs, f |-> cpu.f, t |-> cpu.t, mem |-> mem,
                       cp15 |-> cpu.cp15, fault |-> NoFault, far |-> 0]
  BY DEF Fetched
<1>. HIDE DEF regs
<1>5. Fetched(size) \in MachineState
  BY <1>1, <1>3, <1>4, CpuFields, ZeroWord DEF MachineState, Faults
<1>6. /\ Fetched(size).fault = NoFault /\ Fetched(size).regs = regs
      /\ Fetched(size).mem = mem /\ Fetched(size).t = cpu.t /\ Fetched(size).f = cpu.f
  BY <1>4
<1>. QED  BY <1>5, <1>6 DEF regs

\* What an instruction leaves in the CPU, with the registers of an abort or
\* without.
LEMMA CpuOfTyped ==
    ASSUME NEW s \in MachineState
    PROVE  /\ CpuOf(s) \in CpuState
           /\ [CpuOf(s) EXCEPT !.halted = TRUE] \in CpuState
           /\ s.fault # NoFault =>
                 [CpuOf(s) EXCEPT !.cp15[DFAR] = s.far,
                                  !.cp15[DFSR] = FaultStatus[s.fault]] \in CpuState
<1>1. CpuOf(s) \in CpuState
  BY StateFields, Zenon DEF CpuOf, CpuState
<1>2. \A c \in CpuState : [c EXCEPT !.halted = TRUE] \in CpuState
  BY DEF CpuState
<1>3. ASSUME s.fault # NoFault
      PROVE  [CpuOf(s) EXCEPT !.cp15[DFAR] = s.far,
                              !.cp15[DFSR] = FaultStatus[s.fault]] \in CpuState
  <2>1. s.far \in Word /\ FaultStatus[s.fault] \in Word
    <3>1. s.far \in Word /\ s.fault \in Faults
      BY StateFields
    <3>2. FaultStatus[s.fault] \in {1, 5}
      BY <1>3, <3>1 DEF Faults, FaultStatus
    <3>. QED  BY <3>1, <3>2, ZeroWord
  <2>2. \A c \in CpuState, x, y \in Word :
            [c EXCEPT !.cp15[DFAR] = x, !.cp15[DFSR] = y] \in CpuState
    BY DEF CpuState, SystemRegister, DFAR, DFSR
  <2>. QED  BY <1>1, <2>1, <2>2
<1>. QED  BY <1>1, <1>2, <1>3

LEMMA CountedTyped ==
    ASSUME MachineInv, Counted
    PROVE  steps' \in 0 .. MaxSteps
  BY MachineAssumption DEF MachineInv, Counted

LEMMA PageOfWord ==
    ASSUME NEW a \in Word
    PROVE  Page(a) \in AllPages
  BY DEF AllPages

LEMMA LoadRomTyped ==
    ASSUME MachineInv, NEW i \in DOMAIN Roms, LoadRom(i)
    PROVE  MachineInv'
<1>. DEFINE p == Program(Roms[i])
            installed == Install(Cleared(mem), p)
<1>1. /\ mem' \in {Cleared(mem), installed.mem}
      /\ loads < MaxLoads /\ loads' = loads + 1 /\ steps' = steps
  BY DEF LoadRom
<1>2. i \in Parsed => p \in Partition /\ ProcessParses(p)
  BY ParsedProgram
<1>3. Cleared(mem) \in Contents
  BY ClearedTyped DEF MachineInv
<1>4. i \in Parsed => installed.mem \in Contents
  BY <1>2, <1>3, InstallTyped
<1>5. i \in Parsed => ResetCpu(p.entry) \in CpuState
  <2>1. i \in Parsed => p.entry \in Word
    BY <1>2 DEF Partition
  <2>. QED  BY <2>1, ResetTyped
<1>6. /\ \/ mem' = Cleared(mem)
         \/ mem' = installed.mem /\ i \in Parsed
      /\ \/ UNCHANGED <<loaded, cpu, pages, trap>>
         \/ /\ loaded' = TRUE /\ cpu' = ResetCpu(p.entry) /\ i \in Parsed
            /\ pages' = AllPages /\ trap' = NoTrap
  BY DEF LoadRom
<1>. HIDE DEF p, installed
<1>7. mem' \in Contents
  BY <1>3, <1>4, <1>6
<1>8. loads' \in 0 .. MaxLoads /\ steps' \in 0 .. MaxSteps
  BY <1>1, MachineAssumption DEF MachineInv
<1>9. loaded' \in BOOLEAN /\ cpu' \in CpuState /\ pages' \subseteq AllPages /\ trap'.pc \in Word
  <2>1. CASE UNCHANGED <<loaded, cpu, pages, trap>>
    BY <2>1 DEF MachineInv
  <2>2. CASE /\ loaded' = TRUE /\ cpu' = ResetCpu(p.entry) /\ i \in Parsed
             /\ pages' = AllPages /\ trap' = NoTrap
    <3>1. NoTrap.pc \in Word
      BY ZeroWord DEF NoTrap
    <3>. QED  BY <1>5, <2>2, <3>1
  <2>. QED  BY <1>6, <2>1, <2>2
<1>. QED  BY <1>7, <1>8, <1>9 DEF MachineInv

LEMMA ResetStepTyped ==
    ASSUME MachineInv, Reset
    PROVE  MachineInv'
<1>1. ResetCpu(0) \in CpuState /\ Cleared(mem) \in Contents /\ NoTrap.pc \in Word
  BY ResetTyped, ClearedTyped, ZeroWord DEF MachineInv, NoTrap
<1>2. /\ loaded' = FALSE /\ cpu' = ResetCpu(0) /\ mem' = Cleared(mem) /\ pages' = AllPages
      /\ trap' = NoTrap /\ loads < MaxLoads /\ loads' = loads + 1 /\ steps' = steps
  BY DEF Reset
<1>3. loads' \in 0 .. MaxLoads /\ steps' \in 0 .. MaxSteps
  BY <1>2, MachineAssumption DEF MachineInv
<1>. QED  BY <1>1, <1>2, <1>3 DEF MachineInv

\* An instruction that ends, or is aborted, in a machine state.
LEMMA ExecutedTyped ==
    ASSUME MachineInv, NEW s \in MachineState, NEW i, Complete(s) \/ DataAbort(i, s)
    PROVE  cpu' \in CpuState /\ mem' \in Contents /\ trap'.pc \in Word
<1>1. cpu.regs[PC] \in Word
  BY CpuFields DEF MachineInv, PC, Register
<1>2. CASE Complete(s)
  BY <1>2, CpuOfTyped, StateFields DEF Complete, MachineInv
<1>3. CASE DataAbort(i, s)
  <2>1. /\ s.fault # NoFault
        /\ cpu' = [CpuOf(s) EXCEPT !.cp15[DFAR] = s.far,
                                   !.cp15[DFSR] = FaultStatus[s.fault]]
        /\ mem' = s.mem /\ trap' = [kind |-> "data", pc |-> cpu.regs[PC]]
    BY <1>3 DEF DataAbort
  <2>2. cpu' \in CpuState
    BY <2>1, CpuOfTyped, Zenon
  <2>. QED  BY <1>1, <2>1, <2>2, StateFields
<1>. QED  BY <1>2, <1>3

LEMMA ArmInstructionTyped ==
    ASSUME MachineInv, NEW e \in Arm, ArmInstruction(e)
    PROVE  /\ cpu' \in CpuState /\ mem' \in Contents /\ trap'.pc \in Word
           /\ pages' \subseteq AllPages
<1>. DEFINE s == Fetched(4)
            r == ExecuteArm(e, s, pages, cpu.regs[PC])
<1>1. s \in MachineState
  <2>. DEFINE size == 4
  <2>1. size \in Int
    OBVIOUS
  <2>2. Fetched(size) \in MachineState
    <3>. HIDE DEF size
    <3>. QED  BY <2>1, FetchedTyped
  <2>. QED  BY <2>2
<1>2. cpu.regs[PC] \in Word
  BY CpuFields DEF MachineInv, PC, Register
<1>3. /\ cpu \in CpuState /\ mem \in Contents /\ trap.pc \in Word /\ pages \subseteq AllPages
  BY DEF MachineInv
<1>. HIDE DEF s
<1>4. CASE Complete(s) /\ UNCHANGED pages
  BY <1>1, <1>3, <1>4, ExecutedTyped
<1>5. CASE cpu' = [CpuOf(s) EXCEPT !.halted = TRUE] /\ UNCHANGED <<mem, pages, trap>>
  BY <1>1, <1>3, <1>5, CpuOfTyped
<1>6. CASE trap' = [kind |-> Handler(e), pc |-> cpu.regs[PC]] /\ UNCHANGED <<cpu, mem, pages>>
  BY <1>2, <1>3, <1>6
<1>7. CASE /\ Handler(e) \notin {"wfi", "swi", "undefined"}
           /\ Complete(r) \/ DataAbort(e, r)
           /\ pages' \in IF ChangesTranslation(e) THEN PageTables ELSE {pages}
  <2>1. r \in MachineState
    <3>1. Handler(e) \in Executed
      BY <1>7, Handlers DEF Executed
    <3>. QED  BY <1>1, <1>2, <3>1, ExecuteArmTyped
  <2>. HIDE DEF r
  <2>2. cpu' \in CpuState /\ mem' \in Contents /\ trap'.pc \in Word
    BY <1>7, <2>1, ExecutedTyped
  <2>3. pages' \subseteq AllPages
    BY <1>3, <1>7, MachineAssumption
  <2>. QED  BY <2>2, <2>3
<1>. QED  BY <1>4, <1>5, <1>6, <1>7 DEF ArmInstruction, s

LEMMA ThumbInstructionTyped ==
    ASSUME MachineInv, NEW t \in Thumb, ThumbInstruction(t)
    PROVE  cpu' \in CpuState /\ mem' \in Contents /\ trap'.pc \in Word
<1>. DEFINE s == Fetched(2)
            r == ExecuteThumb(t, s, pages, cpu.regs[PC])
<1>1. s \in MachineState
  <2>. DEFINE size == 2
  <2>1. size \in Int
    OBVIOUS
  <2>2. Fetched(size) \in MachineState
    <3>. HIDE DEF size
    <3>. QED  BY <2>1, FetchedTyped
  <2>. QED  BY <2>2
<1>2. cpu.regs[PC] \in Word
  BY CpuFields DEF MachineInv, PC, Register
<1>. HIDE DEF s
<1>3. CASE trap' = [kind |-> ThumbHandler(t), pc |-> cpu.regs[PC]] /\ UNCHANGED <<cpu, mem>>
  BY <1>2, <1>3 DEF MachineInv
<1>4. CASE ThumbHandler(t) # "undefined" /\ (Complete(r) \/ DataAbort(t, r))
  <2>1. r \in MachineState
    BY <1>1, <1>2, <1>4, ExecuteThumbTyped
  <2>. HIDE DEF r
  <2>. QED  BY <1>4, <2>1, ExecutedTyped
<1>. QED  BY <1>3, <1>4 DEF ThumbInstruction, s

LEMMA PrefetchTyped ==
    ASSUME MachineInv, PrefetchAbort
    PROVE  MachineInv'
<1>. DEFINE size == IF cpu.t THEN 2 ELSE 4
            kind == FetchFault(size)
<1>1. /\ kind # NoFault /\ Counted
      /\ cpu' = [cpu EXCEPT !.cp15[IFAR] = cpu.regs[PC], !.cp15[IFSR] = FaultStatus[kind]]
      /\ trap' = [kind |-> "prefetch", pc |-> cpu.regs[PC]]
      /\ UNCHANGED <<loaded, mem, pages, loads>>
  BY DEF PrefetchAbort
<1>2. kind \in {"alignment", "translation", NoFault}
  BY DEF FetchFault
<1>. HIDE DEF kind
<1>3. FaultStatus[kind] \in Word
  <2>1. FaultStatus[kind] \in {1, 5}
    BY <1>1, <1>2 DEF FaultStatus
  <2>. QED  BY <2>1, ZeroWord
<1>4. cpu.regs[PC] \in Word
  BY CpuFields DEF MachineInv, PC, Register
<1>5. \A c \in CpuState, x, y \in Word :
          [c EXCEPT !.cp15[IFAR] = x, !.cp15[IFSR] = y] \in CpuState
  BY DEF CpuState, SystemRegister, IFAR, IFSR
<1>6. cpu' \in CpuState
  BY <1>1, <1>3, <1>4, <1>5 DEF MachineInv
<1>7. steps' \in 0 .. MaxSteps
  BY <1>1, CountedTyped
<1>. QED  BY <1>1, <1>4, <1>6, <1>7 DEF MachineInv

LEMMA ResumeTyped ==
    ASSUME MachineInv, Resume
    PROVE  MachineInv'
<1>. DEFINE pc == IF trap.kind \in {"data", "prefetch"} THEN trap.pc ELSE Wrap(trap.pc + 4)
<1>1. /\ pages' \in {pages \cup {Page(cpu.cp15[DFAR])}, pages \cup {Page(cpu.cp15[IFAR])}, pages}
      /\ cpu' = [cpu EXCEPT !.f = ClearFlags, !.t = FALSE, !.regs[PC] = pc]
      /\ trap' = NoTrap /\ UNCHANGED <<loaded, mem, loads, steps>>
  BY DEF Resume
<1>2. pc \in Word
  <2>1. trap.pc \in Word
    BY DEF MachineInv
  <2>2. trap.pc + 4 \in Int
    BY <2>1, WordFacts DEF Word
  <2>. QED  BY <2>1, <2>2, WrapIsWord
<1>. HIDE DEF pc
<1>3. cpu' \in CpuState
  <2>1. ClearFlags \in Nzcv
    BY DEF ClearFlags, Nzcv
  <2>2. \A c \in CpuState, f \in Nzcv, w \in Word :
            [c EXCEPT !.f = f, !.t = FALSE, !.regs[PC] = w] \in CpuState
    BY DEF CpuState, PC, Register
  <2>. QED  BY <1>1, <1>2, <2>1, <2>2 DEF MachineInv
<1>4. pages' \subseteq AllPages
  <2>1. cpu.cp15[DFAR] \in Word /\ cpu.cp15[IFAR] \in Word
    BY CpuFields DEF MachineInv, DFAR, IFAR, SystemRegister
  <2>2. Page(cpu.cp15[DFAR]) \in AllPages /\ Page(cpu.cp15[IFAR]) \in AllPages
    BY <2>1, PageOfWord
  <2>. QED  BY <1>1, <2>2 DEF MachineInv
<1>5. NoTrap.pc \in Word
  BY ZeroWord DEF NoTrap
<1>. QED  BY <1>1, <1>3, <1>4, <1>5 DEF MachineInv

LEMMA MachineInvStep ==
    ASSUME MachineInv, [MachineNext]_machineVars
    PROVE  MachineInv'
<1>1. CASE \E i \in DOMAIN Roms : LoadRom(i)
  BY <1>1, LoadRomTyped
<1>2. CASE Reset
  BY <1>2, ResetStepTyped
<1>3. CASE StepArm
  <2>1. /\ Counted /\ UNCHANGED <<loaded, loads>>
        /\ \E e \in ArmCode : ArmInstruction(e)
    BY <1>3 DEF StepArm
  <2>2. steps' \in 0 .. MaxSteps
    BY <2>1, CountedTyped
  <2>3. /\ cpu' \in CpuState /\ mem' \in Contents /\ trap'.pc \in Word /\ pages' \subseteq AllPages
    BY <2>1, ArmInstructionTyped, MachineAssumption
  <2>. QED  BY <2>1, <2>2, <2>3 DEF MachineInv
<1>4. CASE StepThumb
  <2>1. /\ Counted /\ UNCHANGED <<loaded, pages, loads>>
        /\ \E t \in ThumbCode : ThumbInstruction(t)
    BY <1>4 DEF StepThumb
  <2>2. steps' \in 0 .. MaxSteps
    BY <2>1, CountedTyped
  <2>3. cpu' \in CpuState /\ mem' \in Contents /\ trap'.pc \in Word
    BY <2>1, ThumbInstructionTyped, MachineAssumption
  <2>. QED  BY <2>1, <2>2, <2>3 DEF MachineInv
<1>5. CASE PrefetchAbort
  BY <1>5, PrefetchTyped
<1>6. CASE \E table \in PageTables : Remap(table)
  <2>1. PICK table \in PageTables : Remap(table)
    BY <1>6
  <2>2. pages' = table /\ UNCHANGED <<loaded, cpu, mem, trap, loads, steps>>
    BY <2>1 DEF Remap
  <2>. QED  BY <2>2, MachineAssumption DEF MachineInv
<1>7. CASE Resume
  BY <1>7, ResumeTyped
<1>8. CASE UNCHANGED machineVars
  BY <1>8 DEF machineVars, MachineInv
<1>. QED  BY <1>1, <1>2, <1>3, <1>4, <1>5, <1>6, <1>7, <1>8 DEF MachineNext

LEMMA MachineInvInit == MachineInit => MachineInv
<1>. SUFFICES ASSUME MachineInit PROVE MachineInv
  OBVIOUS
<1>1. ResetCpu(0) \in CpuState /\ 0 \in Word /\ NoTrap.pc \in Word
  BY ResetTyped, ZeroWord DEF NoTrap
<1>2. mem \in Contents
  <2>1. 0 \in Byte
    BY WordFacts DEF Byte
  <2>. QED  BY <2>1 DEF MachineInit, Contents
<1>3. 0 \in 0 .. MaxLoads /\ 0 \in 0 .. MaxSteps
  BY MachineAssumption
<1>. QED  BY <1>1, <1>2, <1>3 DEF MachineInit, MachineInv

LEMMA MachineInvHolds == MachineSpec => []MachineInv
  BY MachineInvInit, MachineInvStep, PTL DEF MachineSpec

\* Whatever instructions a program has, whatever an image holds, and whatever
\* faults on the way, registers hold words and memory holds bytes: no result,
\* no effective address, no byte of a register that was stored and no address
\* a fault leaves in CP15 is out of range.
THEOREM MachineTypeCorrect == MachineSpec => []MachineTypeOK
<1>1. MachineInv => MachineTypeOK
  BY CpuFields DEF MachineInv, MachineTypeOK
<1>. QED  BY <1>1, MachineInvHolds, PTL

-----------------------------------------------------------------------------
(* Restarting an instruction that was aborted *)

\* The machine state that the instruction at the program counter starts from,
\* with registers regs and memory m, and what a transfer makes of it when
\* nothing is in its way.
Begun(regs, m) ==
    [regs |-> [regs EXCEPT ![PC] = Wrap(@ + 4)], f |-> ClearFlags, t |-> FALSE, mem |-> m,
     cp15 |-> [i \in SystemRegister |-> 0], fault |-> NoFault, far |-> 0]
Unhindered(e, regs, m) == ExecuteArm(e, Begun(regs, m), AllPages, regs[PC])

\* While an instruction is aborted, its handler or the program is about to
\* execute it again; and if it ran to its end now, with its address in the
\* program counter, it would leave what it would have left at first.
RestartInv ==
    aborted # NoAbort =>
        /\ aborted.instr \in Arm /\ Handler(aborted.instr) \in Transfers
        /\ aborted.regs \in [Register -> Word] /\ aborted.mem \in Contents
        /\ trap = NoTrap => ~cpu.t /\ cpu.regs[PC] = aborted.regs[PC]
        /\ trap # NoTrap => trap.kind \in {"data", "prefetch"} /\ trap.pc = aborted.regs[PC]
        /\ KeepsBase(aborted.instr) =>
              Alike(Unhindered(aborted.instr, [cpu.regs EXCEPT ![PC] = aborted.regs[PC]], mem),
                    Unhindered(aborted.instr, aborted.regs, aborted.mem))

LEMMA StartTyped ==
    ASSUME NEW regs \in [Register -> Word], NEW m \in Contents
    PROVE  /\ Begun(regs, m) \in MachineState
           /\ Begun(regs, m).regs = [regs EXCEPT ![PC] = Wrap(@ + 4)]
           /\ Begun(regs, m).mem = m /\ Begun(regs, m).fault = NoFault
           /\ regs[PC] \in Word /\ Wrap(regs[PC] + 4) \in Word /\ PC \in Register
<1>1. PC \in Register /\ regs[PC] \in Word
  BY DEF PC, Register
<1>2. regs[PC] + 4 \in Int
  BY <1>1, WordFacts DEF Word
<1>3. Wrap(regs[PC] + 4) \in Word
  BY <1>2, WrapIsWord
<1>. DEFINE x == [regs EXCEPT ![PC] = Wrap(@ + 4)]
            zeros == [i \in SystemRegister |-> 0]
<1>4. x \in [Register -> Word] /\ zeros \in [SystemRegister -> Word]
  BY <1>1, <1>3, ZeroWord
<1>5. ClearFlags \in Nzcv
  BY DEF ClearFlags, Nzcv
<1>6. Begun(regs, m) = [regs |-> x, f |-> ClearFlags, t |-> FALSE, mem |-> m,
                        cp15 |-> zeros, fault |-> NoFault, far |-> 0]
  BY DEF Begun
<1>. HIDE DEF x, zeros
<1>7. /\ Begun(regs, m) \in MachineState /\ Begun(regs, m).regs = x
      /\ Begun(regs, m).mem = m /\ Begun(regs, m).fault = NoFault
  BY <1>4, <1>5, <1>6, ZeroWord DEF MachineState, Faults
<1>. QED  BY <1>1, <1>3, <1>7 DEF x

\* A transfer that ends has done what it would have done with every page.
LEMMA EndedUnhindered ==
    ASSUME NEW e \in Arm, Handler(e) \in Transfers, NEW regs \in [Register -> Word],
           NEW m \in Contents, NEW s \in MachineState, Alike(s, Begun(regs, m)),
           NEW table \in SUBSET AllPages,
           NEW r, r = ExecuteArm(e, s, table, regs[PC]), r.fault = NoFault
    PROVE  Alike(r, Unhindered(e, regs, m))
<1>. DEFINE pc == regs[PC]
            q == Begun(regs, m)
<1>1. q \in MachineState /\ pc \in Word /\ s.fault = NoFault
  BY StartTyped DEF Alike
<1>. HIDE DEF pc, q
<1>2. r = ExecuteArm(e, s, table, pc) /\ Alike(s, q)
  BY DEF pc, q
<1>3. ExecuteArm(e, s, AllPages, pc) = r
  BY <1>1, <1>2, ExecutePages
<1>4. Alike(ExecuteArm(e, s, AllPages, pc), ExecuteArm(e, q, AllPages, pc))
  BY <1>1, <1>2, ExecuteAlike
<1>. QED  BY <1>3, <1>4 DEF Unhindered, pc, q

\* One that was aborted, and is executed again from its address, ends as it
\* would have ended at first.
LEMMA AbortedUnhindered ==
    ASSUME NEW e \in Arm, Handler(e) \in Transfers, KeepsBase(e),
           NEW regs \in [Register -> Word], NEW m \in Contents,
           NEW s \in MachineState, Alike(s, Begun(regs, m)),
           NEW table \in SUBSET AllPages,
           NEW r \in MachineState, r = ExecuteArm(e, s, table, regs[PC]), r.fault # NoFault
    PROVE  Alike(Unhindered(e, [r.regs EXCEPT ![PC] = regs[PC]], r.mem), Unhindered(e, regs, m))
<1>. DEFINE pc == regs[PC]
            q == Begun(regs, m)
            x == [r EXCEPT !.fault = NoFault]
            back == [r.regs EXCEPT ![PC] = pc]
            y == Begun(back, r.mem)
<1>1. /\ q \in MachineState /\ pc \in Word /\ s.fault = NoFault
      /\ s.regs = [regs EXCEPT ![PC] = Wrap(@ + 4)] /\ PC \in Register
  BY StartTyped DEF Alike
<1>2. r.regs \in [Register -> Word] /\ r.mem \in Contents
  BY StateFields
<1>3. x \in MachineState /\ x.regs = r.regs /\ x.mem = r.mem /\ x.fault = NoFault
  BY DEF MachineState, Faults
<1>4. back \in [Register -> Word] /\ back[PC] = pc
  BY <1>1, <1>2
<1>5. y \in MachineState /\ y.regs = [back EXCEPT ![PC] = Wrap(pc + 4)]
      /\ y.mem = r.mem /\ y.fault = NoFault
  BY <1>2, <1>4, StartTyped
<1>6. Left(s, r, x)
  BY <1>1, <1>3 DEF Left
<1>. HIDE DEF q, x, y
<1>7. r = ExecuteArm(e, s, table, pc) /\ Alike(s, q)
  BY DEF q
<1>8. s.regs[PC] = Wrap(pc + 4)
  BY <1>1
<1>. HIDE DEF pc
<1>9. /\ x.regs[PC] = s.regs[PC]
      /\ Alike(ExecuteArm(e, s, AllPages, pc), ExecuteArm(e, x, AllPages, pc))
  BY <1>1, <1>3, <1>6, <1>7, ExecuteAgain
<1>10. Alike(ExecuteArm(e, s, AllPages, pc), ExecuteArm(e, q, AllPages, pc))
  BY <1>1, <1>7, ExecuteAlike
<1>11. y.regs = r.regs
  BY <1>1, <1>2, <1>3, <1>5, <1>8, <1>9
<1>12. Alike(y, x)
  BY <1>3, <1>5, <1>11 DEF Alike
<1>13. Alike(ExecuteArm(e, y, AllPages, pc), ExecuteArm(e, x, AllPages, pc))
  BY <1>1, <1>3, <1>5, <1>12, ExecuteAlike
<1>14. Alike(ExecuteArm(e, y, AllPages, pc), ExecuteArm(e, q, AllPages, pc))
  BY <1>9, <1>10, <1>13 DEF Alike
<1>. QED  BY <1>4, <1>14 DEF Unhindered, pc, q, y

-----------------------------------------------------------------------------
(* Steps with an aborted instruction *)

\* What StepArm gives of the instruction it executes, which is a transfer.
LEMMA TransferStep ==
    ASSUME MachineInv, NEW e \in Arm, Handler(e) \in Executed,
           NEW r, r = ExecuteArm(e, Fetched(4), pages, cpu.regs[PC])
    PROVE  /\ r \in MachineState
           /\ r.fault # NoFault => Handler(e) \in Transfers
           /\ Fetched(4) \in MachineState /\ Alike(Fetched(4), Begun(cpu.regs, mem))
           /\ cpu.regs \in [Register -> Word] /\ mem \in Contents /\ pages \in SUBSET AllPages
<1>. DEFINE size == 4
            s == Fetched(size)
<1>1. size \in Int
  OBVIOUS
<1>2. cpu.regs \in [Register -> Word] /\ mem \in Contents /\ pages \in SUBSET AllPages
  BY CpuFields DEF MachineInv
<1>3. cpu.regs[PC] \in Word
  BY <1>2, StartTyped
<1>4. /\ s \in MachineState /\ s.fault = NoFault /\ s.mem = mem
      /\ s.regs = [cpu.regs EXCEPT ![PC] = Wrap(@ + size)]
  <2>. HIDE DEF size
  <2>. QED  BY <1>1, FetchedTyped
<1>5. Alike(s, Begun(cpu.regs, mem))
  BY <1>2, <1>4, StartTyped DEF Alike
<1>6. r \in MachineState /\ (Handler(e) \notin Transfers => r.fault = NoFault)
  <2>. HIDE DEF s
  <2>1. r = ExecuteArm(e, s, pages, cpu.regs[PC])
    BY DEF s
  <2>. QED  BY <1>3, <1>4, <2>1, ExecuteArmTyped
<1>. QED  BY <1>2, <1>4, <1>5, <1>6

LEMMA AbortStep ==
    ASSUME MachineInv, RestartInv, NEW e \in Arm, Handler(e) \in Executed, trap = NoTrap,
           ~cpu.t, aborted # NoAbort => aborted.instr = e,
           NEW r, r = ExecuteArm(e, Fetched(4), pages, cpu.regs[PC]), DataAbort(e, r)
    PROVE  RestartInv'
<1>. DEFINE regs == cpu.regs
            back == [r.regs EXCEPT ![PC] = regs[PC]]
<1>1. /\ r.fault # NoFault /\ mem' = r.mem /\ cpu'.regs = r.regs
      /\ trap' = [kind |-> "data", pc |-> regs[PC]]
      /\ aborted' = IF aborted # NoAbort THEN aborted
                    ELSE [instr |-> e, regs |-> regs, mem |-> mem]
  BY DEF DataAbort, CpuOf
<1>2. /\ r \in MachineState /\ Handler(e) \in Transfers
      /\ Fetched(4) \in MachineState /\ Alike(Fetched(4), Begun(regs, mem))
      /\ regs \in [Register -> Word] /\ mem \in Contents /\ pages \in SUBSET AllPages
  BY <1>1, TransferStep
<1>3. KeepsBase(e) => Alike(Unhindered(e, back, r.mem), Unhindered(e, regs, mem))
  <2>. DEFINE s == Fetched(4)
  <2>1. s \in MachineState /\ Alike(s, Begun(regs, mem)) /\ r = ExecuteArm(e, s, pages, regs[PC])
    BY <1>2
  <2>. HIDE DEF s, regs
  <2>2. ASSUME KeepsBase(e) PROVE Alike(Unhindered(e, back, r.mem), Unhindered(e, regs, mem))
    BY <1>1, <1>2, <2>1, <2>2, AbortedUnhindered
  <2>. QED  BY <2>2
<1>4. trap' # NoTrap /\ trap'.kind = "data" /\ trap'.pc = regs[PC]
  BY <1>1 DEF NoTrap
<1>5. CASE aborted = NoAbort
  <2>1. aborted' = [instr |-> e, regs |-> regs, mem |-> mem]
    BY <1>1, <1>5
  <2>2. aborted'.instr = e /\ aborted'.regs = regs /\ aborted'.mem = mem
    BY <2>1
  <2>3. [cpu'.regs EXCEPT ![PC] = regs[PC]] = back
    BY <1>1
  <2>. HIDE DEF regs, back
  <2>. QED  BY <1>1, <1>2, <1>3, <1>4, <2>2, <2>3 DEF RestartInv
<1>6. CASE aborted # NoAbort
  <2>1. aborted' = aborted /\ aborted.instr = e /\ regs[PC] = aborted.regs[PC]
    BY <1>1, <1>6 DEF RestartInv
  <2>2. [regs EXCEPT ![PC] = aborted.regs[PC]] = regs
    BY <1>2, <2>1
  <2>3. [cpu'.regs EXCEPT ![PC] = aborted.regs[PC]] = back
    BY <1>1, <2>1
  <2>4. KeepsBase(e) => Alike(Unhindered(e, regs, mem),
                              Unhindered(e, aborted.regs, aborted.mem))
    BY <1>6, <2>1, <2>2 DEF RestartInv
  <2>5. KeepsBase(e) => Alike(Unhindered(e, back, r.mem),
                              Unhindered(e, aborted.regs, aborted.mem))
    BY <1>3, <2>4 DEF Alike
  <2>6. /\ aborted.instr \in Arm /\ Handler(aborted.instr) \in Transfers
        /\ aborted.regs \in [Register -> Word] /\ aborted.mem \in Contents
    BY <1>6 DEF RestartInv
  <2>. HIDE DEF regs, back
  <2>. QED  BY <1>1, <1>4, <2>1, <2>3, <2>5, <2>6 DEF RestartInv
<1>. QED  BY <1>5, <1>6

LEMMA RestartInvStep ==
    ASSUME MachineInv, RestartInv, [MachineNext]_machineVars
    PROVE  RestartInv'
<1>0. ASSUME aborted' = NoAbort PROVE RestartInv'
  BY <1>0 DEF RestartInv
<1>1. CASE \E i \in DOMAIN Roms : LoadRom(i)
  BY <1>0, <1>1 DEF LoadRom
<1>2. CASE Reset
  BY <1>0, <1>2 DEF Reset
<1>3. CASE StepArm
  <2>1. PICK e \in ArmCode : (aborted # NoAbort => aborted.instr = e) /\ ArmInstruction(e)
    BY <1>3 DEF StepArm
  <2>2. e \in Arm /\ trap = NoTrap /\ ~cpu.t
    BY <1>3, MachineAssumption DEF StepArm, Running
  <2>3. \/ aborted' = NoAbort
        \/ /\ Handler(e) \notin {"wfi", "swi", "undefined"}
           /\ DataAbort(e, ExecuteArm(e, Fetched(4), pages, cpu.regs[PC]))
    BY <2>1 DEF ArmInstruction, Complete
  <2>4. ASSUME Handler(e) \notin {"wfi", "swi", "undefined"},
               DataAbort(e, ExecuteArm(e, Fetched(4), pages, cpu.regs[PC]))
        PROVE  RestartInv'
    <3>1. Handler(e) \in Executed
      BY <2>2, <2>4, Handlers DEF Executed
    <3>. DEFINE r == ExecuteArm(e, Fetched(4), pages, cpu.regs[PC])
    <3>2. r = ExecuteArm(e, Fetched(4), pages, cpu.regs[PC]) /\ DataAbort(e, r)
      BY <2>4
    <3>. HIDE DEF r
    <3>. QED  BY <2>1, <2>2, <3>1, <3>2, AbortStep
  <2>. QED  BY <1>0, <2>3, <2>4
<1>4. CASE StepThumb
  <2>1. cpu.t /\ \E t \in ThumbCode : ThumbInstruction(t)
    BY <1>4 DEF StepThumb
  <2>2. aborted' = NoAbort
    BY <2>1 DEF ThumbInstruction, Complete, DataAbort
  <2>. QED  BY <1>0, <2>2
<1>5. CASE PrefetchAbort
  <2>1. /\ trap = NoTrap /\ UNCHANGED <<mem, aborted>>
        /\ cpu'.regs = cpu.regs /\ trap' = [kind |-> "prefetch", pc |-> cpu.regs[PC]]
    <3>1. \A c \in CpuState : \A x, y : [c EXCEPT !.cp15[IFAR] = x, !.cp15[IFSR] = y].regs = c.regs
      BY DEF CpuState
    <3>. QED  BY <1>5, <3>1 DEF PrefetchAbort, Running, MachineInv
  <2>2. trap' # NoTrap /\ trap'.kind = "prefetch" /\ trap'.pc = cpu.regs[PC]
    BY <2>1 DEF NoTrap
  <2>. QED  BY <2>1, <2>2 DEF RestartInv
<1>6. CASE \E table \in PageTables : Remap(table)
  BY <1>0, <1>6 DEF Remap
<1>7. CASE Resume
  <2>. DEFINE pc == IF trap.kind \in {"data", "prefetch"} THEN trap.pc ELSE Wrap(trap.pc + 4)
  <2>1. /\ trap # NoTrap /\ trap' = NoTrap /\ UNCHANGED <<mem, aborted>>
        /\ cpu' = [cpu EXCEPT !.f = ClearFlags, !.t = FALSE, !.regs[PC] = pc]
    BY <1>7 DEF Resume
  <2>. HIDE DEF pc
  <2>2. cpu'.regs = [cpu.regs EXCEPT ![PC] = pc] /\ ~cpu'.t
    <3>1. \A c \in CpuState : \A f, w :
              /\ [c EXCEPT !.f = f, !.t = FALSE, !.regs[PC] = w].regs = [c.regs EXCEPT ![PC] = w]
              /\ ~[c EXCEPT !.f = f, !.t = FALSE, !.regs[PC] = w].t
      BY DEF CpuState
    <3>. QED  BY <2>1, <3>1 DEF MachineInv
  <2>3. ASSUME aborted # NoAbort PROVE pc = aborted.regs[PC]
    BY <2>1, <2>3 DEF RestartInv, pc
  <2>4. /\ cpu'.regs[PC] = pc
        /\ \A w : [cpu'.regs EXCEPT ![PC] = w] = [cpu.regs EXCEPT ![PC] = w]
    <3>1. cpu.regs \in [Register -> Word] /\ PC \in Register
      BY CpuFields DEF MachineInv, PC, Register
    <3>. QED  BY <2>2, <3>1
  <2>. QED  BY <2>1, <2>2, <2>3, <2>4 DEF RestartInv
<1>8. CASE UNCHANGED machineVars
  BY <1>8 DEF machineVars, RestartInv
<1>. QED  BY <1>1, <1>2, <1>3, <1>4, <1>5, <1>6, <1>7, <1>8 DEF MachineNext

LEMMA RestartInvHolds == MachineSpec => []RestartInv
<1>1. MachineInit => RestartInv
  BY DEF MachineInit, RestartInv
<1>2. MachineInv /\ RestartInv /\ [MachineNext]_machineVars => RestartInv'
  BY RestartInvStep
<1>. QED  BY <1>1, <1>2, MachineInvHolds, PTL DEF MachineSpec

\* An instruction that was aborted, and then ends, ends as the property says.
LEMMA RestartedStep ==
    ASSUME MachineInv, RestartInv, [MachineNext]_machineVars,
           aborted # NoAbort, Restartable(aborted.instr), aborted' = NoAbort, loads' = loads
    PROVE  cpu'.regs = Unaborted.regs /\ mem' = Unaborted.mem
<1>. DEFINE e == aborted.instr
            found == [Fetched(4) EXCEPT !.regs = [aborted.regs EXCEPT ![PC] = Wrap(@ + 4)],
                                        !.mem = aborted.mem]
            r == ExecuteArm(e, Fetched(4), pages, cpu.regs[PC])
<1>1. /\ e \in Arm /\ Handler(e) \in Transfers /\ KeepsBase(e) /\ e.cond = 14
      /\ aborted.regs \in [Register -> Word] /\ aborted.mem \in Contents
  BY DEF RestartInv, Restartable, KeepsBase
<1>2. Passes(e.cond, cpu.f)
  BY <1>1 DEF Passes, Conditions, ConditionPassed
<1>3. Handler(e) \in Executed /\ Handler(e) \notin {"wfi", "swi", "undefined"}
  BY <1>1 DEF Transfers, Executed
<1>4. /\ trap = NoTrap /\ r.fault = NoFault /\ cpu'.regs = r.regs /\ mem' = r.mem
  <2>1. loads \in Int
    BY DEF MachineInv
  <2>2. StepArm
    <3>1. ~(\E i \in DOMAIN Roms : LoadRom(i)) /\ ~Reset
      BY <2>1 DEF LoadRom, Reset
    <3>2. ~StepThumb
      BY DEF StepThumb, Running, RestartInv
    <3>3. ~PrefetchAbort /\ ~Resume /\ ~UNCHANGED machineVars
      BY DEF PrefetchAbort, Resume, machineVars
    <3>4. ~(\E table \in PageTables : Remap(table))
      BY DEF Remap
    <3>. QED  BY <3>1, <3>2, <3>3, <3>4 DEF MachineNext
  <2>3. trap = NoTrap /\ ~cpu.t /\ ArmInstruction(e)
    BY <2>2 DEF StepArm, Running
  <2>4. Complete(r) \/ DataAbort(e, r)
    BY <1>2, <1>3, <2>3 DEF ArmInstruction
  <2>. HIDE DEF e, r
  <2>5. ~DataAbort(e, r)
    BY <2>3 DEF DataAbort
  <2>. QED  BY <2>3, <2>4, <2>5 DEF Complete, CpuOf
<1>5. /\ r \in MachineState /\ Fetched(4) \in MachineState
      /\ Alike(Fetched(4), Begun(cpu.regs, mem))
      /\ cpu.regs \in [Register -> Word] /\ mem \in Contents /\ pages \in SUBSET AllPages
  <2>. HIDE DEF e
  <2>. QED  BY <1>1, <1>3, TransferStep
<1>6. Alike(r, Unhindered(e, cpu.regs, mem))
  <2>. DEFINE s == Fetched(4)
              regs == cpu.regs
  <2>1. /\ s \in MachineState /\ Alike(s, Begun(regs, mem))
        /\ r = ExecuteArm(e, s, pages, regs[PC]) /\ regs \in [Register -> Word]
    BY <1>5
  <2>. HIDE DEF s, regs, r, e
  <2>2. Alike(r, Unhindered(e, regs, mem))
    BY <1>1, <1>4, <1>5, <2>1, EndedUnhindered
  <2>. QED  BY <2>2 DEF regs
<1>7. Alike(Unhindered(e, cpu.regs, mem), Unhindered(e, aborted.regs, aborted.mem))
  <2>1. cpu.regs[PC] = aborted.regs[PC]
    BY <1>4 DEF RestartInv
  <2>2. [cpu.regs EXCEPT ![PC] = aborted.regs[PC]] = cpu.regs
    BY <1>5, <2>1
  <2>. QED  BY <1>1, <2>2 DEF RestartInv
<1>8. Alike(Unhindered(e, aborted.regs, aborted.mem), Unaborted)
  <2>. DEFINE regs == aborted.regs
              m == aborted.mem
              pc == regs[PC]
              q == Begun(regs, m)
              x == [regs EXCEPT ![PC] = Wrap(@ + 4)]
  <2>1. /\ q \in MachineState /\ q.regs = x /\ q.mem = m /\ q.fault = NoFault /\ pc \in Word
    BY <1>1, StartTyped
  <2>2. x \in [Register -> Word]
    BY <2>1, StateFields
  <2>3. Fetched(4).fault = NoFault
    BY <1>5, StartTyped DEF Alike
  <2>4. \A y \in [Register -> Word], n \in Contents :
            /\ [Fetched(4) EXCEPT !.regs = y, !.mem = n] \in MachineState
            /\ [Fetched(4) EXCEPT !.regs = y, !.mem = n].regs = y
            /\ [Fetched(4) EXCEPT !.regs = y, !.mem = n].mem = n
            /\ [Fetched(4) EXCEPT !.regs = y, !.mem = n].fault = NoFault
    BY <1>5, <2>3 DEF MachineState
  <2>5. found \in MachineState /\ found.regs = x /\ found.mem = m /\ found.fault = NoFault
    <3>1. found = [Fetched(4) EXCEPT !.regs = x, !.mem = m] /\ m \in Contents
      BY <1>1, Zenon
    <3>. HIDE DEF found, x, m, regs
    <3>. QED  BY <2>2, <2>4, <3>1
  <2>6. Unaborted = ExecuteArm(e, found, AllPages, pc)
    BY DEF Unaborted
  <2>7. Unhindered(e, regs, m) = ExecuteArm(e, q, AllPages, pc)
    BY DEF Unhindered
  <2>. HIDE DEF e, found, q, x, pc, m, regs
  <2>8. Alike(q, found)
    BY <2>1, <2>5 DEF Alike
  <2>9. Alike(ExecuteArm(e, q, AllPages, pc), ExecuteArm(e, found, AllPages, pc))
    BY <1>1, <2>1, <2>5, <2>8, ExecuteAlike
  <2>. QED  BY <2>6, <2>7, <2>9 DEF regs, m
<1>. QED  BY <1>4, <1>6, <1>7, <1>8 DEF Alike

\* A load or store that is aborted half way, any number of times, and executed
\* again when its pages are mapped ends with the registers and the memory it
\* would have ended with, had nothing stopped it: what it had moved is moved
\* again, the base is written once, at the end, and nothing that runs between
\* the abort and the repetition changes what it reads.
THEOREM RestartCorrect == MachineSpec => RestartTransparent
<1>1. MachineInv /\ RestartInv /\ [MachineNext]_machineVars
        => (/\ aborted # NoAbort /\ Restartable(aborted.instr)
            /\ aborted' = NoAbort /\ loads' = loads
            => cpu'.regs = Unaborted.regs /\ mem' = Unaborted.mem)
  BY RestartedStep
<1>2. RestartTransparent
        <=> [][/\ aborted # NoAbort /\ Restartable(aborted.instr)
               /\ aborted' = NoAbort /\ loads' = loads
               => cpu'.regs = Unaborted.regs /\ mem' = Unaborted.mem]_machineVars
  BY DEF RestartTransparent
<1>. QED  BY <1>1, <1>2, MachineInvHolds, RestartInvHolds, PTL DEF MachineSpec

=============================================================================
