------------------------------- MODULE Loader -------------------------------
(***************************************************************************)
(* From a cartridge image to memory (src/src/core/loader/).  An image is   *)
(* the record of what its headers say:                                     *)
(*                                                                         *)
(*    rom: length, magic, and partitions, a sequence of                    *)
(*    partition: offset and size in media units, and what is found there:  *)
(*       magic, encrypted, exheaderSize, entry, exheader, exefs and romfs  *)
(*    exheader: text, ro and data, each an address and a size, and bss     *)
(*    exefs: offset and size in media units, and files, of a code,         *)
(*       an offset and a size, the code being that of the .code file       *)
(*    romfs: offset and size in media units, magic, whole (the index can   *)
(*       be read to its end), and files, of an offset and a size           *)
(*                                                                         *)
(* Every header and the media unit are 0x200 bytes in the code: Unit here. *)
(* All errors are one: a load succeeds or fails.  Names of services and    *)
(* paths are left out.                                                     *)
(***************************************************************************)
EXTENDS Memory

CONSTANTS
    Unit,    \* bytes in a media unit and in each header
    Usize    \* the modulus of usize: 2^64, or 2^32 on wasm32

ASSUME LoaderAssumption == Unit \in Nat \ {0} /\ Usize \in Nat \ {0}

\* Products and sums that the code does not check wrap in a release build.
Units(n) == (n * Unit) % Usize
Plus(a, b) == (a + b) % Usize

\* A region of the file, whose end checked_add finds, within a limit.
Fits(offset, size, limit) == offset + size < Usize /\ offset + size <= limit

\* The images that can be written down: numbers are of 32 bits.
File == [code : Seq(Byte), offset : Word, size : Word]
Section == [address : Word, size : Word]
Partition ==
    [offset : Word, size : Word, magic : BOOLEAN, encrypted : BOOLEAN,
     exheaderSize : Word, entry : Word,
     exheader : [text : Section, ro : Section, data : Section, bss : Word],
     exefs : [offset : Word, size : Word, files : Seq(File)],
     romfs : [offset : Word, size : Word, magic : BOOLEAN, whole : BOOLEAN,
              files : Seq([offset : Word, size : Word])]]
Image == [length : 0 .. Usize - 1, magic : BOOLEAN, partitions : Seq(Partition)]

-----------------------------------------------------------------------------
(* The headers *)

\* RomImage::parse passes over an entry with no offset or no size.
Present(p) == p.offset # 0 /\ p.size # 0
Start(p) == Units(p.offset)
Size(p) == Units(p.size)
End(p) == Plus(Start(p), Size(p))

\* A section of partition p: parse_section_region.
SectionStart(p, s) == Plus(Start(p), Units(s.offset))
SectionFits(p, s) == Units(s.size) # 0 /\ Fits(SectionStart(p, s), Units(s.size), End(p))

ExheaderStart(p) == Plus(Start(p), Unit)
HasRomfs(p) == p.romfs.offset # 0 /\ p.romfs.size # 0

\* parse_ncch_program
ProgramParses(rom, p) ==
    /\ Size(p) >= Unit /\ ExheaderStart(p) <= rom.length
    /\ p.magic /\ ~p.encrypted
    /\ p.exheaderSize >= Unit
    /\ Fits(ExheaderStart(p), p.exheaderSize, End(p))
    /\ Fits(ExheaderStart(p), p.exheaderSize, rom.length)
    /\ SectionFits(p, p.exefs)
    /\ HasRomfs(p) => SectionFits(p, p.romfs)

\* RomImage::parse: one partition at least, and every one that is there.
ImageParses(rom) ==
    /\ rom.length >= Unit /\ rom.magic
    /\ \E i \in DOMAIN rom.partitions : Present(rom.partitions[i])
    /\ \A i \in DOMAIN rom.partitions :
          LET p == rom.partitions[i]
          IN  Present(p) => Fits(Start(p), Size(p), rom.length) /\ ProgramParses(rom, p)

\* The partition that is run, of an image that parses.
Program(rom) ==
    LET first == CHOOSE i \in DOMAIN rom.partitions :
                     /\ Present(rom.partitions[i])
                     /\ \A j \in 1 .. i - 1 : ~Present(rom.partitions[j])
    IN  rom.partitions[first]

-----------------------------------------------------------------------------
(* The process image *)

\* ExeFs::parse
ExefsParses(p) ==
    /\ Units(p.exefs.size) >= Unit
    /\ \A i \in DOMAIN p.exefs.files :
          LET f == p.exefs.files[i]
          IN  f.size # 0 /\ Fits(Plus(Unit, f.offset), f.size, Units(p.exefs.size))

\* The first file named .code.
HasCode(p) == \E i \in DOMAIN p.exefs.files : p.exefs.files[i].code # <<>>
Code(p) ==
    p.exefs.files[CHOOSE i \in DOMAIN p.exefs.files :
                      /\ p.exefs.files[i].code # <<>>
                      /\ \A j \in 1 .. i - 1 : p.exefs.files[j].code = <<>>].code

\* RomFs::parse
RomfsParses(p) ==
    /\ Units(p.romfs.size) >= 8 /\ p.romfs.magic /\ p.romfs.whole
    /\ \A i \in DOMAIN p.romfs.files :
          LET f == p.romfs.files[i]
          IN  Fits(f.offset, f.size, Units(p.romfs.size))

\* Mutation of LayoutValid: the end of the text is not looked at.
LayoutLoose(x, codeSize) == x.text.size + x.ro.size + x.data.size <= codeSize

\* ExHeader::validate_layout, in 32 bits.  The end of the data is not checked.
LayoutValid(x, codeSize) ==
    /\ x.text.size + x.ro.size + x.data.size < Modulus
    /\ x.text.size + x.ro.size + x.data.size <= codeSize
    /\ x.text.address + x.text.size < Modulus
    /\ x.text.address + x.text.size <= x.ro.address
    /\ x.ro.address + x.ro.size < Modulus
    /\ x.ro.address + x.ro.size <= x.data.address

\* parse_process_image; the end of the text saturates.
ProcessParses(p) ==
    LET x == p.exheader
        textEnd == IF x.text.address + x.text.size < Modulus
                   THEN x.text.address + x.text.size ELSE Modulus - 1
    IN  /\ ExefsParses(p) /\ HasCode(p)
        /\ LayoutValid(x, Len(Code(p)))
        /\ x.text.address <= p.entry /\ p.entry < textEnd
        /\ HasRomfs(p) => RomfsParses(p)

Accepted(rom) == ImageParses(rom) /\ ProcessParses(Program(rom))

\* The bytes of the three sections, one after the other in the code file.
TextBytes(p) == SubSeq(Code(p), 1, p.exheader.text.size)
RoBytes(p) ==
    SubSeq(Code(p), p.exheader.text.size + 1, p.exheader.text.size + p.exheader.ro.size)
DataBytes(p) ==
    LET skipped == p.exheader.text.size + p.exheader.ro.size
    IN  SubSeq(Code(p), skipped + 1, skipped + p.exheader.data.size)

-----------------------------------------------------------------------------
(* Installing it *)

Then(r, a, bytes) == IF r.ok THEN WriteBytes(r.mem, a, bytes) ELSE r

\* install_process_image: text, ro, data and the zeros of bss, up to the first
\* byte that has no place.
Install(m, p) ==
    LET x == p.exheader
        text == WriteBytes(m, x.text.address, TextBytes(p))
        ro == Then(text, x.ro.address, RoBytes(p))
        data == Then(ro, x.data.address, DataBytes(p))
    IN  Then(data, Wrap(x.data.address + x.data.size), [i \in 1 .. x.bss |-> 0])

\* What an image means in memory: its sections at their addresses, zeros elsewhere.
ImageByte(p, a) ==
    LET x == p.exheader
        inside(section) == a \in section.address .. section.address + section.size - 1
    IN  IF inside(x.text) THEN TextBytes(p)[a - x.text.address + 1]
        ELSE IF inside(x.ro) THEN RoBytes(p)[a - x.ro.address + 1]
        ELSE IF inside(x.data) THEN DataBytes(p)[a - x.data.address + 1]
        ELSE 0

=============================================================================
