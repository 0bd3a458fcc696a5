----------------------------- MODULE MCMachine -----------------------------
(***************************************************************************)
(* A machine with words of eight bits, bytes of two and thirty-two pages   *)
(* of two words: seven words of memory in five of the pages.               *)
(***************************************************************************)
EXTENDS Machine

MCSegments ==
    {[start |-> 0, end |-> 20, writable |-> TRUE],
     [start |-> 32, end |-> 36, writable |-> TRUE],
     [start |-> 40, end |-> 44, writable |-> FALSE]}

\* Without an MMU, and with a table of its pages.
MCPageTables == {AllPages, {0, 4}}

-----------------------------------------------------------------------------
(* Images *)

\* The bytes of words, and what the program has in memory: its third word is
\* odd, an address of Thumb code, and its fourth one even.
CodeBytes(words) ==
    [i \in 1 .. 4 * Len(words) |->
        LET k == i - 1 IN Bytes(words[1 + k \div 4], 4)[1 + (k % 4)]]

Sections(text, ro, data, bss) ==
    [text |-> [address |-> text[1], size |-> text[2]],
     ro |-> [address |-> ro[1], size |-> ro[2]],
     data |-> [address |-> data[1], size |-> data[2]],
     bss |-> bss]

Title(entry, sections, words) ==
    [offset |-> 1, size |-> 8, magic |-> TRUE, encrypted |-> FALSE,
     exheaderSize |-> Unit, entry |-> entry, exheader |-> sections,
     exefs |-> [offset |-> 2, size |-> 4,
                files |-> <<[code |-> <<>>, offset |-> 0, size |-> 2],
                            [code |-> CodeBytes(words), offset |-> 2,
                             size |-> 4 * Len(words)]>>],
     romfs |-> [offset |-> 6, size |-> 1, magic |-> TRUE, whole |-> TRUE,
                files |-> <<[offset |-> 2, size |-> 6]>>]]

NoTitle == [Title(0, Sections(<<0, 0>>, <<0, 0>>, <<0, 0>>, 0), <<>>)
                   EXCEPT !.offset = 0]

Cartridge(partitions) == [length |-> 9 * Unit, magic |-> TRUE, partitions |-> partitions]

Game == Title(0, Sections(<<0, 8>>, <<8, 4>>, <<12, 4>>, 2), <<197, 33, 9, 34>>)
Small == Title(4, Sections(<<4, 4>>, <<8, 0>>, <<32, 4>>, 0), <<76, 219>>)

\* One fault each in headers that are otherwise the game's.
BadPartitions ==
    <<[Game EXCEPT !.magic = FALSE],
      [Game EXCEPT !.encrypted = TRUE],
      [Game EXCEPT !.exheaderSize = Unit - 1],
      [Game EXCEPT !.size = 9],
      [Game EXCEPT !.exefs.size = 7],
      [Game EXCEPT !.exefs.files[1].size = 0],
      [Game EXCEPT !.exefs.files[2].code = <<>>],
      [Game EXCEPT !.romfs.magic = FALSE],
      [Game EXCEPT !.romfs.whole = FALSE],
      [Game EXCEPT !.romfs.size = 9],
      [Game EXCEPT !.romfs.files[1].size = 7],
      [Game EXCEPT !.exheader.ro.address = 4],
      [Game EXCEPT !.exheader.data.size = 8],
      [Game EXCEPT !.entry = 8]>>

\* Sections that the headers allow and memory does not: data past the end of
\* a segment, bss past it, and text in read-only memory.  Before them, one that
\* is accepted because its offset wraps: its ExeFS lies before the partition.
OddPartitions ==
    <<[Game EXCEPT !.exefs.offset = 127],
      [Game EXCEPT !.exheader.data.address = 18],
      [Game EXCEPT !.exheader.bss = 5],
      [Game EXCEPT !.entry = 40, !.exheader.text.address = 40,
                   !.exheader.ro.address = 64, !.exheader.ro.size = 0,
                   !.exheader.data.address = 64, !.exheader.data.size = 0,
                   !.exheader.bss = 0]>>

MCRoms ==
    <<Cartridge(<<NoTitle, Game>>), Cartridge(<<Small, Game>>),
      [Cartridge(<<Game>>) EXCEPT !.magic = FALSE],
      [Cartridge(<<Game>>) EXCEPT !.length = Unit - 1],
      Cartridge(<<NoTitle>>), Cartridge(<<Small, BadPartitions[1]>>)>>
    \o [i \in DOMAIN BadPartitions |-> Cartridge(<<BadPartitions[i]>>)]
    \o [i \in DOMAIN OddPartitions |-> Cartridge(<<OddPartitions[i]>>)]

-----------------------------------------------------------------------------
(* Instructions *)

Instr(cond, top, op, s, rn, rd, rs, mid, rm) ==
    [cond |-> cond, top |-> top, op |-> op, s |-> s, rn |-> rn, rd |-> rd,
     rs |-> rs, mid |-> mid, rm |-> rm]

Always(top, op, s, rn, rd, rs, mid, rm) == Instr(14, top, op, s, rn, rd, rs, mid, rm)

Moves ==
    {Always(1, 13, 0, 0, 1, 0, imm \div 16, imm % 16) : imm \in {4, 12, 200}}
    \cup {Always(1, 13, 0, 0, PC, 0, 0, imm) : imm \in {2, 4}}
    \cup {Instr(cond, 1, 13, 0, 0, 2, 0, 0, 1) : cond \in {0, 1, 9, 15}}
Arithmetic ==
    {Always(1, op, 1, 1, 2, 0, 8, 1) : op \in 0 .. 15}
    \cup {Always(1, 4, 1, PC, PC, 2, 2, 1)}
ShiftedMoves == {Always(0, 13, 1, 0, 2, rs, mid, 1) : rs \in 0 .. 1, mid \in {0, 2, 4, 6}}
System ==
    {Always(0, 11, 0, 0, 2, 15, 1, 1), Always(0, 8, 0, 15, 1, 0, 0, 0),
     Always(0, 9, 0, 8, 15, 0, 0, 1), Always(1, 9, 0, 0, 15, 0, 0, 3),
     Always(7, 8, 0, 0, 0, 0, 0, 0), Always(6, 0, 0, 0, 0, 0, 0, 0)}
    \cup {Always(7, 0, s, crn, 1, 15, 1, 0) : s \in 0 .. 1, crn \in {1, 8}}
Branches == {Always(5, 0, 0, 0, 0, 0, 0, 0), Always(5, 15, 1, 15, 15, 15, 15, 14)}
Singles ==
    {Always(2, op, s, 1, 2, 0, 0, 4) : op \in {0, 4, 6, 8, 9, 12, 13, 14}, s \in 0 .. 1}
    \cup {Always(2, 13, s, 1, rd, 0, 0, 4) : s \in 0 .. 1, rd \in {1, PC}}
    \cup {Always(3, 13, 0, 1, 2, 0, 0, 1)}
Halfwords ==
    {Always(0, op, s, 1, 2, 0, mid, 2) : op \in {4, 13}, s \in 0 .. 1, mid \in {11, 13, 15}}
    \cup {Always(0, 10, 0, 1, 2, 0, 9, 3)}
Blocks ==
    {Always(4, op, s, 1, list[1], 0, 0, list[2]) :
        op \in {0, 4, 5, 8, 9, 13}, s \in 0 .. 1, list \in {<<0, 5>>, <<8, 4>>}}
    \cup {Always(4, 6, 1, 1, 0, 0, 0, 5)}

MCArmCode ==
    Moves \cup Arithmetic \cup ShiftedMoves \cup System \cup Branches
    \cup Singles \cup Halfwords \cup Blocks

ThumbInstr(op, imm, rs, rd) == [op |-> op, imm |-> imm, rs |-> rs, rd |-> rd]

MCThumbCode ==
    {ThumbInstr(op, imm, 1, 2) : op \in 0 .. 2, imm \in {0, 1}}
    \cup {ThumbInstr(3, imm, 1, 2) : imm \in {1, 9, 17, 25}}
    \cup {ThumbInstr(op, imm, 1, 2) : op \in 4 .. 7, imm \in {4, 7}}
    \cup {ThumbInstr(8, 16 + imm, 1, 2) : imm \in {0, 3, 4, 6, 8, 9, 12, 13}}
    \cup {ThumbInstr(9, 4, 0, imm) : imm \in {0, 4}}
    \cup {ThumbInstr(op, 1, rs, 2) : op \in 12 .. 15, rs \in 0 .. 2}
    \cup {ThumbInstr(26, 4 * cond, 7, 6) : cond \in 0 .. 7}
    \cup {ThumbInstr(28, 31, 7, 6), ThumbInstr(10, 0, 0, 0), ThumbInstr(27, 28, 0, 0)}

=============================================================================
