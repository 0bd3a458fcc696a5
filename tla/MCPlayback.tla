----------------------------- MODULE MCPlayback -----------------------------
(***************************************************************************)
(* A small instance of Playback: frames of four cycles and a half, with    *)
(* three lines of one cycle, so that frames do not end on a cycle, and     *)
(* screens go on for longer than their lines, as they do in the code.      *)
(***************************************************************************)
EXTENDS Playback

Packet(reg, count, sequential, values) ==
    [reg |-> reg, count |-> count, sequential |-> sequential, values |-> values]

\* Microcode and then the constant, in one packet; a clear whose count is
\* zero; a draw, and a trigger that draws nothing; the format and, as the
\* registers wrap, microcode.
SomePackets ==
    {Packet(RegShaderCode, 2, TRUE, <<1, 3>>),
     Packet(RegColorClear, 0, FALSE, <<7>>),
     Packet(RegDrawTrigger, 2, FALSE, <<1, 0>>),
     Packet(RegFormat, 2, TRUE, <<1, 2>>)}

\* A header whose payload is still to come.
SomeCutPackets == {<<Encode(RegDrawTrigger, 1, FALSE)>>}

=============================================================================
