-------------------------------- MODULE Pica --------------------------------
(***************************************************************************)
(* The GPU (src/src/core/pica.rs) as Emulator3ds drives it: a fifo of      *)
(* command words, the decoder, and what the register writes do.            *)
(*                                                                         *)
(* Nothing in Emulator3ds loads a vertex, index or texture stream, so a    *)
(* draw rasterises nothing: it only reports a complete frame, and the      *)
(* screen shows the last clear.  Registers that only rasterisation reads   *)
(* are all alike here.  A colour is not computed: it is the clear's value  *)
(* with the shader, the constant and the format it went through.           *)
(***************************************************************************)
EXTENDS Integers, SequencesExt

CONSTANTS
    RegSpace,         \* register numbers, 2^16 in the code
    CountSpace,       \* counts of a packet, 2^7
    RegShaderCode, RegShaderConst, RegFormat, RegColorClear, RegDrawTrigger

ASSUME PicaAssumption ==
    /\ RegSpace \in Nat \ {0} /\ CountSpace \in Nat \ {0, 1}
    /\ LET registers == <<RegShaderCode, RegShaderConst, RegFormat, RegColorClear,
                          RegDrawTrigger>>
       IN  /\ \A i \in 1..5 : registers[i] \in 0..RegSpace - 1
           /\ \A i, j \in 1..5 : registers[i] = registers[j] => i = j

-----------------------------------------------------------------------------
(* Command words: a header, then its payload *)

Encode(reg, count, sequential) ==
    reg + RegSpace * count + (IF sequential THEN RegSpace * CountSpace ELSE 0)

HeaderReg(word) == word % RegSpace
HeaderCount(word) == (word \div RegSpace) % CountSpace
HeaderSequential(word) == (word \div (RegSpace * CountSpace)) % 2 = 1

\* Mutation of PayloadLength: a count of zero is taken for zero.
PayloadLengthExact(word) == HeaderCount(word)

PayloadLength(word) == IF HeaderCount(word) = 0 THEN 1 ELSE HeaderCount(word)

\* The register that the i-th payload word of a packet is for.
TargetReg(reg, sequential, i) == IF sequential THEN (reg + i - 1) % RegSpace ELSE reg

\* decode_command_words.  A packet that the words end in is cut off.
Decode(words) ==
    LET From[c \in 1..(Len(words) + 1)] ==
            IF c > Len(words) THEN <<>>
            ELSE LET rest == c + PayloadLength(words[c]) + 1
                     payload == SubSeq(words, c + 1,
                                       IF rest <= Len(words) THEN rest - 1 ELSE Len(words))
                 IN  [i \in 1..Len(payload) |->
                        [reg |-> TargetReg(HeaderReg(words[c]),
                                           HeaderSequential(words[c]), i),
                         value |-> payload[i]]]
                     \o (IF rest <= Len(words) THEN From[rest] ELSE <<>>)
    IN  From[1]

-----------------------------------------------------------------------------
(* Register writes *)

NoClear == [color |-> -1, shader |-> <<>>, constant |-> 0, format |-> 0]

NewGpu ==
    [microcode |-> <<>>, constant |-> 0, shader |-> <<>>, format |-> 0, screen |-> NoClear,
     trace |-> <<>>, events |-> 0]

\* translate_shader_microcode
Translate(code) ==
    [i \in DOMAIN code |-> IF code[i] % 2 = 0 THEN "XorConst" ELSE "RotateChannels"]

\* Mutation of Traced: clears are left out.
TracedQuietly(gpu, write) ==
    IF write.reg = RegColorClear THEN gpu ELSE [gpu EXCEPT !.trace = Append(@, write)]

Traced(gpu, write) == [gpu EXCEPT !.trace = Append(@, write)]

\* Mutation of Draws: the trigger's bit is not looked at.
DrawsAlways(write) == write.reg = RegDrawTrigger

Draws(write) == write.reg = RegDrawTrigger /\ write.value % 2 = 1

\* apply_register_write.  New microcode takes effect with the next write of
\* the constant.
Apply(gpu, write) ==
    LET g == Traced(gpu, write) IN
    CASE write.reg = RegShaderCode -> [g EXCEPT !.microcode = Append(@, write.value)]
      [] write.reg = RegShaderConst ->
            [g EXCEPT !.constant = write.value, !.shader = Translate(g.microcode)]
      [] write.reg = RegColorClear ->
            [g EXCEPT !.screen = [color |-> write.value, shader |-> g.shader,
                                  constant |-> g.constant, format |-> g.format]]
      [] write.reg = RegFormat -> [g EXCEPT !.format = write.value % 2]
      [] Draws(write) -> [g EXCEPT !.events = @ + 1]
      [] OTHER -> g

\* tick
Consumed(gpu, words) == FoldLeft(Apply, gpu, Decode(words))

=============================================================================
