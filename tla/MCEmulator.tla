----------------------------- MODULE MCEmulator -----------------------------
(***************************************************************************)
(* Small instances of Emulator.  One process, the kernel's, and one        *)
(* service: the kernel sees system calls and wakes only.                   *)
(***************************************************************************)
EXTENDS Emulator, TLC

BootApt == [n \in {"apt"} |-> "AptU"]
NoMessages == {}
NoImages == {}

ChannelSymmetry == Permutations(DmaChannels)

=============================================================================
