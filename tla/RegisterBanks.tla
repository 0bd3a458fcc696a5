--------------------------- MODULE RegisterBanks ---------------------------
(***************************************************************************)
(* What the processor promises its software about the stack pointer and    *)
(* the link register: every mode has its own, only the mode that runs      *)
(* writes them, and a change of mode moves none of them.  An exception     *)
(* writes one register, the link register of the mode it enters; a load    *)
(* that it aborts may have written those of the interrupted mode as well.  *)
(***************************************************************************)

CONSTANTS
    Modes,   \* processor modes
    Stacks,  \* values of the stack pointer
    Words,   \* values of the link register
    Zero     \* the value after a reset

VARIABLES
    mode,    \* the mode that runs
    regs     \* [sp, lr] of each mode

bankVars == <<mode, regs>>

Registers == [sp : Stacks, lr : Words]
Cleared == [m \in Modes |-> [sp |-> Zero, lr |-> Zero]]

BankInit == mode = "usr" /\ regs = Cleared

Clear == mode' = "usr" /\ regs' = Cleared

Write(new) ==
    /\ UNCHANGED mode
    /\ regs' = [regs EXCEPT ![mode] = new]

Switch(m) ==
    /\ mode' = m
    /\ UNCHANGED regs

Trap(m, ret) ==
    /\ mode' = m
    /\ regs' = [regs EXCEPT ![m].lr = ret]

AbortedLoad(new, ret) ==
    /\ mode' = "abt"
    /\ regs' = [[regs EXCEPT ![mode] = new] EXCEPT !["abt"].lr = ret]

BankNext ==
    \/ \E m \in Modes : Switch(m)
    \/ \E new \in Registers : Write(new)
    \/ \E m \in Modes \ {"usr"}, ret \in Words : Trap(m, ret)
    \/ \E new \in Registers, ret \in Words : AbortedLoad(new, ret)
    \/ Clear

BankSpec == BankInit /\ [][BankNext]_bankVars

=============================================================================
