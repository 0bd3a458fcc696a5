--------------------------- MODULE CpuExceptions ---------------------------
(***************************************************************************)
(* Modes, exceptions and banked registers of the ARM11 core                *)
(* (src/src/core/cpu.rs).  The stack pointer and the link register of the  *)
(* running mode are in regs[13] and regs[14], those of the others in their *)
(* banks; the CPSR and the SPSRs are records of the mode, the I and T      *)
(* flags and the condition flags.                                          *)
(*                                                                         *)
(* Instructions count for what they do to these.  Left out: the other      *)
(* registers and the program counter (so a return address is any word),    *)
(* memory, the MMU, and which instruction raises an exception.             *)
(***************************************************************************)

CONSTANTS
    Modes,   \* of "usr", "svc", "irq", "und" and "abt", those that occur
    Stacks,  \* values of the stack pointer
    Words,   \* values of the link register
    Zero,    \* 0
    Nzcv     \* values of the condition flags

ASSUME CpuAssumption == "usr" \in Modes /\ Zero \in Stacks \cap Words \cap Nzcv

Registers == [sp : Stacks, lr : Words]
Status == [mode : Modes, i : BOOLEAN, t : BOOLEAN, nzcv : Nzcv]
ResetStatus == [mode |-> "usr", i |-> FALSE, t |-> FALSE, nzcv |-> Zero]

\* A word written to the CPSR names a mode, or none the CPU knows.
NoMode == "none"
StatusWord == [mode : Modes \cup {NoMode}, i : BOOLEAN, t : BOOLEAN, nzcv : Nzcv]

ExceptionModes == Modes \ {"usr"}

VARIABLES
    regs,    \* sp and lr of the running mode
    bank,    \* those kept for each mode
    cpsr,
    spsr,    \* of each exception mode
    halted   \* state = Halted

cpuVars == <<regs, bank, cpsr, spsr, halted>>

Cleared == [sp |-> Zero, lr |-> Zero]

CpuInit ==
    /\ regs = Cleared
    /\ bank = [m \in Modes |-> Cleared]
    /\ cpsr = ResetStatus
    /\ spsr = [m \in ExceptionModes |-> ResetStatus]
    /\ halted = FALSE

Reset ==
    /\ regs' = Cleared
    /\ bank' = [m \in Modes |-> Cleared]
    /\ cpsr' = ResetStatus
    /\ spsr' = [m \in ExceptionModes |-> ResetStatus]
    /\ halted' = FALSE

-----------------------------------------------------------------------------
(* switch_mode, from registers r *)

\* Mutation of Saved: the registers of the old mode are dropped.
SavedNot(r, m) == bank

Saved(r, m) == IF m = cpsr.mode THEN bank ELSE [bank EXCEPT ![cpsr.mode] = r]
Loaded(r, m) == IF m = cpsr.mode THEN r ELSE bank[m]

\* take_exception, into mode m with return address ret.  The SPSR is written
\* before the mode changes: it is that of the interrupted mode, if it has one.
TakeException(m, r, ret) ==
    /\ m \in ExceptionModes
    /\ spsr' = IF cpsr.mode \in ExceptionModes
               THEN [spsr EXCEPT ![cpsr.mode] = cpsr]
               ELSE spsr
    /\ bank' = Saved(r, m)
    /\ regs' = [Loaded(r, m) EXCEPT !.lr = ret]
    /\ cpsr' = [cpsr EXCEPT !.mode = m, !.i = TRUE, !.t = FALSE]

\* enter_irq, which the loop calls when interrupts are enabled.
EnterIrq ==
    /\ ~cpsr.i
    /\ \E ret \in Words : TakeException("irq", regs, ret)
    /\ halted' = FALSE

\* A halted CPU steps without effect.
Running == ~halted /\ UNCHANGED halted

Swi == Running /\ ~cpsr.t /\ \E ret \in Words : TakeException("svc", regs, ret)
Undefined == Running /\ \E ret \in Words : TakeException("und", regs, ret)
PrefetchAbort == Running /\ \E ret \in Words : TakeException("abt", regs, ret)

\* A load of several registers, which Thumb does not have here, may fault when
\* it has loaded some.
DataAbort ==
    /\ Running
    /\ \E r \in IF cpsr.t THEN {regs} ELSE Registers, ret \in Words :
          TakeException("abt", r, ret)

Wfi ==
    /\ ~halted /\ ~cpsr.t
    /\ halted' = TRUE
    /\ UNCHANGED <<regs, bank, cpsr, spsr>>

\* Any other instruction: moves, loads, arithmetic and branches.
Compute ==
    /\ Running
    /\ regs' \in Registers
    /\ \E t \in BOOLEAN, nzcv \in Nzcv : cpsr' = [cpsr EXCEPT !.t = t, !.nzcv = nzcv]
    /\ UNCHANGED <<bank, spsr>>

\* Mutations of Msr: it works in user mode as well; an unknown mode is taken.
MsrAnywhere(word) ==
    /\ Running /\ ~cpsr.t /\ word.mode \in Modes
    /\ bank' = Saved(regs, word.mode)
    /\ regs' = Loaded(regs, word.mode)
    /\ cpsr' = word
    /\ UNCHANGED spsr

MsrUnchecked(word) ==
    /\ Running /\ ~cpsr.t
    /\ cpsr' = IF cpsr.mode = "usr" THEN [cpsr EXCEPT !.nzcv = word.nzcv] ELSE word
    /\ UNCHANGED <<regs, bank, spsr>>

\* MSR, which always writes the CPSR, the form that names the SPSR included.
Msr(word) ==
    /\ Running /\ ~cpsr.t
    /\ \/ /\ cpsr.mode = "usr"
          /\ cpsr' = [cpsr EXCEPT !.nzcv = word.nzcv]
          /\ UNCHANGED <<regs, bank>>
       \/ /\ cpsr.mode # "usr" /\ word.mode \in Modes
          /\ bank' = Saved(regs, word.mode)
          /\ regs' = Loaded(regs, word.mode)
          /\ cpsr' = word
       \/ /\ cpsr.mode # "usr" /\ word.mode \notin Modes
          /\ cpsr' = [word EXCEPT !.mode = cpsr.mode]
          /\ UNCHANGED <<regs, bank>>
    /\ UNCHANGED spsr

\* MOVS pc, lr and its like: restore_cpsr_from_spsr.
ExceptionReturn ==
    /\ Running /\ ~cpsr.t
    /\ cpsr.mode \in ExceptionModes
    /\ bank' = Saved(regs, spsr[cpsr.mode].mode)
    /\ regs' = Loaded(regs, spsr[cpsr.mode].mode)
    /\ cpsr' = spsr[cpsr.mode]
    /\ UNCHANGED spsr

Exception == EnterIrq \/ Swi \/ Undefined \/ PrefetchAbort \/ DataAbort

CpuNext ==
    \/ Reset
    \/ Exception
    \/ Wfi
    \/ Compute
    \/ \E word \in StatusWord : Msr(word)
    \/ ExceptionReturn

CpuSpec == CpuInit /\ [][CpuNext]_cpuVars

-----------------------------------------------------------------------------
(* Properties *)

\* Every variable holds a value of its type; in particular the CPU is always
\* in a mode that has a bank, so that banked_sp_lr_mut never falls back on
\* the user's.
CpuTypeOK ==
    /\ regs \in Registers
    /\ bank \in [Modes -> Registers]
    /\ cpsr \in Status
    /\ spsr \in [ExceptionModes -> Status]
    /\ halted \in BOOLEAN

\* The saving and loading of switch_mode keeps the registers of every mode
\* apart, through nested exceptions, returns, MSR and switches to the mode
\* that already runs.
BankedRegs == [bank EXCEPT ![cpsr.mode] = regs]
Banks == INSTANCE RegisterBanks WITH mode <- cpsr.mode, regs <- BankedRegs
ImplementsBanks == Banks!BankSpec

\* A program in user mode gets neither a privileged mode nor the I flag: it
\* leaves user mode only through an exception, into ARM state with interrupts
\* masked.
UserIsConfined ==
    [][cpsr.mode = "usr" =>
          \/ Reset
          \/ cpsr'.mode = "usr" /\ cpsr'.i = cpsr.i
          \/ Exception /\ cpsr'.mode # "usr" /\ cpsr'.i /\ ~cpsr'.t]_cpuVars

\* README.md lists "SPSR capture per exception mode": the SPSR of the mode an
\* exception enters holds the status it interrupted.
SpsrCaptured == [][Exception => spsr'[cpsr'.mode] = cpsr]_cpuVars

=============================================================================
