------------------------------ MODULE Machine ------------------------------
(***************************************************************************)
(* A program: loaded from a cartridge image into memory (load_rom in       *)
(* src/src/core/emulator.rs) and run, instruction by instruction, in user  *)
(* mode (step in src/src/core/cpu.rs).  What the instructions at an        *)
(* address are is left open; what they do is Execute's.                    *)
(*                                                                         *)
(* The system software of the guest appears in two actions: it changes the *)
(* page tables, and its handlers deal with an exception and return.  The   *)
(* modes and banks they run in are those of CpuExceptions.                 *)
(***************************************************************************)
EXTENDS Execute, Loader

CONSTANTS
    Roms,          \* images, as a sequence
    ArmCode,       \* instructions
    ThumbCode,
    PageTables,    \* sets of pages that are mapped
    MaxLoads,      \* bounds: loads and resets,
    MaxSteps       \* and instructions, a repetition after an abort aside

AllPages == {Page(a) : a \in Word}

ASSUME MachineAssumption ==
    /\ ArmCode \subseteq Arm /\ ThumbCode \subseteq Thumb
    /\ PageTables \subseteq SUBSET AllPages
    /\ Roms \in Seq(Image)
    /\ {MaxLoads, MaxSteps} \subseteq Nat

VARIABLES
    loaded,    \* rom_loaded: there is a program to run
    cpu,       \* regs, f, t and cp15, and halted
    mem,
    pages,     \* those an address translates in: all without the MMU
    trap,      \* the exception being handled: its kind, and where it came from
    aborted,   \* history: the instruction a data abort stopped, if it is next,
               \* and the registers and the memory it found
    last,      \* history: the image of the last step, if that was a load,
               \* and whether it succeeded
    loads, steps

machineVars == <<loaded, cpu, mem, pages, trap, aborted, last, loads, steps>>

NoTrap == [kind |-> "none", pc |-> 0]
NoAbort == [instr |-> "none", regs |-> <<>>, mem |-> <<>>]
NoLoad == [rom |-> 0, ok |-> FALSE]

ClearFlags == [n |-> FALSE, z |-> FALSE, c |-> FALSE, v |-> FALSE]
ResetCpu(entry) ==
    [regs |-> [r \in Register |-> IF r = PC THEN entry ELSE 0],
     f |-> ClearFlags, t |-> FALSE, cp15 |-> [i \in SystemRegister |-> 0],
     halted |-> FALSE]

DFSR == 5
IFSR == 6
DFAR == 7
IFAR == 8
FaultStatus == [translation |-> 5, alignment |-> 1]

MachineInit ==
    /\ loaded = FALSE
    /\ cpu = ResetCpu(0)
    /\ mem = [a \in Mapped |-> 0]
    /\ pages = AllPages
    /\ trap = NoTrap
    /\ aborted = NoAbort
    /\ last = NoLoad
    /\ loads = 0
    /\ steps = 0

-----------------------------------------------------------------------------
(* Loading *)

\* The images that can be parsed.
Parsed == {i \in DOMAIN Roms : Accepted(Roms[i])}

\* Mutation of LoadRom: memory is cleared when the image has been accepted.
LoadRomLate(i) ==
    LET installed == Install(Cleared(mem), Program(Roms[i]))
    IN  /\ loads < MaxLoads
        /\ IF i \in Parsed /\ installed.ok
           THEN /\ mem' = installed.mem
                /\ cpu' = ResetCpu(Program(Roms[i]).entry)
                /\ pages' = AllPages /\ trap' = NoTrap
                /\ last' = [rom |-> i, ok |-> TRUE]
                /\ loaded' = TRUE
           ELSE /\ mem' = IF i \in Parsed THEN installed.mem ELSE mem
                /\ last' = [rom |-> i, ok |-> FALSE]
                /\ UNCHANGED <<loaded, cpu, pages, trap>>
        /\ aborted' = NoAbort
        /\ loads' = loads + 1
        /\ UNCHANGED steps

\* load_rom: the old program is gone whether or not the new one is accepted,
\* but a load that fails leaves the CPU where it was.
LoadRom(i) ==
    LET installed == Install(Cleared(mem), Program(Roms[i]))
    IN  /\ loads < MaxLoads
        /\ \/ /\ i \notin Parsed
              /\ mem' = Cleared(mem)
              /\ last' = [rom |-> i, ok |-> FALSE]
              /\ UNCHANGED <<loaded, cpu, pages, trap>>
           \/ /\ i \in Parsed /\ ~installed.ok
              /\ mem' = installed.mem
              /\ last' = [rom |-> i, ok |-> FALSE]
              /\ UNCHANGED <<loaded, cpu, pages, trap>>
           \/ /\ i \in Parsed /\ installed.ok
              /\ mem' = installed.mem
              /\ last' = [rom |-> i, ok |-> TRUE]
              /\ loaded' = TRUE
              /\ cpu' = ResetCpu(Program(Roms[i]).entry)
              /\ pages' = AllPages
              /\ trap' = NoTrap
        /\ aborted' = NoAbort
        /\ loads' = loads + 1
        /\ UNCHANGED steps

\* reset
Reset ==
    /\ loads < MaxLoads
    /\ loaded' = FALSE
    /\ cpu' = ResetCpu(0)
    /\ mem' = Cleared(mem)
    /\ pages' = AllPages
    /\ trap' = NoTrap
    /\ aborted' = NoAbort
    /\ last' = NoLoad
    /\ loads' = loads + 1
    /\ UNCHANGED steps

-----------------------------------------------------------------------------
(* Instructions *)

Running == loaded /\ ~cpu.halted /\ trap = NoTrap

\* The machine state an instruction of the given size starts from.
Fetched(size) ==
    [regs |-> [cpu.regs EXCEPT ![PC] = Wrap(@ + size)],
     f |-> cpu.f, t |-> cpu.t, mem |-> mem, cp15 |-> cpu.cp15,
     fault |-> NoFault, far |-> 0]

CpuOf(s) == [regs |-> s.regs, f |-> s.f, t |-> s.t, cp15 |-> s.cp15, halted |-> FALSE]

\* fetch_instruction, and fetch_thumb_instruction with a size of 2.
FetchFault(size) ==
    IF cpu.regs[PC] % size # 0 THEN "alignment"
    ELSE IF Page(cpu.regs[PC]) \notin pages \/ ~CanRead(cpu.regs[PC], size)
         THEN "translation"
    ELSE NoFault

\* Every instruction is one of the MaxSteps, unless it is executed again.
Counted ==
    IF aborted = NoAbort THEN steps < MaxSteps /\ steps' = steps + 1
                         ELSE UNCHANGED steps

PrefetchAbort ==
    LET size == IF cpu.t THEN 2 ELSE 4
    IN  /\ Running
        /\ FetchFault(size) # NoFault
        /\ Counted
        /\ cpu' = [cpu EXCEPT !.cp15[IFAR] = cpu.regs[PC],
                              !.cp15[IFSR] = FaultStatus[FetchFault(size)]]
        /\ trap' = [kind |-> "prefetch", pc |-> cpu.regs[PC]]
        /\ last' = NoLoad
        /\ UNCHANGED <<loaded, mem, pages, aborted, loads>>

\* The instruction i at the program counter has left the machine in state s.
Complete(s) ==
    /\ s.fault = NoFault
    /\ cpu' = CpuOf(s)
    /\ mem' = s.mem
    /\ aborted' = NoAbort
    /\ UNCHANGED trap

\* take_data_abort: what the instruction has done stays done.
DataAbort(i, s) ==
    /\ s.fault # NoFault
    /\ cpu' = [CpuOf(s) EXCEPT !.cp15[DFAR] = s.far,
                               !.cp15[DFSR] = FaultStatus[s.fault]]
    /\ mem' = s.mem
    /\ trap' = [kind |-> "data", pc |-> cpu.regs[PC]]
    /\ aborted' = IF cpu.t THEN NoAbort
                  ELSE IF aborted # NoAbort THEN aborted
                  ELSE [instr |-> i, regs |-> cpu.regs, mem |-> mem]

\* A write of exec_coprocessor that reaches the MMU: the page tables are those
\* it then finds, or none.
ChangesTranslation(e) ==
    /\ Handler(e) = "coprocessor" /\ e.s = 0
    /\ IsMmuRegister(e) \/ (e.rn = 8 /\ e.rm \in 5 .. 7 /\ e.mid \in 0 .. 1)

ArmInstruction(e) ==
    LET s == Fetched(4)
        h == Handler(e)
    IN  \/ /\ ~Passes(e.cond, cpu.f)
           /\ Complete(s)
           /\ UNCHANGED pages
        \/ /\ Passes(e.cond, cpu.f) /\ h = "wfi"
           /\ cpu' = [CpuOf(s) EXCEPT !.halted = TRUE]
           /\ aborted' = NoAbort
           /\ UNCHANGED <<mem, pages, trap>>
        \/ /\ Passes(e.cond, cpu.f) /\ h \in {"swi", "undefined"}
           /\ trap' = [kind |-> h, pc |-> cpu.regs[PC]]
           /\ aborted' = NoAbort
           /\ UNCHANGED <<cpu, mem, pages>>
        \/ /\ Passes(e.cond, cpu.f) /\ h \notin {"wfi", "swi", "undefined"}
           /\ LET r == ExecuteArm(e, s, pages, cpu.regs[PC])
              IN  Complete(r) \/ DataAbort(e, r)
           /\ pages' \in IF ChangesTranslation(e) THEN PageTables ELSE {pages}

ThumbInstruction(t) ==
    LET s == Fetched(2)
        h == ThumbHandler(t)
    IN  \/ /\ h = "undefined"
           /\ trap' = [kind |-> h, pc |-> cpu.regs[PC]]
           /\ aborted' = NoAbort
           /\ UNCHANGED <<cpu, mem>>
        \/ /\ h # "undefined"
           /\ LET r == ExecuteThumb(t, s, pages, cpu.regs[PC])
              IN  Complete(r) \/ DataAbort(t, r)

\* step_arm.  After a data abort the instruction is the one that was aborted.
StepArm ==
    /\ Running /\ ~cpu.t /\ FetchFault(4) = NoFault
    /\ Counted
    /\ \E e \in ArmCode :
          /\ aborted # NoAbort => aborted.instr = e
          /\ ArmInstruction(e)
    /\ last' = NoLoad
    /\ UNCHANGED <<loaded, loads>>

\* step_thumb
StepThumb ==
    /\ Running /\ cpu.t /\ FetchFault(2) = NoFault
    /\ Counted
    /\ \E t \in ThumbCode : ThumbInstruction(t)
    /\ last' = NoLoad
    /\ UNCHANGED <<loaded, pages, loads>>

-----------------------------------------------------------------------------
(* The system software of the guest *)

Remap(table) ==
    /\ loaded /\ trap = NoTrap /\ aborted = NoAbort /\ steps < MaxSteps
    /\ pages' = table
    /\ last' = NoLoad
    /\ UNCHANGED <<loaded, cpu, mem, trap, aborted, loads, steps>>

\* A handler maps the page that the fault address register names, and returns
\* with a MOVS or SUBS to the instruction that was aborted, or to the one
\* after a SWI or an undefined one.  The CPSR comes from the SPSR of the
\* handler's mode, which an exception in user mode does not write: it holds
\* what reset put there (see SpsrCaptured).
Resume ==
    /\ trap # NoTrap
    /\ pages' = CASE trap.kind = "data" -> pages \cup {Page(cpu.cp15[DFAR])}
                  [] trap.kind = "prefetch" -> pages \cup {Page(cpu.cp15[IFAR])}
                  [] OTHER -> pages
    /\ cpu' = [cpu EXCEPT !.f = ClearFlags, !.t = FALSE,
                          !.regs[PC] = IF trap.kind \in {"data", "prefetch"}
                                       THEN trap.pc ELSE Wrap(trap.pc + 4)]
    /\ trap' = NoTrap
    /\ last' = NoLoad
    /\ UNCHANGED <<loaded, mem, aborted, loads, steps>>

MachineNext ==
    \/ \E i \in DOMAIN Roms : LoadRom(i)
    \/ Reset
    \/ StepArm
    \/ StepThumb
    \/ PrefetchAbort
    \/ \E table \in PageTables : Remap(table)
    \/ Resume

MachineSpec == MachineInit /\ [][MachineNext]_machineVars

-----------------------------------------------------------------------------
(* Properties *)

\* Registers, memory and system registers hold words and bytes, whatever the
\* instructions compute.
MachineTypeOK ==
    /\ cpu.regs \in [Register -> Word]
    /\ cpu.f \in Nzcv /\ cpu.t \in BOOLEAN /\ cpu.halted \in BOOLEAN
    /\ cpu.cp15 \in [SystemRegister -> Word]
    /\ mem \in Contents
    /\ pages \subseteq AllPages
    /\ trap.pc \in Word
    /\ loaded \in BOOLEAN
    /\ loads \in 0 .. MaxLoads /\ steps \in 0 .. MaxSteps

\* A load that succeeds leaves the image in memory, no section written over
\* another, and the CPU at its entry point, in the text.  One that fails
\* leaves nothing there that is not of the rejected image, in particular
\* nothing of the program that ran before, and the CPU as it was.
MemoryIsTheImage ==
    [][last' # NoLoad /\ loads' # loads =>
          LET p == Program(Roms[last'.rom])
          IN  /\ \A a \in Mapped \ Writable : mem'[a] = mem[a]
              /\ last'.ok =>
                    /\ \A a \in Writable : mem'[a] = ImageByte(p, a)
                    /\ cpu'.regs[PC] - p.exheader.text.address
                           \in 0 .. p.exheader.text.size - 1
              /\ ~last'.ok =>
                    /\ \A a \in Writable :
                          mem'[a] = 0 \/ (last'.rom \in Parsed /\ mem'[a] = ImageByte(p, a))
                    /\ UNCHANGED cpu]_machineVars

\* A load or store that is aborted half way, perhaps more than once, and
\* executed again when its pages are mapped ends with the registers and the
\* memory it would have ended with, had it not been aborted.  Two kinds of
\* instruction are left out: a load of several registers with its base among
\* them, which may have been loaded, and one with a condition, since the flags
\* are not restored.
Restartable(e) ==
    e.cond = 14 /\ ~(Handler(e) = "block" /\ e.s = 1 /\ e.rn \in RegisterList(e))

Unaborted ==
    LET found == [Fetched(4) EXCEPT
                     !.regs = [aborted.regs EXCEPT ![PC] = Wrap(@ + 4)],
                     !.mem = aborted.mem]
    IN  ExecuteArm(aborted.instr, found, AllPages, aborted.regs[PC])

RestartTransparent ==
    [][/\ aborted # NoAbort /\ Restartable(aborted.instr)
       /\ aborted' = NoAbort /\ loads' = loads
       => cpu'.regs = Unaborted.regs /\ mem' = Unaborted.mem]_machineVars

=============================================================================
