# A TLA+ model of emulator3ds

These modules model the control logic of the Rust crate `emulator3ds`
(`src/`), an emulator core for the Nintendo 3DS: the high-level kernel, the
loop that drives the devices, the CPU with its instructions and exceptions, the
MMU, memory and the ROM loader, and playback (timing, GPU commands, audio,
diagnostics). TLC checks them on small instances; TLAPS proves the main results
for all values of the constants.

Run everything from this directory:

    tlc -workers 2 -config KernelIpc.cfg MCKernel     # one of the runs below
    tlapm KernelProofs.tla                            # one of the proof modules

`PROJECT.json` lists the runs, the lines each definition stands for, a mutant
for each property (a changed definition under which the property fails), the
hazards of the code and the theorems.

## 1. The system

Everything is single-threaded. One host call runs to its end before the next,
and inside `run_cycles` one iteration of the loop runs to its end. What is
concurrent is the *order* in which independent parties get their turn: the
guest program, the guest's several processes, the devices whose completions
are queued with a delay, and the host, which may load, reset, feed or pause
the machine between any two iterations. Two `HashMap`s whose iteration order
is unspecified add real nondeterminism (which process is pumped first, which
port gets which number).

Paths below are relative to `src/src/core/`.

| Component | State | Operations | Talks to |
|---|---|---|---|
| Kernel (`kernel.rs`, `ipc.rs`, `services/mod.rs`) | processes with handle tables and IPC queues, blocked flags, handle counter, name table and registry, wake requests, service state | system calls, IPC queue/pump/pop, wakes, name lookups, service handlers | the loop pumps it and takes its wakes; RomFS through `fs.rs`; GPU words handed to the loop |
| Archives and files (`fs.rs`) | mounted RomFS | open archive, open file, read | kernel service `fs:USER` |
| Scheduler (`scheduler.rs`) | cycle counter, pending events, insertion counter | `tick`, `schedule_in`, `drain_due_events`, `reset` | loop, DMA, kernel wakes |
| Interrupts (`irq.rs`) | pending mask | `raise`, `clear`, `next_pending` | devices raise, loop delivers |
| DMA (`dma.rs`) | transfers in flight | `queue_transfer`, `complete_transfer`, `reset` | scheduler completion events, memory, GPU fifo |
| Loop (`emulator.rs`) | the above, `rom_loaded`, traces, profiler | `run_cycles`, `load_rom`, `reset`, DMA and GPU entry points | everything |
| CPU (`cpu.rs`) | registers, banks, CPSR/SPSR, run state, CP15 bank | `step` (fetch, decode, execute, abort), `enter_irq`, `reset` | MMU, memory; the loop reads its last exception and fault |
| MMU (`mmu.rs`) | control, TTBR0, DACR, TLB | CP15 writes, `translate` | page tables in memory |
| Timing, DSP (`timing.rs`, `dsp.rs`) | cycle phases, counts, sample buffer | `tick`, `snapshot`, `produce_samples` | the loop's callbacks |
| GPU (`pica.rs`) | fifo, registers, framebuffer, events | `enqueue_gsp_fifo_words`, `tick`, `take_events` | loop, DMA, `gsp::Gpu` |
| Diagnostics (`diagnostics.rs`, `trace.rs`) | ring buffers, boot checkpoints | `push`, `mark`, `compare` | loop |
| Memory, bus (`memory.rs`, `bus.rs`) | segments of bytes | checked reads and writes, `clear_writable` | all |
| Loaders (`loader/*.rs`, `rom.rs`) | none | parse NCSD, NCCH, ExHeader, ExeFS, RomFS; install the process image | `load_rom`; memory |
| Wrapper (`../lib.rs`), errors (`error.rs`) | none of their own | forwarding | host |

What is hard, and what makes each component correct:

- **IPC**: requests are queued by guests, served by whoever pumps (the loop, a
  system call of another process, a wake), and answered in another queue.
  Correct if no request is lost, answered twice or overtaken, if a blocked
  process never has work the pump skips, and if it always has a wake coming.
- **Handles and names**: numbers come from one saturating counter; ports can be
  registered again, duplicated and closed. Correct if a number never comes to
  mean something else, and a name never leads to another object.
- **Services**: correct if each acts only for a process that holds its session.
- **Scheduler and devices**: resets are made of several separate resets. Correct
  if timers stay armed exactly once, transfers and completions stay paired, and
  nothing due is handled late by more than an instruction.
- **SWI dispatch**: the loop reads the CPU's last exception as a value. Correct if
  a SWI is dispatched once (it is not, see section 5).
- **Exceptions**: correct if the banks of the modes never mix, user mode cannot
  raise its privilege, and the SPSR saves what was interrupted (it does not).
- **TLB**: correct if it decides no access by a descriptor that the software has
  had it forget.
- **Timing**: instructions do not divide frames or samples. Correct if no cycle is
  lost or doubled on the way to the screen, the speaker and the host's counters.
- **GPU**: words arrive in portions that need not be packets. Correct if registers
  are written in the order submitted, each draw is signalled once, and the trace
  replays to the same state.
- **Diagnostics**: a cursor into another component's trace, and a profile of first
  times. Correct if the records are the latest ones and the profile points at the
  first thing out of place.
- **Loaders, memory**: nested offsets in machine widths, and a load that writes
  before it can fail. Correct if every section lies where it should, and memory
  holds the image after a load and nothing foreign after one that failed.
- **Instructions**: carries and signs at the ends of the range, a cascade of
  handlers in which the first that accepts takes all, and transfers that fault
  half way. Correct if arithmetic is exact, comparisons compare, each encoding
  reaches its handler (three do not, see section 5), and an instruction that was
  aborted can be executed again.

## 2. The modules

| Module | Models |
|---|---|
| `IpcChannels` | what IPC promises a process: three counters, three actions |
| `Kernel` | all state-changing operations of the kernel and its services |
| `MCKernel` | instances of `Kernel`, and slices of its `Next` |
| `KernelProofs` | theorems about `Kernel` |
| `Scheduler` | the event queue as operators |
| `Emulator` | the loop and the host's calls, composing `Kernel`, `Scheduler`, IRQ and DMA |
| `MCEmulator`, `EmulatorProofs` | instances of `Emulator`, and theorems about it |
| `RegisterBanks` | what banked registers promise: each mode has its own |
| `CpuExceptions` | modes, banks, CPSR, SPSR, exceptions, MSR, exception return, WFI |
| `MCCpu`, `CpuProofs` | its instances and theorems |
| `Alu` | sums, differences, flags, shifts and conditions, as operators on words |
| `Decode` | which handler takes an ARM or Thumb instruction |
| `Execute` | what each handler does to registers, flags, memory and the CP15 bank |
| `Memory` | segments, checked reads and writes byte by byte, as operators |
| `Loader` | the checks of the headers, the process image, its installation |
| `Machine` | composes the five: images are loaded and run, with aborts, page tables and the guest's handlers |
| `MCMachine`, `IsaProofs`, `MachineProofs` | its instance; theorems about instructions, and about loading and running a program |
| `AddressSpace` | an address space without a TLB: what the MMU promises |
| `Mmu` | `mmu.rs` and the CP15 writes and memory accesses that drive it |
| `MCMmu`, `MmuProofs` | its instance and theorems |
| `Timing` | the timing model: `tick`, its phases and scanlines |
| `Pica`, `PicaProofs` | the GPU's command decoder and registers, as operators, and theorems about them |
| `Diagnostics` | ring buffers and the boot profiler, as operators |
| `Playback` | the loop as screen, speaker and diagnostics see it: composes the three with the DSP and the callbacks |
| `MCPlayback`, `PlaybackProofs` | its instance and theorems |

Names follow the source where TLA+ allows.

### Kernel

A variable per field of `Kernel` that any operation reads, plus four histories
(`stranded`, `sent`, `got`, and the tag of each message) that no guard looks
at. One action per public operation; the handlers of `services/mod.rs` and of
`kernel.rs` are the operators `DispatchSrv`, `DispatchFs`, `DispatchApt`,
`DispatchGsp` and `DispatchHid`, whose disjuncts are the arms and early
returns. `scheduled` counts what the kernel's environment, the scheduler,
holds for it; `TakeScheduleEvents` and `SchedulerWake` are the two ends of
that, and `LoadRom` and `ResetRuntime` what the host does to it.

A message is what the services look at: command, number of words, the name and
the number its words spell. IPC encoding is left out, except that words that do
not parse become a message no service accepts. The error list, tick counter
and full service log are left out, as no operation reads them.

### Emulator

`phase` is the program counter in one iteration of `run_cycles`; each phase is
a statement of the loop with everything it calls. The CPU is reduced to what
the loop reads of it. The scheduler's absolute times are kept relative to now,
so that a run needs no bound on time. `Report` has as a guard that the IPC
queues are empty, and `Gpu` that the kernel's GPU hand-off is: no code in
`Emulator3ds` queues an IPC request. Every SWI of the run is one the kernel's
actions accept. With deadlock checking on, each run also shows those guards
always hold: were one false, the loop would be stuck.

### CpuExceptions and Mmu

In `CpuExceptions` the instruction set counts for what it does to the modelled
state: any instruction that is not listed may write any value to the stack
pointer, the link register and the flags. Stack pointers and link registers have
sets of values of their own (`Stacks`, `Words`). `Mmu` keeps several page tables in
memory and lets stores, DMA and failed loads change them without its noticing, as
they can in the code. Its variable `late` is a history: the descriptors a section
has had since the TLB was last dropped.

### Alu, Decode, Execute, Memory, Loader and Machine

These have the instruction set itself, for a program in user mode. An
instruction is a record of its fields, which are nibbles but for two; each
predicate of `Decode` is one mask of the code, and `Handler` the order of the cascade.
`Execute` has an operator per `exec_` function, from a machine state to the next;
a fault is a field of the state, so that what an instruction has written before it
faulted stays written, as in the code. Words are numbers below `Modulus`, with
`Half` a parameter, and a word is four bytes of `ByteBits` bits, so that an instance
may have words of eight bits; `UserStatus` is the CPSR of user mode below its flags. The
transfer of several registers is in parts (`BlockAt`, `BlockFailing`, `BlockRegs`,
`BlockMem`, ...): where each register goes, which of them cannot, and what those before
the first of these leave.

`Loader` keeps every check of the headers, in its order of effect and its width:
`Units` and `Plus` wrap at `Usize` where the code multiplies and adds unchecked (a
release build), `Fits` is `checked_add` and the comparison after it. A load either
fails or not: the kinds of error are one.

`Machine` composes them. `LoadRom` and `Reset` are the host's. `StepArm`, `StepThumb`
and `PrefetchAbort` are `step`; which instruction is found at an address is left
open, so that a program that writes over itself needs nothing more. After an abort the
instruction is the same again. The guest's system software is in `Remap` and `Resume`:
it changes page tables, and its handler maps the page that DFAR or IFAR names and
returns. A return restores the SPSR that reset left, as section 5 explains. The
instructions of handlers, and interrupts between two instructions, are left out:
`CpuExceptions` shows what they do to a program's registers. `pages` are those that
translate, each to itself; `Mmu` has the rest. `aborted` and `last` are histories.

### Timing, Pica, Diagnostics and Playback

`Playback` is the other half of `run_cycles`: what `Emulator` leaves out, and
nothing that `Emulator`'s properties read. Here an iteration of the loop is one
step, `Iterate`, with the parts in the order of the code as conjuncts; the host
may ask for one iteration at a time, so its calls come between any two. The
guest is open: an instruction takes 1 to `MaxCost` cycles, and may end in a SWI or
halt the CPU.

- The variables of `Timing` are the fields of `TimingModel`. Nothing saturates, as
  2^64 cycles are out of reach. The drift correction only proposes a budget, and
  every budget is allowed here.
- `fifo` is a sequence of words, numbers packed as in the code with smaller fields.
  `gpu` has the registers that matter without a rasteriser: no code in
  `Emulator3ds` loads a vertex, index or texture stream, so a draw only reports
  a complete frame. A colour is kept as its recipe: value, shader, constant, format.
- A sample is the phase it was made in, from which `produce_samples` computes it.
- `framesTaken`, `samplesTaken`, `submitted`, `whole` and `traceBase` are
  histories; only the bounds look at one. `whole` turns false when the host submits
  words that are no packet: what the registers are then is the decoder's business,
  and `WritesInOrder` claims nothing.

## 3. What the runs check

| Run | Question | Bounds |
|---|---|---|
| `kernel_ipc` | Do queueing, pumping, blocking and waking, with loads and resets, keep every request in order, and answer it? | 2 processes, 3 requests each, 2 wakes each |
| `kernel_names` | Do handles and names stay what they are through register, connect, duplicate, close? | 2 processes, 2 names, 1 request each, 5 handle numbers, so the counter saturates |
| `kernel_fs` | Are RomFS handles backed by a mounted image? Do variables keep their types? | 1 process, 3 requests: archive, file and read; 2 handle numbers after boot |
| `kernel_services` | Does only the holder of a session act on a service? | 1 process, 5 services, 1 request, no reset |
| `emulator_dma` | Are due events handled at once, timers armed once, transfers paired? | 2 channels with 2 transfers each, periods 3 and 4, instructions of 1 to 2 cycles |
| `emulator_swi` | Are wakes accounted for and bounded, and does the loop drive the kernel as `Kernel` says? Does a halted CPU wake? | wake delay 3, periods 4 and 6 |
| `emulator_repeat` | Is a SWI dispatched once? **Violated.** | one SWI number |
| `cpu_modes` | Is the CPU always in a mode it has, user mode confined, and do the banks stay apart? | 5 modes, 2 values of the link register, 1 of the stack pointer and of the flags |
| `cpu_spsr` | Does an exception save what it interrupted? **Violated.** | 5 modes, 1 stack pointer |
| `machine` | Is memory the image after a load? Does an aborted instruction, executed again, end as if it had not been? | words of 8 bits, 7 words of memory in 5 pages, 24 images, 2 loads, 156 instructions of which 2 are executed (repetitions after aborts aside) |
| `mmu` | Is every access decided by a descriptor not older than the last flush? | 2 sections, 2 tables, 2 descriptors, 1 domain |
| `playback` | Do frames, samples, blankings, callbacks, registers, traces and profile follow the cycles executed and the packets submitted? | 10 cycles, 5 once the GPU is fed; 3 register writes; buffers of 2 |

Why the bounds are enough to be interesting:

- Two processes are the fewest between which the pump chooses and whose handle
  numbers can clash. Three requests let one be answered, one be waiting and one
  be queued at the same time. `MaxSent` also rules out that one process starves
  another by queueing before every pump for ever, which the code does not
  prevent; so `AnswersEveryRequest` is about finitely many requests.
- The handle range ends after a few numbers, so that the saturated counter
  occurs in every kernel run. The properties except the last number, as the
  code gives it out again and again.
- In `emulator_swi`, `MaxWakes` is above `WakeDelay`, and `WakesBounded` shows that
  it is never reached: the bound does not hide a blocked step.
- In `emulator_dma` the ratio of periods to instruction cost lets the timer and
  the vertical blank fall due in one batch, with completions of both channels,
  and be handled late. The two channels are interchangeable in the code, and
  are a symmetry set.
- In `kernel_names` a handle is duplicated and closed any number of times, but a process
  sends only one request between resets. In `kernel_services` what can
  go wrong lies between a request and its service: the session is closed, or its number,
  the last one, is given out again for another service. A second request, a second
  process and the reset (each of whose 120 numberings of five ports is a step) are left to
  the theorem `ServicesKeepAuthority`; the file of an archive, which takes two requests,
  is opened in `kernel_fs`.
- `cpu_modes` has all modes, to show that the CPU is never without a bank, and tells the
  banks apart by the link register alone, of the two banked registers the one that
  exceptions also write. With a second stack pointer, or a second value of the flags, the
  run does not end in minutes; the theorem `CpuImplementsBanks` has all of them.
- In `machine` a register can be made to point anywhere by one move, and the next
  instruction is a load or store: two are enough for an address that is not aligned,
  not mapped, mapped without memory, read-only, or at the end of any of these, and
  a transfer of two registers whose first succeeds and whose second faults, and
  then faults again for its own page. After an abort the instruction is not counted.
  The images have one fault each, of every kind `Loader` looks for, or none, or
  sections that the headers allow and memory does not, or an ExeFS whose offset wraps
  (`Usize` is 1024) to before the partition; two loads are an image over another.
  Where sections lie is the subject of two theorems, `SectionsInFile` and
  `SectionsInPartition`, and of no property of the run. In `Machine.cfg` deadlock
  checking is off: the machine halts, and stops at the bounds.
- Two descriptors that differ in frame and in rights, and `Invalid`, let an entry
  be stale in each way; two sections show that a flush drops all; two tables
  that switching does. The sections are a symmetry set.
- In `playback` a frame is 4.5 cycles and a sample 2.25, so that each begins within a
  cycle, and an instruction of 2 cycles can step over its start. The frame that
  scanlines go by is 4 cycles with 3 lines of 1: as in the code it is cut short, and
  what is left over is a line too many. 10 cycles (`MaxCycles`) are two frames and
  four samples. Register writes and cycles are independent but for the iteration that
  does both, so behaviours with GPU words stop after 5 cycles (`FewCycles`), a
  frame and a buffer of samples. `MaxTrace` of 3 overfills the trace buffer of 2
  and holds two packets, in one portion or two. The packets include a count of
  zero, a sequential one that wraps round the registers, and microcode before the
  constant that puts it to effect. With `MaxTrace` reached and the cycles spent,
  the host can still load, so the run needs no exemption from deadlock checking.

Every action occurs in a passing run.

## 4. Fairness

Liveness properties are checked under:

- `Kernel!Fairness`: weak fairness of `Pump`, of `TakeScheduleEvents` and of
  each process's `SchedulerWake`. Every iteration of `run_cycles` calls
  `pump_ipc_events(1)` and drains due events, and takes the wakes right after a
  SWI. Nothing is assumed about which process `Pump` serves, since the code's map
  order promises nothing.
- `EmuLiveSpec`: weak fairness of the iteration, which runs to its end in the
  code, and of `HostRun`, as a host that never calls runs nothing. Nothing is
  assumed about the guest: it may loop with interrupts masked for ever.

`BlockedIsWoken` exempts behaviours in which the host loads ROMs for ever, and
processes that a load has stranded. `HaltedWakes` requires that interrupts are
open, as a CPU halted with the I flag set never wakes in this code.

## 5. Where code and documentation disagree

1. `emulator.rs:387`: `last_exception` is read after every instruction and never
   cleared, so a SWI is dispatched again in every iteration until another
   exception is taken, also while the CPU is halted. `README.md:24` describes
   "SWI -> service dispatch". `OneDispatchPerSwi` fails; what remains true
   is `WakesBounded`: the repeated SWIs do not pile up wakes beyond the delay.
2. `cpu.rs:1405`: `take_exception` writes the SPSR before it switches mode, so the
   status lands in the SPSR of the interrupted mode, or nowhere from user mode.
   `README.md:17` lists "SPSR capture per exception mode". `SpsrCaptured` fails.

What the models also show, against no statement of the repository:

- `timing.rs:206`: the last scanline is 262, one more than there are lines, as what is
  left of a frame after 262 lines counts as another line.
- `timing.rs:196`: blankings are counted in frames cut to whole cycles, frames are not
  cut; the two counts part by one in 6.7 million.
- `diagnostics.rs:154`: nothing enables the CPU's instruction trace, so that
  `FirstInstruction` is never marked and every profile diverges at its second checkpoint.
- `emulator.rs:183`: the GPU outlives a load, so the first iteration traces all writes of
  the ROM before, and marks `FirstGpuCommand`.
- `emulator.rs:270`: the budget counts iterations, the result counts cycles.
- `emulator.rs:128`: a load drops the wakes with the scheduler and leaves the kernel as it
  is: a process blocked before it stays so until it queues a request or asks for a wake
  again (`stranded`).
- `emulator.rs:123`: a load clears memory before it can fail. After one that fails
  `rom_loaded` and the CPU are as they were, over memory of zeros.
- `timing.rs:99`: a load resets the timing model, and with it the host's wall-time anchor
  and its drift policy.
- `ncsd.rs:47`: where `usize` has 32 bits (the wrapper's target), offsets wrap: a section
  may lie outside the partition it belongs to, but never outside the file.
- `cpu.rs:317`: the handlers of BX, MUL, MLA, SWP and SWPB accept nothing that a handler
  before them has not taken (theorem `DeadHandlers`). BX ends in the data handler as a TEQ
  that sets no flags, SWP and SWPB there as such a TST and CMP: all three do nothing.
  A multiplication ends in the handler of halfwords: without S it does nothing, with S it
  loads a byte. The repository's `README.md:9` and `:11` list BX and MUL.
- `cpu.rs:823`: a transfer that decrements before starts one word below the base and goes
  up, so that what it stores is not where an increment after loads it from.
- `cpu.rs:1167`: Thumb loads and stores of bytes move words.
- `cpu.rs:1271`: a rotation by zero, in ARM a rotation through the carry, is one by one.
- `cpu.rs:1372`: after a fault that is not the MMU's (alignment, or an address without
  memory behind it) DFAR holds the address of the instruction.
- `kernel.rs`, `gsp::Gpu`: the hand-off of a draw writes registers 0x201 and 0x202, which
  `pica.rs` does not know.

## 6. What is proved

Proofs hold for all values of the constants that satisfy the named assumptions
(`KernelAssumption`, `EmulatorAssumption`, `CpuAssumption`, `MmuAssumption`,
`TimingAssumption`, `SamplesPerFrameAssumption`, `PicaAssumption`, `PlaybackAssumption`,
`PacketsAssumption`, `HalfAssumption`, `MemoryAssumption`, `UserStatusAssumption`,
`LoaderAssumption`, `MachineAssumption`, ...): finiteness of the boot registry, that the
boot handles fit the handle range, that delays and periods are not zero, that a frame
has a whole number of samples (800 in the code), that the five registers of the GPU are
different ones, that the packets a run submits are whole, that the status of user mode
lies below the flags, that segments are aligned and disjoint and that a word is four
bytes of two bits or more, types of the rest.

**Kernel** (`KernelProofs`). First a layer of lemmas says what serving a request,
by any service, does to the queues (`Served`) and to the handle and name tables
(`ServedHandles`); the invariants are then proved from these effects, one step
per action of `Next`.

- `TypeCorrect`: inductive by itself; the others use it.
- `HandlesAreFresh`, `HandlesAreStable`: `HandlesFresh` with `TypeOK` is inductive,
  because what is in use lies below the counter and the counter never falls.
  `HandleStability` follows from the same step lemmas.
- `PortsAreRegistered` relates name table, registry and handle tables, and rests
  on `HandlesFresh`'s idea that a closed number is never given out again.
- `RomFsIsBacked` needs that no operation unmounts but the reset.
- `BlockedHaveNoRequests`: a queued request unblocks, and only an empty queue blocks.
- `BlockedHaveWakes`: needs the history `stranded`, as a load does strand.
- `NothingIsLost`: positions of answers and requests follow the last one collected;
  the invariant is about sequences, and each operation takes from the front or
  adds to the end.
- `KernelImplementsChannels`: step simulation from `NothingLost`: queueing is
  `Submit`, serving is `Answer`, popping is `Collect`, a reset is `Restart`.
- `ServicesKeepAuthority`: each table has one handler that writes it, and `Served` says
  through which object it was reached; the object was in the process's table.

**Emulator** (`EmulatorProofs`).

- `LoopImplementsKernel`: step simulation. A phase of the loop is a step of `Kernel` or
  leaves its variables alone; taking wakes is `TakeScheduleEvents`, delivering one is
  `SchedulerWake`. With it every theorem of `KernelProofs` holds in the emulator
  (corollary `LoopKeepsKernelTyped` for one).
- `EmuTypeCorrect`, `EventsArePunctual` from `EventInv`. What needs work is `drain`: the
  entries due at one time are numbered from 0 (`Ranked`), so that the rank of a new entry,
  which is how many there are, is free, and each entry has a place of its own in the order.
- `TimersStayArmed`, `TransfersAreAccounted` and `WakesAreAccounted` are inductive
  together (`CountInv`), given `PendingInv`: only in the phase between a SWI and the
  taking of its wakes is a wake pending. The entries that count are those in the
  queue and those drained and not yet handled; a lemma for each operation of the queue says
  what it does to that sum.
- `WakesStayBounded`: no two wakes of a process are due at the same cycle
  (`WakesApart`), since an iteration that adds one has advanced the clock before;
  `Paid` are the phases in which it already has. Wakes are then as few as the cycles in
  which they can be due.
- `KernelStaysQuiet`: no request is queued and nothing handed to the GPU (`Quiet`), so the
  guards of `Report` and `Gpu` leave nothing out.

**CPU** (`CpuProofs`). `CpuTypeCorrect`; `CpuImplementsBanks`, where `SwitchBanks`
shows that saving and loading around a mode switch is a write of the old mode's
registers and of nothing else, also when the mode does not change; and
`UserModeConfined`.

**MMU** (`MmuProofs`). `MmuInv` adds to `TlbCoherent` that a section's history holds
the descriptor it has now: without that, an entry read from the table could not
be shown to be in the history. From it, `TlbStaysCoherent` and
`MmuImplementsAddressSpace`, whose steps are: any register write with a flush is
`Renew`, any store is `Change`, any access is `Access`.

**Playback** (`PlaybackProofs`).

- `PacingIsExact`: `Clock(due, phase, hz, now)` says that what is due, with the phase
  below one unit, is what `now` cycles come to. It is inductive: adding a product to the
  phase and dividing by the clock rate moves whole units from one to the other.
- `AudioFollowsVideo` follows from the two clocks: both are roundings of the same
  cycles, and a frame is a whole number of samples.
- `VBlanksAreCounted`: cycles divided by the frame are frames begun, and blankings are
  counted by where a cycle lies in its frame (`FrameShape`). An instruction shorter
  than either part of the frame crosses the edge once; `DivUnique` puts the quotients
  side by side.
- `AudioIsUnbroken`: `Unbroken` says of each sample that it lies as many phases before
  the current one as samples follow it. What `produce_samples` adds moves both by the
  same number, and the latest part of an unbroken sequence is one.
- `HostIsToldOfAll`: counters and callbacks grow by the same numbers and are cleared
  together; that they are natural numbers comes from `PacingInv`.
- `BootProfileIsSound`: `GoodProfile` says what a profile can look like: it starts with
  `RomLoaded`, and its second checkpoint is not `FirstInstruction`. `MarkGood` shows
  that a mark keeps it so, and is used four times for an iteration's four marks.
- `RegistersWrittenInOrder`, from `FifoInv`: the writes in the trace, followed by those that
  the fifo decodes to, are those of all words submitted; a portion that is whole adds its
  writes at the end, by `DecodeInPortions`.
- `TraceReplays`, from `ReplayInv`: each trace entry, decoded alone, is the write it came
  from (`PacketDecodes`), and folding writes over registers can be cut anywhere.
- `GpuRecordsAreCurrent` from `TraceInv`: the ring holds the latest part of the trace up to
  the cursor, and the latest part of that with more added is the new ring. `DrawsAreSignalled`
  from `DrawsInv`: an iteration signals the draws among the writes it adds to the trace.
- `PlaybackTypes` needs these, since a register's type comes from the words it was
  written from.

**GPU** (`PicaProofs`). `Decode` and the folds are recursive functions, which the provers
know only by their equation. What they compute for every input is proved by taking the
first position at which it would be otherwise: the least element of a set of numbers
(`WFMin` of the library), which needs no induction rule.

- `DecodeInPortions`: decoding `a \o b` is decoding `a`, then `b`, when packets of `a` end
  where `a` ends. The positions at which packets start are a set that is closed
  under the step from one to the next.
- `PacketDecodes`: a header with as many values as it counts is decoded to exactly its
  writes, whatever the widths of the header's fields.

**Instructions** (`IsaProofs`), for words of any width.

- `AddExact`, `SubExact`: result and carry are the sum, or the difference, of the
  numbers; V is set just when it cannot be written with a sign. The carry goes in by a
  second addition in the code, so the proof is about two wraps of which one happens
  at most.
- `ConditionsCompare`: after a comparison each condition says what its name says.
- `DoubleAdd`, `DoubleSub`: additions and subtractions chained through the carry are
  those of double words; from the exactness of each half.
- `DeadHandlers`: see section 5. By the fields of the encodings that the masks fix.

Below these are lemmas about every operator of `Execute`: each handler takes a machine
state to a machine state (`ExecuteArmTyped`, `ExecuteThumbTyped`), and none but the
transfers faults. Their base is a bound on sums of powers, for the results that the model
computes bit by bit or byte by byte: `SumsBounded` and `Weights`, by well-founded
induction on the number of parts, as a set of counterexamples without a least element.
Three more say what a transfer does when it is executed again: it reads no flag
(`ExecuteAlike`; the carry a shift reads does not reach the address), what it does
without a fault it also does with more pages (`ExecutePages`), and from the registers and
the memory that its fault left it does what it would have done (`ExecuteAgain`).

**Loading and running** (`MachineProofs`).

- `SectionsInFile`: no section that is read ends outside the file, in any width of
  `usize`. `SectionsInPartition`: nor outside its partition, where `usize` holds twice
  the largest offset.
- `InstallExact`: what the four writes and the zeroing of bss leave, byte by byte, over any
  layout of segments. A write stops at its first fault, which leaves a prefix: the lemma
  `Written` finds it as the smallest offset without memory, and `ThenWritten` puts a
  section after the others. Addresses wrap in the code; that a section that was written
  whole did not is part of `Written`.
- `MemoryFaithful`: `MemoryIsTheImage` of every step, from `InstallExact` and the one step
  that loads. It needs no invariant: what is claimed of a load follows from its two ends.
- `MachineTypeCorrect`: `MachineInv`, which says that the CPU is a record of its fields,
  is inductive by the lemmas about `Execute` and, for a load, about `Install`.
- `RestartCorrect`: `RestartTransparent` of every step. The inductive invariant is
  `RestartInv`: while an instruction is aborted it is a transfer; the program counter, or
  in a handler the return address, is its own; and `Unhindered` from the state of now, with
  its address in the program counter, gives the registers and the memory that `Unhindered`
  from the state it was first met in gives. An abort keeps this by `ExecuteAgain`, one
  after another as the relation is transitive, a fetch fault and a return because they
  move nothing but the program counter. The step that ends the instruction does what
  `Unhindered` does, by `ExecutePages`. That no register before the failing one is the
  program counter is part of it (the list is in ascending order), and so is the exception
  that `Restartable` makes: when the base may have been loaded, the address is lost.

Only model-checked: the liveness properties `AnswersEveryRequest`, `BlockedIsWoken` and
`HaltedWakes`, which are out of the prover's reach. Every invariant and every action
property that a run checks is a theorem, but for `OneDispatchPerSwi` and `SpsrCaptured`,
which are false.

## 7. What is not modelled, and what comes next

Not modelled, and why:

- Of the CPU: the instructions that handlers in other modes execute, beyond what
  `CpuExceptions` has of them; traces and cycle counts of instructions.
- Pixels (rasteriser, blending, texture formats) and sample values: arithmetic on data
  without control.
- Names, paths and texts: of services, files, logs and errors. A title package (`fs.rs`)
  wraps an image in such texts and ends in a call of `load_rom`.
- The encoding of IPC words, and the drift correction, which proposes a budget.
- The old `core/loader.rs`, which is not part of the crate's module tree.
- The wrapper in `lib.rs`, which forwards.

Next, in this order:

1. `Drift`: `recommended_cycle_budget` and `run_cycles_synced` against a host clock,
   with a budget that counts iterations.
2. The encoding of IPC words, against the message that `Kernel` makes of them.
