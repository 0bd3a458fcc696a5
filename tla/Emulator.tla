----------------------------- MODULE Emulator ------------------------------
(***************************************************************************)
(* The emulator (src/src/core/emulator.rs): one iteration of run_cycles    *)
(* after another, with the scheduler, the interrupt controller (irq.rs),   *)
(* the DMA engine (dma.rs) and the kernel as it uses them, and the host's  *)
(* calls in between.  `phase` is the place in the iteration; the host gets *)
(* its turn when it is "idle".                                             *)
(*                                                                         *)
(* The CPU is here what the loop sees of it: whether it takes interrupts,  *)
(* is halted, which exception it took last and whether an access faulted.  *)
(* The guest program may do anything that changes these.  The GPU is one   *)
(* bit: whether its fifo holds a draw.  Traces, the boot profiler and the  *)
(* pacing of frames and audio are left out.                                *)
(*                                                                         *)
(* Nothing in Emulator3ds queues an IPC request, so the kernel's queues    *)
(* stay empty: Report has that as a guard, and TLC would report a deadlock *)
(* if it failed.  The budget of a call is left open: run_cycles may return *)
(* after any iteration.                                                    *)
(***************************************************************************)
EXTENDS Kernel, Scheduler

CONSTANTS
    DmaChannels,    \* DMA channels
    TimerPeriod,    \* 16 in the code
    VBlankPeriod,   \* 4_000_000 in the code
    WakeDelay,      \* 64 in the code
    MaxCost,        \* the most cycles an instruction takes, 4 in the code
    TransferWords,  \* lengths of DMA transfers
    MaxTransfers    \* bound: transfers in flight on a channel

ASSUME EmulatorAssumption ==
    /\ TimerPeriod \in Nat \ {0}
    /\ VBlankPeriod \in Nat \ {0}
    /\ WakeDelay \in Nat \ {0}
    /\ MaxCost \in Nat \ {0}
    /\ TransferWords \subseteq Nat
    /\ MaxTransfers \in Nat

Lines == {"Timer0", "VBlank", "Dma0", "Gpu"}
Kinds == {"MemoryToMemory", "GpuQueueFeed"}
Phases == {"idle", "irq", "step", "report", "drain", "handle", "gpu", "swi", "take", "end"}

DeviceEvents ==
    {TimerExpiry, VBlank} \cup {DmaCompletion(c) : c \in DmaChannels}
    \cup {ServiceWake(p) : p \in Pids}

Entries == [in : Int, rank : Nat, event : DeviceEvents]

VARIABLES
    phase,       \* where in the iteration
    romLoaded,   \* rom_loaded
    queue,       \* scheduler.pending
    batch,       \* the due events of this iteration still to be handled
    irq,         \* irq.pending, a set of lines; every line is enabled
    inFlight,    \* dma.in_flight, the transfers of each channel in order
    fifo,        \* whether gpu.fifo holds a draw
    masked,      \* the I flag of the CPSR
    halted,      \* cpu.state = Halted
    lastSvc,     \* immediate of cpu.last_exception if that was a SWI
    fault,       \* cpu.last_mmu_fault
    svcFresh     \* history: the last SWI has not been dispatched yet

cpuVars == <<masked, halted, lastSvc, fault, svcFresh>>
deviceVars == <<irq, inFlight, fifo>>
kernelVars == vars
emuVars == <<kernelVars, phase, romLoaded, queue, batch, cpuVars, deviceVars>>

NoSvc == -1

EmuInit ==
    /\ Init
    /\ phase = "idle"
    /\ romLoaded = FALSE
    /\ queue = {} /\ batch = {}
    /\ irq = {}
    /\ inFlight = [c \in DmaChannels |-> <<>>]
    /\ fifo = FALSE
    /\ masked = FALSE /\ halted = FALSE
    /\ lastSvc = NoSvc /\ fault = FALSE /\ svcFresh = FALSE

-----------------------------------------------------------------------------
(* The host's calls *)

ResetCpu ==
    /\ masked' = FALSE /\ halted' = FALSE
    /\ lastSvc' = NoSvc /\ fault' = FALSE /\ svcFresh' = FALSE

ResetDevices ==
    /\ irq' = {}
    /\ inFlight' = [c \in DmaChannels |-> <<>>]
    /\ UNCHANGED fifo

\* schedule_boot_events, after scheduler.reset.
BootEvents == ScheduleIn(ScheduleIn({}, TimerPeriod, TimerExpiry), VBlankPeriod, VBlank)

\* Mutations of HostLoadRom: dma.reset is left out, or scheduler.reset is.
LoadKeepsTransfers ==
    /\ phase = "idle"
    /\ romLoaded' = TRUE
    /\ queue' = BootEvents
    /\ irq' = {}
    /\ ResetCpu /\ LoadRom
    /\ UNCHANGED <<phase, batch, inFlight, fifo>>

LoadKeepsWakes ==
    /\ phase = "idle"
    /\ romLoaded' = TRUE
    /\ queue' = BootEvents \cup {e \in queue : e.event.kind = "ServiceWake"}
    /\ ResetCpu /\ ResetDevices /\ LoadRom
    /\ UNCHANGED <<phase, batch>>

\* load_rom that succeeds.  The GPU keeps its fifo, the kernel its state.  A
\* load_rom that fails changes memory only.
HostLoadRom ==
    /\ phase = "idle"
    /\ romLoaded' = TRUE
    /\ queue' = BootEvents
    /\ ResetCpu /\ ResetDevices /\ LoadRom
    /\ UNCHANGED <<phase, batch>>

HostReset ==
    /\ phase = "idle"
    /\ romLoaded' = FALSE
    /\ queue' = {}
    /\ ResetCpu /\ ResetDevices /\ ResetRuntime
    /\ UNCHANGED <<phase, batch>>

\* queue_transfer: at least one cycle.
Latency(words) == IF words = 0 THEN 1 ELSE words

\* queue_dma_memcpy and queue_dma_gpu_feed.
HostQueueDma(c, kind, words) ==
    /\ phase = "idle"
    /\ Len(inFlight[c]) < MaxTransfers
    /\ inFlight' = [inFlight EXCEPT ![c] = Append(@, kind)]
    /\ queue' = ScheduleIn(queue, Latency(words), DmaCompletion(c))
    /\ UNCHANGED <<kernelVars, phase, romLoaded, batch, irq, fifo, cpuVars>>

\* enqueue_gpu_fifo_words.
HostFeedGpu ==
    /\ phase = "idle"
    /\ fifo' = TRUE
    /\ UNCHANGED <<kernelVars, phase, romLoaded, queue, batch, irq, inFlight, cpuVars>>

\* run_cycles is entered; without a ROM it is an error and nothing changes.
HostRun ==
    /\ phase = "idle" /\ romLoaded
    /\ phase' = "irq"
    /\ UNCHANGED <<kernelVars, romLoaded, queue, batch, cpuVars, deviceVars>>

-----------------------------------------------------------------------------
(* One iteration *)

\* next_pending: the lines in their fixed order.
LineBelow(l) ==
    CASE l = "Timer0" -> {}
      [] l = "VBlank" -> {"Timer0"}
      [] l = "Dma0" -> {"Timer0", "VBlank"}
      [] l = "Gpu" -> {"Timer0", "VBlank", "Dma0"}

IsNextPending(l) == l \in irq /\ LineBelow(l) \cap irq = {}

\* Mutation of EnterIrq: the interrupt does not wake the CPU.
EnterIrqAsleep ==
    /\ phase = "irq" /\ ~masked
    /\ \E l \in Lines : IsNextPending(l) /\ irq' = irq \ {l}
    /\ masked' = TRUE
    /\ lastSvc' = NoSvc
    /\ phase' = "step"
    /\ UNCHANGED <<kernelVars, romLoaded, queue, batch, inFlight, fifo, halted, fault,
                   svcFresh>>

\* enter_irq: an exception, which masks interrupts, and wakes a halted CPU.
EnterIrq ==
    /\ phase = "irq" /\ ~masked
    /\ \E l \in Lines : IsNextPending(l) /\ irq' = irq \ {l}
    /\ masked' = TRUE /\ halted' = FALSE
    /\ lastSvc' = NoSvc
    /\ phase' = "step"
    /\ UNCHANGED <<kernelVars, romLoaded, queue, batch, inFlight, fifo, fault, svcFresh>>

SkipIrq ==
    /\ phase = "irq" /\ (masked \/ irq = {})
    /\ phase' = "step"
    /\ UNCHANGED <<kernelVars, romLoaded, queue, batch, cpuVars, deviceVars>>

\* step and scheduler.tick: what the instruction costs passes for the queue.
Cost(cycles) ==
    /\ phase = "step" /\ phase' = "report"
    /\ queue' = Elapse(queue, cycles)
    /\ UNCHANGED <<kernelVars, romLoaded, batch, deviceVars>>

\* Mutation of StepHalted: a halted CPU takes no time.
StepHaltedFree ==
    /\ halted
    /\ Cost(0)
    /\ fault' = FALSE
    /\ UNCHANGED <<masked, halted, lastSvc, svcFresh>>

StepHalted ==
    /\ halted
    /\ Cost(1)
    /\ fault' = FALSE
    /\ UNCHANGED <<masked, halted, lastSvc, svcFresh>>

\* An instruction that raises nothing; MSR and the exception returns set or
\* clear the I flag.
StepPlain ==
    /\ ~halted
    /\ \E cycles \in 1..MaxCost : Cost(cycles)
    /\ masked' \in BOOLEAN
    /\ fault' = FALSE
    /\ UNCHANGED <<halted, lastSvc, svcFresh>>

StepWfi ==
    /\ ~halted
    /\ Cost(1)
    /\ halted' = TRUE
    /\ fault' = FALSE
    /\ UNCHANGED <<masked, lastSvc, svcFresh>>

StepSwi(imm) ==
    /\ ~halted
    /\ \E cycles \in 1..MaxCost : Cost(cycles)
    /\ masked' = TRUE
    /\ lastSvc' = imm /\ svcFresh' = TRUE
    /\ fault' = FALSE
    /\ UNCHANGED halted

\* An undefined instruction or an abort; the MMU notes the faults it finds,
\* but not the alignment faults.
StepTrap ==
    /\ ~halted
    /\ \E cycles \in 1..MaxCost : Cost(cycles)
    /\ masked' = TRUE
    /\ lastSvc' = NoSvc
    /\ fault' \in BOOLEAN
    /\ UNCHANGED <<halted, svcFresh>>

\* pump_ipc_events(1) and take_last_ipc_dispatch, which have nothing to do,
\* and take_last_service_imm24: the SWI of the iteration before.
Report ==
    /\ phase = "report" /\ phase' = "drain"
    /\ Servable(blocked) = {} /\ lastIpc = NoIpc
    /\ TakeLastSwi \/ (lastSwi = NoSwi /\ UNCHANGED kernelVars)
    /\ UNCHANGED <<romLoaded, queue, batch, cpuVars, deviceVars>>

Drain ==
    /\ phase = "drain" /\ phase' = "handle"
    /\ batch' = Due(queue)
    /\ queue' = queue \ Due(queue)
    /\ UNCHANGED <<kernelVars, romLoaded, cpuVars, deviceVars>>

\* Mutation of HandleTimer: the timer is not scheduled again.
HandleTimerOnce ==
    /\ irq' = irq \cup {"Timer0"}
    /\ UNCHANGED <<kernelVars, queue, inFlight, fifo>>

\* The period starts when the event is handled, not when it was due.
HandleTimer ==
    /\ irq' = irq \cup {"Timer0"}
    /\ queue' = ScheduleIn(queue, TimerPeriod, TimerExpiry)
    /\ UNCHANGED <<kernelVars, inFlight, fifo>>

HandleVBlank ==
    /\ irq' = irq \cup {"VBlank"}
    /\ queue' = ScheduleIn(queue, VBlankPeriod, VBlank)
    /\ UNCHANGED <<kernelVars, inFlight, fifo>>

\* Mutation of HandleDma: a line for each channel, where there is only one.
HandleDmaOwnLine(c) ==
    \/ /\ inFlight[c] # <<>>
       /\ inFlight' = [inFlight EXCEPT ![c] = Tail(@)]
       /\ irq' = irq \cup {"Dma1"}
       /\ UNCHANGED <<kernelVars, queue, fifo>>
    \/ /\ inFlight[c] = <<>>
       /\ UNCHANGED <<kernelVars, queue, deviceVars>>

\* complete_transfer takes the first transfer of the channel, which need not
\* be the one this completion was scheduled for.  What a feed brings may or
\* may not be a draw.
HandleDma(c) ==
    \/ /\ inFlight[c] # <<>>
       /\ inFlight' = [inFlight EXCEPT ![c] = Tail(@)]
       /\ irq' = irq \cup {"Dma0"}
       /\ fifo' \in IF Head(inFlight[c]) = "GpuQueueFeed" THEN {fifo, TRUE} ELSE {fifo}
       /\ UNCHANGED <<kernelVars, queue>>
    \/ /\ inFlight[c] = <<>>
       /\ UNCHANGED <<kernelVars, queue, deviceVars>>

HandleWake(p) ==
    /\ SchedulerWake(p)
    /\ UNCHANGED <<queue, deviceVars>>

\* handle_scheduled_event, for the first of the batch.
Handle ==
    /\ phase = "handle" /\ batch # {}
    /\ LET e == First(batch) IN
          /\ batch' = batch \ {e}
          /\ \/ e.event = TimerExpiry /\ HandleTimer
             \/ e.event = VBlank /\ HandleVBlank
             \/ \E c \in DmaChannels : e.event = DmaCompletion(c) /\ HandleDma(c)
             \/ \E p \in Pids : e.event = ServiceWake(p) /\ HandleWake(p)
    /\ UNCHANGED <<phase, romLoaded, cpuVars>>

Handled ==
    /\ phase = "handle" /\ batch = {}
    /\ phase' = "gpu"
    /\ UNCHANGED <<kernelVars, romLoaded, queue, batch, cpuVars, deviceVars>>

\* drain_gpu_handoff, which is empty, gpu.tick and take_events: a draw
\* completes a frame, which raises the GPU's line.
Gpu ==
    /\ phase = "gpu" /\ phase' = "swi"
    /\ gpuHandoff = <<>>
    /\ fifo' = FALSE
    /\ irq' = IF fifo THEN irq \cup {"Gpu"} ELSE irq
    /\ UNCHANGED <<kernelVars, romLoaded, queue, batch, inFlight, cpuVars>>

\* handle_swi, whenever the last exception is a SWI: it need not be the
\* exception of this iteration.
DispatchSwi ==
    /\ phase = "swi" /\ lastSvc # NoSvc
    /\ phase' = "take"
    /\ HandleSwi(lastSvc)
    /\ svcFresh' = FALSE
    /\ UNCHANGED <<romLoaded, queue, batch, masked, halted, lastSvc, fault, deviceVars>>

SkipSwi ==
    /\ phase = "swi" /\ lastSvc = NoSvc
    /\ phase' = "end"
    /\ UNCHANGED <<kernelVars, romLoaded, queue, batch, cpuVars, deviceVars>>

\* Mutation of TakeWakes: the kernel's events are scheduled but not drained.
TakeWakesPeeks ==
    /\ phase = "take" /\ phase' = "end"
    /\ queue' = IF pendingWakes[KernelPid] > 0
                THEN ScheduleIn(queue, WakeDelay, ServiceWake(KernelPid))
                ELSE queue
    /\ scheduled' = [p \in Pids |-> scheduled[p] + pendingWakes[p]]
    /\ UNCHANGED <<processVars, handleVars, nameVars, runtimeVars, pendingWakes, stranded,
                   romfs, lastIpc, lastSwi, romLoaded, batch, cpuVars, deviceVars>>

\* take_pending_schedule_events and schedule_in.  A SWI asks for one wake at
\* most, and only for the kernel process.
TakeWakes ==
    /\ phase = "take" /\ phase' = "end"
    /\ \/ /\ pendingWakes[KernelPid] > 0
          /\ TakeScheduleEvents
          /\ queue' = ScheduleIn(queue, WakeDelay, ServiceWake(KernelPid))
       \/ /\ pendingWakes[KernelPid] = 0
          /\ UNCHANGED <<kernelVars, queue>>
    /\ UNCHANGED <<romLoaded, batch, cpuVars, deviceVars>>

\* The end of the iteration: an MMU fault and a halted CPU end the call, and
\* so may the budget.
End ==
    /\ phase = "end"
    /\ phase' \in IF fault \/ halted THEN {"idle"} ELSE {"irq", "idle"}
    /\ fault' = FALSE
    /\ UNCHANGED <<kernelVars, romLoaded, queue, batch, masked, halted, lastSvc, svcFresh,
                   deviceVars>>

Iteration ==
    \/ EnterIrq \/ SkipIrq
    \/ StepHalted \/ StepPlain \/ StepWfi \/ StepTrap
    \/ \E imm \in SwiNumbers : StepSwi(imm)
    \/ Report \/ Drain \/ Handle \/ Handled \/ Gpu
    \/ DispatchSwi \/ SkipSwi \/ TakeWakes
    \/ End

EmuNext ==
    \/ HostLoadRom \/ HostReset \/ HostFeedGpu \/ HostRun
    \/ \E c \in DmaChannels, kind \in Kinds, words \in TransferWords :
          HostQueueDma(c, kind, words)
    \/ Iteration

EmuSpec == EmuInit /\ [][EmuNext]_emuVars

(***************************************************************************)
(* Fairness: run_cycles runs to its end, and the host keeps calling it.    *)
(***************************************************************************)
EmuLiveSpec == EmuSpec /\ WF_emuVars(Iteration) /\ WF_emuVars(HostRun)

-----------------------------------------------------------------------------
(* Properties *)

Outstanding == queue \cup batch
CountOf(event) == Cardinality(Waiting(Outstanding, event))

\* Every variable of the loop holds a value of its type.
EmuTypeOK ==
    /\ phase \in Phases
    /\ romLoaded \in BOOLEAN
    /\ queue \subseteq Entries /\ batch \subseteq Entries
    /\ irq \subseteq Lines
    /\ inFlight \in [DmaChannels -> Seq(Kinds)]
    /\ fifo \in BOOLEAN /\ masked \in BOOLEAN /\ halted \in BOOLEAN
    /\ lastSvc \in SwiNumbers \cup {NoSvc}
    /\ fault \in BOOLEAN /\ svcFresh \in BOOLEAN

\* drain_due_events serves time: whenever an instruction is about to run, and
\* whenever the host has control, everything that was due has been handled;
\* what is handled is due, and by less than the cost of one instruction.
Punctual ==
    /\ phase \notin {"report", "drain"} => \A e \in queue : e.in > 0
    /\ \A e \in batch : e.in \in (1 - MaxCost)..0
    /\ phase # "handle" => batch = {}

\* The timer and the vertical blank re-arm themselves: with a ROM loaded each
\* has one event outstanding, whatever the order of loads, resets and runs,
\* and none before; in a batch just taken up it has gone out of the queue and
\* comes back before the batch is done.
TimersArmed ==
    \A event \in {TimerExpiry, VBlank} :
        CountOf(event) = IF romLoaded THEN 1 ELSE 0

\* The DMA engine and the scheduler agree: a channel has as many transfers in
\* flight as completions outstanding, so complete_transfer always finds one
\* and none stays behind, although the two are reset and queued by separate
\* calls.
DmaAccounted == \A c \in DmaChannels : Len(inFlight[c]) = CountOf(DmaCompletion(c))

\* What the kernel takes the scheduler to hold is what it holds.
WakesAccounted == \A p \in Pids : scheduled[p] = CountOf(ServiceWake(p))

\* A SWI that is dispatched again in every iteration still leaves at most one
\* wake per cycle of its delay: wakes do not pile up.
WakesBounded == \A p \in Pids : pendingWakes[p] + scheduled[p] <= WakeDelay

\* In the loop's hands the kernel takes only steps of its own specification.
ImplementsKernel == Spec

\* With interrupts open, a halted CPU comes back: the timer runs on while it
\* sleeps, one cycle per call.
HaltedWakes == halted /\ ~masked /\ romLoaded ~> ~halted

\* README.md lists "SWI -> service dispatch": a SWI the guest executes is
\* dispatched, once.
OneDispatchPerSwi == [][DispatchSwi => svcFresh]_emuVars

=============================================================================
