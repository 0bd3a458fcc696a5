------------------------------ MODULE Playback ------------------------------
(***************************************************************************)
(* The emulator as its screen, its speaker and its diagnostics see it: the *)
(* part of run_cycles (src/src/core/emulator.rs) that Emulator leaves out. *)
(* One iteration ticks the timing model, feeds and runs the GPU, traces    *)
(* what it did, presents frames and produces samples (src/src/core/dsp.rs).*)
(* The host calls in between; run_cycles may be asked for one iteration,   *)
(* so that an iteration is one step here.                                  *)
(*                                                                         *)
(* The CPU is open: an iteration may end with a SWI as the last exception, *)
(* or halted.  Words that DMA brings to the fifo arrive as the host's do.  *)
(* No IPC request is ever queued by Emulator3ds, so FirstIpcDispatch is    *)
(* not marked; nor is FirstInstruction, as nothing enables the CPU's       *)
(* instruction trace.                                                      *)
(***************************************************************************)
EXTENDS Timing, Pica, Diagnostics

CONSTANTS
    MaxBufferedSamples,  \* 4096 in the code
    Wave,                \* samples after which the DSP repeats itself, 64
    GpuTraceCap,         \* 512
    Packets,             \* the command packets the host submits whole
    CutPackets,          \* word sequences it submits that are none
    MaxCycles,           \* bound: cycles since the load
    FewCycles,           \* bound: the same, once the GPU has been fed
    MaxTrace             \* bound: register writes

ASSUME PlaybackAssumption ==
    /\ MaxBufferedSamples \in Nat /\ Wave \in Nat \ {0} /\ GpuTraceCap \in Nat
    /\ {MaxCycles, FewCycles, MaxTrace} \subseteq Nat

\* A packet has as many values as it counts; a count of zero stands for one.
ASSUME PacketsAssumption ==
    /\ \A p \in Packets :
          /\ p.reg \in 0..(RegSpace - 1) /\ p.count \in 0..(CountSpace - 1)
          /\ p.sequential \in BOOLEAN
          /\ p.values \in Seq(Nat) /\ Len(p.values) = IF p.count = 0 THEN 1 ELSE p.count
    /\ CutPackets \subseteq Seq(Nat)

VARIABLES
    romLoaded,
    fifo, gpu,           \* gpu.fifo and the rest of PicaGpu
    gpuFrameCompletions, \* in the kernel
    serviceCalled,       \* the kernel's last_service_imm24 is there
    frameCallbacks, audioCallbacks,
    samples, dspPhase,   \* the DSP; a sample is the phase it was made in
    gpuTrace, lastGpuTraceLen, profile,
    framesTaken, samplesTaken,  \* histories: what the host was told of since the load
    submitted,           \* history: the writes of the packets submitted
    whole,               \* history: only whole packets have been submitted
    traceBase            \* history: length of the GPU's trace at the last reset

gpuVars == <<fifo, gpu, submitted, whole>>
kernelVars == <<gpuFrameCompletions, serviceCalled, traceBase>>
callbackVars == <<frameCallbacks, audioCallbacks, framesTaken, samplesTaken>>
dspVars == <<samples, dspPhase>>
diagnosticVars == <<gpuTrace, lastGpuTraceLen, profile>>
playbackVars == <<timingVars, romLoaded, gpuVars, kernelVars, callbackVars, dspVars,
                  diagnosticVars>>

PlaybackInit ==
    /\ TimingInit
    /\ romLoaded = FALSE
    /\ fifo = <<>> /\ gpu = NewGpu
    /\ gpuFrameCompletions = 0 /\ serviceCalled = FALSE
    /\ frameCallbacks = 0 /\ audioCallbacks = 0
    /\ samples = <<>> /\ dspPhase = 0
    /\ gpuTrace = <<>> /\ lastGpuTraceLen = 0 /\ profile = NewProfile
    /\ framesTaken = 0 /\ samplesTaken = 0
    /\ submitted = <<>> /\ whole = TRUE
    /\ traceBase = 0

-----------------------------------------------------------------------------
(* The host's calls *)

\* Mutation of ClearDiagnostics: the cursor into the GPU's trace stays.
ClearKeepsCursor(p) ==
    /\ gpuTrace' = <<>> /\ profile' = p
    /\ UNCHANGED lastGpuTraceLen

\* clear_diagnostics, and what is marked after it.
ClearDiagnostics(p) ==
    /\ gpuTrace' = <<>> /\ lastGpuTraceLen' = 0
    /\ profile' = p

\* Mutation of ClearCallbacks: the frames of the last ROM are kept.
ClearAudioCallbacks ==
    /\ audioCallbacks' = 0
    /\ framesTaken' = 0 /\ samplesTaken' = 0
    /\ UNCHANGED frameCallbacks

ClearCallbacks ==
    /\ frameCallbacks' = 0 /\ audioCallbacks' = 0
    /\ framesTaken' = 0 /\ samplesTaken' = 0

\* load_rom: neither the GPU, nor the DSP, nor the kernel is reset.
HostLoadRom ==
    /\ TimingReset /\ ClearCallbacks
    /\ ClearDiagnostics(Mark(NewProfile, "RomLoaded"))
    /\ romLoaded' = TRUE
    /\ UNCHANGED <<gpuVars, kernelVars, dspVars>>

\* reset: the kernel is new, the GPU and the DSP are not.
HostReset ==
    /\ TimingReset /\ ClearCallbacks
    /\ ClearDiagnostics(NewProfile)
    /\ romLoaded' = FALSE
    /\ gpuFrameCompletions' = 0 /\ serviceCalled' = FALSE
    /\ traceBase' = Len(gpu.trace)
    /\ UNCHANGED <<gpuVars, dspVars>>

PacketWords(p) == <<Encode(p.reg, p.count, p.sequential)>> \o p.values

\* What a packet asks for.
PacketWrites(p) ==
    [i \in DOMAIN p.values |->
        [reg |-> TargetReg(p.reg, p.sequential, i), value |-> p.values[i]]]

Feed(words) ==
    /\ cpuCycles <= FewCycles
    /\ fifo' = fifo \o words
    /\ Len(gpu.trace) + Len(Decode(fifo')) <= MaxTrace
    /\ UNCHANGED <<timingVars, romLoaded, gpu, kernelVars, callbackVars, dspVars,
                   diagnosticVars>>

\* enqueue_gpu_fifo_words, of a whole packet.
HostFeedPacket(p) ==
    /\ Feed(PacketWords(p))
    /\ submitted' = IF whole THEN submitted \o PacketWrites(p) ELSE <<>>
    /\ UNCHANGED whole

\* enqueue_gpu_fifo_words, of anything else.
HostFeedCut(words) ==
    /\ whole
    /\ Feed(words)
    /\ whole' = FALSE
    /\ submitted' = <<>>

HostTakeSamples ==
    /\ samples # <<>>
    /\ samples' = <<>>
    /\ UNCHANGED <<timingVars, romLoaded, gpuVars, kernelVars, callbackVars, dspPhase,
                   diagnosticVars>>

HostTakeFrameCount ==
    /\ frameCallbacks > 0
    /\ frameCallbacks' = 0
    /\ framesTaken' = framesTaken + frameCallbacks
    /\ UNCHANGED <<timingVars, romLoaded, gpuVars, kernelVars, audioCallbacks, samplesTaken,
                   dspVars, diagnosticVars>>

HostTakeSampleCount ==
    /\ audioCallbacks > 0
    /\ audioCallbacks' = 0
    /\ samplesTaken' = samplesTaken + audioCallbacks
    /\ UNCHANGED <<timingVars, romLoaded, gpuVars, kernelVars, frameCallbacks, framesTaken,
                   dspVars, diagnosticVars>>

-----------------------------------------------------------------------------
(* One iteration of run_cycles *)

Latest(s, n) == IF Len(s) <= n THEN s ELSE SubSeq(s, Len(s) - n + 1, Len(s))

\* Mutation of Buffered: what does not fit is dropped, not what is oldest.
BufferedFirst(s) == IF Len(s) <= MaxBufferedSamples THEN s ELSE SubSeq(s, 1, MaxBufferedSamples)

Buffered(s) == Latest(s, MaxBufferedSamples)

\* produce_samples
ProduceSamples(n) ==
    /\ samples' = Buffered(samples \o [i \in 1..n |-> (dspPhase + i - 1) % Wave])
    /\ dspPhase' = (dspPhase + n) % Wave

\* gpu.tick, and take_events, which signals each complete frame to the kernel.
RunGpu(done) ==
    /\ fifo' = <<>>
    /\ gpu' = [done EXCEPT !.events = 0]
    /\ gpuFrameCompletions' = gpuFrameCompletions + done.events

\* Every write since the last iteration, or since the diagnostics were
\* cleared, is traced.
TraceGpu(done) ==
    LET push(buffer, write) == RingPush(buffer, GpuTraceCap, write) IN
    /\ gpuTrace' = FoldLeft(push, gpuTrace,
                            SubSeq(done.trace, lastGpuTraceLen + 1, Len(done.trace)))
    /\ lastGpuTraceLen' = Len(done.trace)

\* The checkpoints an iteration passes, in the order the loop marks them.
MarkIteration(cycles, done, halts) ==
    LET service == MarkIf(serviceCalled, profile, "FirstServiceCall")
        command == MarkIf(Len(done.trace) > lastGpuTraceLen, service, "FirstGpuCommand")
        present == MarkIf(FramesIn(cycles) > 0, command, "FirstFramePresent")
    IN  profile' = MarkIf(halts, present, "CpuHalted")

\* The iteration executes an instruction of some cycles, after which the last
\* exception may be a SWI, which the kernel handles, and the CPU may halt.
Iterate(cycles, swi, halts) ==
    /\ romLoaded
    /\ cpuCycles + cycles <= IF gpu.trace \o fifo = <<>> THEN MaxCycles ELSE FewCycles
    /\ halts => cycles = 1
    /\ Tick(cycles)
    /\ LET done == Consumed(gpu, fifo) IN
          RunGpu(done) /\ TraceGpu(done) /\ MarkIteration(cycles, done, halts)
    /\ frameCallbacks' = frameCallbacks + FramesIn(cycles)
    /\ audioCallbacks' = audioCallbacks + SamplesIn(cycles)
    /\ ProduceSamples(SamplesIn(cycles))
    /\ serviceCalled' = swi
    /\ UNCHANGED <<romLoaded, framesTaken, samplesTaken, submitted, whole, traceBase>>

PlaybackNext ==
    \/ HostLoadRom
    \/ HostReset
    \/ \E p \in Packets : HostFeedPacket(p)
    \/ \E words \in CutPackets : HostFeedCut(words)
    \/ HostTakeSamples
    \/ HostTakeFrameCount
    \/ HostTakeSampleCount
    \/ \E cycles \in 1..MaxCost, swi, halts \in BOOLEAN : Iterate(cycles, swi, halts)

PlaybackSpec == PlaybackInit /\ [][PlaybackNext]_playbackVars

-----------------------------------------------------------------------------
(* Properties *)

Write == [reg : Nat, value : Nat]

\* Every variable holds a value of its type; a phase is less than one unit.
PlaybackTypeOK ==
    /\ {cpuCycles, audioSamplesDue, videoFramesDue, topVBlankCount, bottomVBlankCount,
        frameCallbacks, audioCallbacks, framesTaken, samplesTaken, gpuFrameCompletions,
        lastGpuTraceLen, traceBase} \subseteq Nat
    /\ {audioPhase, videoPhase} \subseteq 0..(CpuHz - 1)
    /\ {romLoaded, serviceCalled, whole} \subseteq BOOLEAN
    /\ fifo \in Seq(Nat)
    /\ gpu.trace \in Seq(Write) /\ gpuTrace \in Seq(Write) /\ submitted \in Seq(Write)
    /\ gpu.events = 0
    /\ dspPhase \in 0..(Wave - 1) /\ samples \in Seq(0..(Wave - 1))
    /\ profile.observed \in Seq(Checkpoints) /\ profile.divergence \in Nat

\* No cycle is lost or counted twice between the CPU, the screen and the
\* speaker, in whatever portions they come: the frames and samples due, and
\* the phases, are those of all the cycles executed.
PacingExact ==
    /\ videoFramesDue * CpuHz + videoPhase = cpuCycles * VideoHz
    /\ audioSamplesDue * CpuHz + audioPhase = cpuCycles * AudioHz

\* Audio never falls behind video, nor runs ahead of it by a frame's worth:
\* the desync that the snapshot reports is rounding and nothing else.
DesyncBounded == 0 <= AvDesync /\ AvDesync < SamplesPerFrame

\* Each vertical blanking is counted once, at its first cycle, however the
\* instructions fall on it: frames started, less those not yet blanking.
VBlanksCounted ==
    LET blanking == FrameCycles - ScanlinesActive * LineCycles IN
    /\ topVBlankCount = (cpuCycles + blanking) \div FrameCycles
    /\ bottomVBlankCount =
            (cpuCycles + BottomOffset * LineCycles + blanking) \div FrameCycles

\* The host is told of each frame and of each sample once, those of the ROM
\* that is loaded and no others.
CallbacksAccounted ==
    /\ framesTaken + frameCallbacks = videoFramesDue
    /\ samplesTaken + audioCallbacks = audioSamplesDue

\* The buffer of the DSP is the latest part of what it has produced, without
\* a gap, up to its capacity: a host that is late loses the oldest samples.
AudioUnbroken ==
    /\ Len(samples) <= MaxBufferedSamples
    /\ \A i \in DOMAIN samples :
          (samples[i] + Len(samples) - i + 1) % Wave = dspPhase

\* As long as the host submits whole packets, in whatever portions the GPU
\* takes them, the registers are written as the packets say, in their order:
\* what has been written and what the fifo holds is what was submitted.
WritesInOrder == whole => submitted = gpu.trace \o Decode(fifo)

\* Replaying the trace of a GPU, a packet for each write, in a new GPU leads
\* to the same registers and the same screen.
ReplayFaithful ==
    LET plain(t) == <<Encode(t.reg, 1, FALSE), t.value>>
        words == FlattenSeq([i \in DOMAIN gpu.trace |-> plain(gpu.trace[i])])
    IN  [Consumed(NewGpu, words) EXCEPT !.events = 0] = gpu

\* The GPU records of the diagnostics are the latest writes up to where the
\* loop has looked; after a load or reset, which keep the GPU, it looks again
\* from the beginning.
GpuTraceCurrent ==
    gpuTrace = Latest(SubSeq(gpu.trace, 1, lastGpuTraceLen), GpuTraceCap)

\* The kernel has been signalled once for each draw since it was reset.
CompletionsCounted ==
    LET drawn == {i \in (traceBase + 1)..Len(gpu.trace) :
                    gpu.trace[i].reg = RegDrawTrigger /\ gpu.trace[i].value % 2 = 1}
    IN  gpuFrameCompletions = Cardinality(drawn)

\* The boot profile has each checkpoint once, and points at the first that is
\* out of place; where two have been reached that is the second, as the one
\* expected there is never marked.
ProfileSound ==
    LET wrong == {i \in DOMAIN profile.observed : OutOfPlace(i, profile.observed[i])} IN
    /\ \A i, j \in DOMAIN profile.observed :
          profile.observed[i] = profile.observed[j] => i = j
    /\ profile.divergence = NoDivergence <=> wrong = {}
    /\ wrong # {} => /\ profile.divergence \in wrong
                     /\ \A i \in wrong : profile.divergence <= i
    /\ Len(profile.observed) > 1 => profile.divergence = 2

=============================================================================
