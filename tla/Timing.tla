------------------------------- MODULE Timing -------------------------------
(***************************************************************************)
(* The timing model (src/src/core/timing.rs): how many video frames and    *)
(* audio samples are due after the cycles the CPU has executed, and where  *)
(* the two screens are in their frame.  Counters do not saturate: 2^64     *)
(* cycles are two thousand years.  The drift correction, which only        *)
(* proposes a budget, is left out.                                         *)
(***************************************************************************)
EXTENDS Integers

CONSTANTS
    CpuHz,            \* 268_000_000 in the code
    AudioHz,          \* 48_000
    VideoHz,          \* 60
    ScanlinesTotal,   \* 262
    ScanlinesActive,  \* 240
    BottomOffset,     \* 2, lines the bottom screen is ahead of the top one
    MaxCost           \* the most cycles an instruction takes, 4

FrameCycles == CpuHz \div VideoHz
LineCycles ==
    IF FrameCycles \div ScanlinesTotal = 0 THEN 1 ELSE FrameCycles \div ScanlinesTotal

ASSUME TimingAssumption ==
    /\ CpuHz \in Nat \ {0} /\ VideoHz \in Nat \ {0} /\ AudioHz \in Nat \ {0}
    /\ MaxCost \in Nat \ {0}
    /\ ScanlinesTotal \in Nat \ {0} /\ ScanlinesActive \in Nat /\ BottomOffset \in Nat
    \* An instruction is shorter than the blanking and than the rest of a
    \* frame, and the bottom screen starts outside its blanking.
    /\ MaxCost <= ScanlinesActive * LineCycles
    /\ MaxCost <= FrameCycles - ScanlinesActive * LineCycles
    /\ BottomOffset < ScanlinesActive

\* A frame has a whole number of audio samples, 800.
ASSUME SamplesPerFrameAssumption == AudioHz % VideoHz = 0
SamplesPerFrame == AudioHz \div VideoHz

VARIABLES
    cpuCycles,
    audioSamplesDue,
    videoFramesDue,
    audioPhase,         \* what is left of a sample, in units of 1/AudioHz cycle
    videoPhase,         \* what is left of a frame
    topVBlankCount,
    bottomVBlankCount

timingVars == <<cpuCycles, audioSamplesDue, videoFramesDue, audioPhase, videoPhase,
                topVBlankCount, bottomVBlankCount>>

TimingInit ==
    /\ cpuCycles = 0
    /\ audioSamplesDue = 0 /\ videoFramesDue = 0
    /\ audioPhase = 0 /\ videoPhase = 0
    /\ topVBlankCount = 0 /\ bottomVBlankCount = 0

TimingReset ==
    /\ cpuCycles' = 0
    /\ audioSamplesDue' = 0 /\ videoFramesDue' = 0
    /\ audioPhase' = 0 /\ videoPhase' = 0
    /\ topVBlankCount' = 0 /\ bottomVBlankCount' = 0

-----------------------------------------------------------------------------
(* Scanlines *)

\* Mutation of CycleInFrame: the bottom screen's lead is not wrapped.
CycleInFrameUnwrapped(screen, now) ==
    (now % FrameCycles) + (IF screen = "Bottom" THEN BottomOffset * LineCycles ELSE 0)

CycleInFrame(screen, now) ==
    (now + (IF screen = "Bottom" THEN BottomOffset * LineCycles ELSE 0)) % FrameCycles

\* screen_snapshot_at.  What is left of the frame after ScanlinesTotal whole
\* lines counts as further lines: the last scanline is 262, not 261.
Scanline(screen, now) == CycleInFrame(screen, now) \div LineCycles
InVBlank(screen, now) == Scanline(screen, now) >= ScanlinesActive

VBlankEdge(screen, cycles) ==
    IF ~InVBlank(screen, cpuCycles) /\ InVBlank(screen, cpuCycles + cycles) THEN 1 ELSE 0

-----------------------------------------------------------------------------
(* tick *)

\* Mutation of WholeUnits: it rounds up.
WholeUnitsUp(phase) == (phase + CpuHz - 1) \div CpuHz

WholeUnits(phase) == phase \div CpuHz

\* Mutations of Rest: a new unit starts with nothing, or the phase is kept.
RestDropped(phase) == IF phase < CpuHz THEN phase ELSE 0
RestKept(phase) == phase

Rest(phase) == phase % CpuHz

SamplesIn(cycles) == WholeUnits(audioPhase + cycles * AudioHz)
FramesIn(cycles) == WholeUnits(videoPhase + cycles * VideoHz)

Tick(cycles) ==
    /\ cpuCycles' = cpuCycles + cycles
    /\ audioPhase' = Rest(audioPhase + cycles * AudioHz)
    /\ audioSamplesDue' = audioSamplesDue + SamplesIn(cycles)
    /\ videoPhase' = Rest(videoPhase + cycles * VideoHz)
    /\ videoFramesDue' = videoFramesDue + FramesIn(cycles)
    /\ topVBlankCount' = topVBlankCount + VBlankEdge("Top", cycles)
    /\ bottomVBlankCount' = bottomVBlankCount + VBlankEdge("Bottom", cycles)

\* snapshot().av_desync_samples
AvDesync == audioSamplesDue - videoFramesDue * SamplesPerFrame

=============================================================================
