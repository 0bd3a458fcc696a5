--------------------------- MODULE PlaybackProofs ---------------------------
(***************************************************************************)
(* Theorems about Playback, for any clock rates and any bounds: pacing is  *)
(* exact, audio and video do not drift apart, the host is told of every    *)
(* frame and sample, and the boot profile is sound.                        *)
(***************************************************************************)
EXTENDS Playback, PicaProofs

-----------------------------------------------------------------------------
(* Pacing *)

\* The counter and the phase of one clock, of hz units a second, are those of
\* so many cycles.
Clock(due, phase, hz, cycles) ==
    /\ due \in Nat /\ phase \in 0..(CpuHz - 1)
    /\ due * CpuHz + phase = cycles * hz

PacingInv ==
    /\ cpuCycles \in Nat
    /\ Clock(videoFramesDue, videoPhase, VideoHz, cpuCycles)
    /\ Clock(audioSamplesDue, audioPhase, AudioHz, cpuCycles)

\* A clock that is ticked stays exact, whatever its rate.
LEMMA TickClock ==
    ASSUME NEW due, NEW phase, NEW hz \in Nat, NEW now \in Nat, NEW cycles \in Nat,
           Clock(due, phase, hz, now)
    PROVE  Clock(due + WholeUnits(phase + cycles * hz), Rest(phase + cycles * hz),
                 hz, now + cycles)
<1>. DEFINE total == phase + cycles * hz
            units == total \div CpuHz
            rest == total % CpuHz
<1>1. /\ CpuHz \in Nat \ {0}
      /\ due \in Nat /\ phase \in 0..(CpuHz - 1) /\ due * CpuHz + phase = now * hz
  BY TimingAssumption DEF Clock
<1>2. cycles * hz \in Nat /\ total \in Nat
  BY <1>1, ProductNat
<1>3. units \in Nat /\ rest \in 0..(CpuHz - 1) /\ units * CpuHz + rest = total
  BY <1>1, <1>2, DivMod
<1>4. (due + units) * CpuHz = due * CpuHz + units * CpuHz
  BY <1>1, <1>3, Distribute
<1>5. (now + cycles) * hz = now * hz + cycles * hz
  BY Distribute
<1>6. due * CpuHz \in Nat /\ units * CpuHz \in Nat /\ now * hz \in Nat
  BY <1>1, <1>3, ProductNat
<1>7. (due + units) * CpuHz + rest = (now + cycles) * hz
  <2>. HIDE DEF total, units, rest
  <2>1. due * CpuHz + units * CpuHz + rest = due * CpuHz + total
    BY <1>1, <1>2, <1>3, <1>6
  <2>2. due * CpuHz + total = now * hz + cycles * hz
    BY <1>1, <1>2, <1>6 DEF total
  <2>. QED  BY <1>4, <1>5, <2>1, <2>2
<1>8. due + units \in Nat
  BY <1>1, <1>3
<1>9. WholeUnits(phase + cycles * hz) = units /\ Rest(phase + cycles * hz) = rest
  BY DEF WholeUnits, Rest
<1>. HIDE DEF units, rest
<1>10. Clock(due + units, rest, hz, now + cycles)
  BY <1>3, <1>7, <1>8 DEF Clock
<1>. QED  BY <1>9, <1>10

\* Every step of Playback ticks the timing model, resets it or leaves it.
LEMMA TimingSteps ==
    ASSUME [PlaybackNext]_playbackVars
    PROVE  \/ \E cycles \in 1..MaxCost : Tick(cycles)
           \/ TimingReset
           \/ UNCHANGED timingVars
BY DEF PlaybackNext, playbackVars, HostLoadRom, HostReset, HostFeedPacket, HostFeedCut,
       Feed, HostTakeSamples, HostTakeFrameCount, HostTakeSampleCount, Iterate

LEMMA PacingInductive ==
    ASSUME PacingInv, [PlaybackNext]_playbackVars
    PROVE  PacingInv'
<1>0. CpuHz \in Nat \ {0} /\ VideoHz \in Nat /\ AudioHz \in Nat /\ MaxCost \in Nat
  BY TimingAssumption
<1>1. ASSUME NEW cycles \in 1..MaxCost, Tick(cycles)
      PROVE  PacingInv'
  <2>1. cycles \in Nat /\ cpuCycles' = cpuCycles + cycles /\ cpuCycles' \in Nat
    BY <1>0, <1>1 DEF Tick, PacingInv
  <2>2. Clock(videoFramesDue, videoPhase, VideoHz, cpuCycles)'
    BY <1>0, <1>1, <2>1, TickClock DEF Tick, FramesIn, PacingInv
  <2>3. Clock(audioSamplesDue, audioPhase, AudioHz, cpuCycles)'
    BY <1>0, <1>1, <2>1, TickClock DEF Tick, SamplesIn, PacingInv
  <2>. QED  BY <2>1, <2>2, <2>3 DEF PacingInv
<1>2. CASE TimingReset
  BY <1>0, <1>2 DEF TimingReset, PacingInv, Clock
<1>3. CASE UNCHANGED timingVars
  BY <1>3 DEF timingVars, PacingInv, Clock
<1>. QED  BY <1>1, <1>2, <1>3, TimingSteps

THEOREM PacingInvariant == PlaybackSpec => []PacingInv
<1>1. PlaybackInit => PacingInv
  BY TimingAssumption DEF PlaybackInit, TimingInit, PacingInv, Clock
<1>2. PacingInv /\ [PlaybackNext]_playbackVars => PacingInv'
  BY PacingInductive
<1>. QED  BY <1>1, <1>2, PTL DEF PlaybackSpec

\* No cycle is lost or counted twice between timing.rs's three counters, for
\* any clock rates (TimingModel::tick).
THEOREM PacingIsExact == PlaybackSpec => []PacingExact
<1>1. PacingInv => PacingExact
  BY DEF PacingInv, Clock, PacingExact
<1>. QED  BY <1>1, PacingInvariant, PTL

\* Audio is never behind video and less than a frame's samples ahead, when a
\* frame has a whole number of samples (TimingModel::snapshot).
THEOREM AudioFollowsVideo == PlaybackSpec => []DesyncBounded
<1>1. ASSUME PacingInv
      PROVE  DesyncBounded
  <2>. DEFINE k == SamplesPerFrame
              desync == audioSamplesDue - videoFramesDue * k
  <2>1. /\ CpuHz \in Nat \ {0} /\ VideoHz \in Nat \ {0} /\ AudioHz \in Nat \ {0}
        /\ AudioHz % VideoHz = 0
    BY TimingAssumption, SamplesPerFrameAssumption
  <2>2. k \in Nat /\ AudioHz = k * VideoHz
    BY <2>1, DivMod DEF SamplesPerFrame
  <2>3. k # 0
    BY <2>1, <2>2
  <2>. HIDE DEF k
  <2>4. /\ cpuCycles \in Nat
        /\ videoFramesDue \in Nat /\ videoPhase \in 0..(CpuHz - 1)
        /\ audioSamplesDue \in Nat /\ audioPhase \in 0..(CpuHz - 1)
        /\ videoFramesDue * CpuHz + videoPhase = cpuCycles * VideoHz
        /\ audioSamplesDue * CpuHz + audioPhase = cpuCycles * AudioHz
    BY <1>1 DEF PacingInv, Clock
  <2>5. cpuCycles * AudioHz = k * (cpuCycles * VideoHz)
    BY <2>1, <2>2, <2>4
  <2>6. k * (videoFramesDue * CpuHz + videoPhase)
            = (videoFramesDue * k) * CpuHz + k * videoPhase
    BY <2>1, <2>2, <2>4
  <2>7. desync * CpuHz = audioSamplesDue * CpuHz - (videoFramesDue * k) * CpuHz
    BY <2>1, <2>2, <2>4
  <2>8. /\ audioSamplesDue * CpuHz \in Int /\ (videoFramesDue * k) * CpuHz \in Int
        /\ k * videoPhase \in Nat /\ desync \in Int
    BY <2>1, <2>2, <2>4
  <2>9. desync * CpuHz = k * videoPhase - audioPhase
    <3>1. audioSamplesDue * CpuHz + audioPhase
              = (videoFramesDue * k) * CpuHz + k * videoPhase
      BY <2>4, <2>5, <2>6
    <3>. QED  BY <2>1, <2>4, <2>7, <2>8, <3>1
  <2>10. desync * CpuHz > 0 - CpuHz
    BY <2>1, <2>4, <2>8, <2>9
  <2>11. desync * CpuHz < k * CpuHz
    <3>1. k * videoPhase <= k * (CpuHz - 1) /\ k * (CpuHz - 1) = k * CpuHz - k
      BY <2>1, <2>2, <2>4
    <3>. QED  BY <2>1, <2>2, <2>3, <2>4, <2>8, <2>9, <3>1
  <2>12. desync >= 0 /\ desync < k
    BY <2>1, <2>2, <2>8, <2>10, <2>11, FactorBounds
  <2>. QED  BY <2>8, <2>12 DEF DesyncBounded, AvDesync, k
<1>. QED  BY <1>1, PacingInvariant, PTL

-----------------------------------------------------------------------------
(* Vertical blanks *)

\* The line of a cycle is in the blanking if the cycle is.
LEMMA LineBlanking ==
    ASSUME NEW y \in Nat, NEW line \in Nat \ {0}, NEW active \in Nat
    PROVE  y \div line >= active <=> y >= active * line
<1>. DEFINE q == y \div line
            r == y % line
<1>1. q \in Nat /\ r \in 0..(line - 1) /\ q * line + r = y
  BY DivMod
<1>. HIDE DEF q, r
<1>2. q * line \in Nat /\ active * line \in Nat
  BY <1>1, ProductNat
<1>3. q - active \in Int /\ (q - active) * line = q * line - active * line
  BY <1>1
<1>4. ASSUME q >= active
      PROVE  y >= active * line
  <2>1. (q - active) \in Nat
    BY <1>1, <1>4
  <2>2. (q - active) * line \in Nat
    BY <2>1, ProductNat
  <2>. QED  BY <1>1, <1>2, <1>3, <2>2
<1>5. ASSUME y >= active * line
      PROVE  q >= active
  <2>1. (q - active) * line > 0 - line
    BY <1>1, <1>2, <1>3, <1>5
  <2>. QED  BY <1>1, <1>3, <2>1, FactorBounds
<1>. QED  BY <1>4, <1>5 DEF q

\* Frames of so many cycles, the last `blanking` of them blank: an instruction
\* shorter than the blanking and than the rest enters it at most once, and
\* exactly if the number of blankings begun goes up by one.
LEMMA BlankingsBegun ==
    ASSUME NEW frame \in Nat \ {0}, NEW blanking \in Nat, blanking <= frame,
           NEW x \in Nat, NEW c \in Nat, c > 0, c <= blanking, c <= frame - blanking
    PROVE  /\ (x + blanking) \div frame \in Nat
           /\ (x + c + blanking) \div frame
                 = (x + blanking) \div frame
                   + (IF x % frame < frame - blanking /\ (x + c) % frame >= frame - blanking
                      THEN 1 ELSE 0)
<1>. DEFINE q == x \div frame
            r == x % frame
            active == frame - blanking
<1>1. q \in Nat /\ r \in 0..(frame - 1) /\ q * frame + r = x
  BY DivMod
<1>2. q * frame \in Nat /\ (q + 1) * frame = q * frame + frame /\ q + 1 \in Nat
  BY <1>1, ProductNat
<1>3. (q + 2) * frame = q * frame + frame + frame /\ q + 2 \in Nat
  BY <1>1, <1>2
<1>. HIDE DEF q, r
<1>4. (x + blanking) \div frame = IF r < active THEN q ELSE q + 1
  <2>1. CASE r < active
    <3>1. r + blanking \in 0..(frame - 1) /\ x + blanking = q * frame + (r + blanking)
      BY <1>1, <1>2, <2>1
    <3>2. (q * frame + (r + blanking)) \div frame = q
      BY <1>1, <3>1, DivUnique
    <3>. QED  BY <2>1, <3>1, <3>2
  <2>2. CASE ~(r < active)
    <3>1. /\ r - active \in 0..(frame - 1)
          /\ x + blanking = (q + 1) * frame + (r - active)
      BY <1>1, <1>2, <2>2
    <3>2. ((q + 1) * frame + (r - active)) \div frame = q + 1
      BY <1>2, <3>1, DivUnique
    <3>. QED  BY <2>2, <3>1, <3>2
  <2>. QED  BY <2>1, <2>2
<1>5. CASE r + c < frame
  <2>1. r + c \in 0..(frame - 1) /\ x + c = q * frame + (r + c)
    BY <1>1, <1>2, <1>5
  <2>2. (q * frame + (r + c)) % frame = r + c
    BY <1>1, <2>1, DivUnique
  <2>3. (x + c) % frame = r + c
    BY <2>1, <2>2
  <2>4. (x + c + blanking) \div frame = IF r + c < active THEN q ELSE q + 1
    <3>1. CASE r + c < active
      <4>1. /\ r + c + blanking \in 0..(frame - 1)
            /\ x + c + blanking = q * frame + (r + c + blanking)
        BY <1>1, <1>2, <3>1
      <4>2. (q * frame + (r + c + blanking)) \div frame = q
        BY <1>1, <4>1, DivUnique
      <4>. QED  BY <3>1, <4>1, <4>2
    <3>2. CASE ~(r + c < active)
      <4>1. /\ r + c - active \in 0..(frame - 1)
            /\ x + c + blanking = (q + 1) * frame + (r + c - active)
        BY <1>1, <1>2, <1>5, <3>2
      <4>2. ((q + 1) * frame + (r + c - active)) \div frame = q + 1
        BY <1>2, <4>1, DivUnique
      <4>. QED  BY <3>2, <4>1, <4>2
    <3>. QED  BY <3>1, <3>2
  <2>5. x % frame = r
    BY DEF r
  <2>. QED  BY <1>1, <1>4, <2>3, <2>4, <2>5
<1>6. CASE r + c >= frame
  <2>1. r + c - frame \in 0..(frame - 1) /\ x + c = (q + 1) * frame + (r + c - frame)
    BY <1>1, <1>2, <1>6
  <2>2. ((q + 1) * frame + (r + c - frame)) % frame = r + c - frame
    BY <1>2, <2>1, DivUnique
  <2>3. (x + c) % frame < active /\ r >= active
    BY <1>1, <1>6, <2>1, <2>2
  <2>4. /\ r + c - frame + blanking \in 0..(frame - 1)
        /\ x + c + blanking = (q + 1) * frame + (r + c - frame + blanking)
    BY <1>1, <1>2, <1>6
  <2>5. ((q + 1) * frame + (r + c - frame + blanking)) \div frame = q + 1
    BY <1>2, <2>4, DivUnique
  <2>6. (x + c + blanking) \div frame = q + 1
    BY <2>4, <2>5
  <2>7. (x + blanking) \div frame = q + 1
    BY <1>1, <1>4, <2>3
  <2>8. (x + c) % frame \in Nat
    BY <2>1, <2>2
  <2>. QED  BY <1>1, <2>3, <2>6, <2>7, <2>8
<1>. QED  BY <1>1, <1>5, <1>6

Blanking == FrameCycles - ScanlinesActive * LineCycles
Lead(screen) == IF screen = "Bottom" THEN BottomOffset * LineCycles ELSE 0

\* The shape of a frame: both parts at least as long as an instruction, and
\* the bottom screen ahead by less than the lines it shows.
LEMMA FrameShape ==
    /\ FrameCycles \in Nat \ {0} /\ LineCycles \in Nat \ {0}
    /\ ScanlinesActive * LineCycles \in Nat
    /\ Blanking \in Nat /\ Blanking <= FrameCycles
    /\ MaxCost \in Nat \ {0} /\ MaxCost <= Blanking
    /\ MaxCost <= FrameCycles - Blanking
    /\ FrameCycles - Blanking = ScanlinesActive * LineCycles
    /\ \A screen : Lead(screen) \in Nat /\ Lead(screen) < ScanlinesActive * LineCycles
<1>. DEFINE active == ScanlinesActive * LineCycles
<1>0. /\ CpuHz \in Nat \ {0} /\ VideoHz \in Nat \ {0} /\ ScanlinesTotal \in Nat \ {0}
      /\ ScanlinesActive \in Nat /\ BottomOffset \in Nat /\ MaxCost \in Nat \ {0}
      /\ MaxCost <= active /\ MaxCost <= FrameCycles - active /\ BottomOffset < ScanlinesActive
  BY TimingAssumption
<1>1. FrameCycles \in Nat
  BY <1>0, DivMod DEF FrameCycles
<1>2. FrameCycles \div ScanlinesTotal \in Nat
  BY <1>0, <1>1, DivMod
<1>3. LineCycles \in Nat \ {0}
  BY <1>2 DEF LineCycles
<1>4. active \in Nat /\ BottomOffset * LineCycles \in Nat
  BY <1>0, <1>3, ProductNat
<1>5. BottomOffset * LineCycles < active
  <2>. DEFINE d == ScanlinesActive - BottomOffset - 1
  <2>1. d \in Nat /\ d * LineCycles \in Nat
    BY <1>0, <1>3, ProductNat
  <2>2. d * LineCycles = active - BottomOffset * LineCycles - LineCycles
    BY <1>0, <1>3
  <2>. HIDE DEF d
  <2>. QED  BY <1>3, <1>4, <2>1, <2>2
<1>. HIDE DEF active
<1>6. Blanking = FrameCycles - active
  BY DEF Blanking, active
<1>. QED  BY <1>0, <1>1, <1>3, <1>4, <1>5, <1>6 DEF active, Lead

\* A screen's counter, as VBlanksCounted has it.
Begun(screen, now) == (now + Lead(screen) + Blanking) \div FrameCycles

LEMMA VBlankIs ==
    ASSUME NEW screen, NEW now \in Nat
    PROVE  InVBlank(screen, now) <=> (now + Lead(screen)) % FrameCycles >= FrameCycles - Blanking
<1>1. (now + Lead(screen)) % FrameCycles \in Nat
  <2>1. now + Lead(screen) \in Nat /\ FrameCycles \in Nat \ {0}
    BY FrameShape
  <2>. QED  BY <2>1, DivMod
<1>2. CycleInFrame(screen, now) = (now + Lead(screen)) % FrameCycles
  BY DEF CycleInFrame, Lead
<1>3. ScanlinesActive \in Nat
  BY TimingAssumption
<1>4. InVBlank(screen, now) <=> CycleInFrame(screen, now) >= ScanlinesActive * LineCycles
  BY <1>1, <1>2, <1>3, FrameShape, LineBlanking DEF InVBlank, Scanline
<1>. QED  BY <1>2, <1>4, FrameShape

LEMMA EdgeCounts ==
    ASSUME NEW screen, cpuCycles \in Nat, NEW cycles \in 1..MaxCost
    PROVE  /\ Begun(screen, cpuCycles) \in Nat
           /\ Begun(screen, cpuCycles + cycles)
                 = Begun(screen, cpuCycles) + VBlankEdge(screen, cycles)
<1>. DEFINE x == cpuCycles + Lead(screen)
<1>0. /\ FrameCycles \in Nat \ {0} /\ Blanking \in Nat /\ Blanking <= FrameCycles
      /\ MaxCost \in Nat /\ Lead(screen) \in Nat
      /\ MaxCost <= Blanking /\ MaxCost <= FrameCycles - Blanking
  BY FrameShape
<1>1. /\ x \in Nat /\ cycles \in Nat /\ cycles > 0 /\ cycles <= Blanking
      /\ cycles <= FrameCycles - Blanking
  BY <1>0
<1>2. cpuCycles + cycles \in Nat /\ cpuCycles + cycles + Lead(screen) = x + cycles
  BY <1>0, <1>1
<1>. HIDE DEF x
<1>3. x % FrameCycles \in Nat /\ (x + cycles) % FrameCycles \in Nat
  BY <1>0, <1>1, DivMod
<1>4. VBlankEdge(screen, cycles)
         = IF /\ x % FrameCycles < FrameCycles - Blanking
              /\ (x + cycles) % FrameCycles >= FrameCycles - Blanking
           THEN 1 ELSE 0
  <2>1. InVBlank(screen, cpuCycles) <=> x % FrameCycles >= FrameCycles - Blanking
    BY VBlankIs DEF x
  <2>2. InVBlank(screen, cpuCycles + cycles)
           <=> (x + cycles) % FrameCycles >= FrameCycles - Blanking
    BY <1>2, VBlankIs
  <2>. QED  BY <1>0, <1>3, <2>1, <2>2 DEF VBlankEdge
<1>5. /\ (x + Blanking) \div FrameCycles \in Nat
      /\ (x + cycles + Blanking) \div FrameCycles
            = (x + Blanking) \div FrameCycles + VBlankEdge(screen, cycles)
  <2>1. /\ (x + Blanking) \div FrameCycles \in Nat
        /\ (x + cycles + Blanking) \div FrameCycles
              = (x + Blanking) \div FrameCycles
                + (IF /\ x % FrameCycles < FrameCycles - Blanking
                      /\ (x + cycles) % FrameCycles >= FrameCycles - Blanking
                   THEN 1 ELSE 0)
    BY <1>0, <1>1, BlankingsBegun, ZenonT(60)
  <2>. QED  BY <1>4, <2>1, Zenon
<1>6. /\ Begun(screen, cpuCycles) = (x + Blanking) \div FrameCycles
      /\ Begun(screen, cpuCycles + cycles) = (x + cycles + Blanking) \div FrameCycles
  BY <1>2 DEF Begun, x
<1>. QED  BY <1>5, <1>6

LEMMA NoneBegun == \A screen : Begun(screen, 0) = 0
<1>. SUFFICES ASSUME NEW screen PROVE Begun(screen, 0) = 0
  OBVIOUS
<1>1. Lead(screen) + Blanking \in 0..(FrameCycles - 1) /\ FrameCycles \in Nat \ {0}
  BY FrameShape
<1>2. (0 * FrameCycles + (Lead(screen) + Blanking)) \div FrameCycles = 0
  BY <1>1, DivUnique
<1>3. 0 + Lead(screen) + Blanking = 0 * FrameCycles + (Lead(screen) + Blanking)
  BY <1>1, FrameShape
<1>. QED  BY <1>2, <1>3 DEF Begun

BlankInv ==
    /\ topVBlankCount = Begun("Top", cpuCycles)
    /\ bottomVBlankCount = Begun("Bottom", cpuCycles)

LEMMA BlankStep ==
    ASSUME PacingInv, BlankInv, [PlaybackNext]_playbackVars
    PROVE  BlankInv'
<1>1. ASSUME NEW cycles \in 1..MaxCost, Tick(cycles)
      PROVE  BlankInv'
  <2>1. \A screen : Begun(screen, cpuCycles + cycles)
                       = Begun(screen, cpuCycles) + VBlankEdge(screen, cycles)
    BY EdgeCounts DEF PacingInv
  <2>. QED  BY <1>1, <2>1 DEF Tick, BlankInv
<1>2. CASE TimingReset
  <2>1. cpuCycles' = 0 /\ topVBlankCount' = 0 /\ bottomVBlankCount' = 0
    BY <1>2 DEF TimingReset
  <2>2. Begun("Top", cpuCycles)' = Begun("Top", 0) /\ Begun("Bottom", cpuCycles)' = Begun("Bottom", 0)
    BY <2>1 DEF Begun
  <2>. QED  BY <2>1, <2>2, NoneBegun DEF BlankInv
<1>3. CASE UNCHANGED timingVars
  BY <1>3 DEF timingVars, BlankInv, Begun
<1>. QED  BY <1>1, <1>2, <1>3, TimingSteps

LEMMA BlankInvariant == PlaybackSpec => []BlankInv
<1>1. PlaybackInit => BlankInv
  BY NoneBegun DEF PlaybackInit, TimingInit, BlankInv
<1>2. PacingInv /\ BlankInv /\ [PlaybackNext]_playbackVars => BlankInv'
  BY BlankStep
<1>. QED  BY <1>1, <1>2, PacingInvariant, PTL DEF PlaybackSpec

\* Each screen counts each of its vertical blanks once, at its first cycle,
\* for any frame whose two parts are longer than an instruction
\* (TimingModel::tick and screen_snapshot_at).
THEOREM VBlanksAreCounted == PlaybackSpec => []VBlanksCounted
<1>1. PacingInv /\ BlankInv => VBlanksCounted
  <2>. SUFFICES ASSUME PacingInv, BlankInv PROVE VBlanksCounted
    OBVIOUS
  <2>1. cpuCycles + 0 = cpuCycles /\ Lead("Top") = 0 /\ Lead("Bottom") = BottomOffset * LineCycles
    BY DEF PacingInv, Lead
  <2>. QED  BY <2>1 DEF BlankInv, Begun, VBlanksCounted, Blanking
<1>. QED  BY <1>1, BlankInvariant, PacingInvariant, PTL

-----------------------------------------------------------------------------
(* The host's counts *)

CallbackInv ==
    /\ frameCallbacks \in Nat /\ audioCallbacks \in Nat
    /\ framesTaken \in Nat /\ samplesTaken \in Nat
    /\ CallbacksAccounted

\* What an iteration adds to the timing model's counters.
LEMMA UnitsNat ==
    ASSUME PacingInv, NEW cycles \in Nat
    PROVE  FramesIn(cycles) \in Nat /\ SamplesIn(cycles) \in Nat
<1>1. CpuHz \in Nat \ {0} /\ VideoHz \in Nat /\ AudioHz \in Nat
  BY TimingAssumption
<1>2. cycles * VideoHz \in Nat /\ cycles * AudioHz \in Nat
  BY <1>1, ProductNat
<1>3. /\ videoPhase + cycles * VideoHz \in Nat
      /\ audioPhase + cycles * AudioHz \in Nat
  BY <1>1, <1>2 DEF PacingInv, Clock
<1>. QED  BY <1>1, <1>3, DivMod DEF FramesIn, SamplesIn, WholeUnits

LEMMA CallbacksInductive ==
    ASSUME PacingInv, CallbackInv, [PlaybackNext]_playbackVars
    PROVE  CallbackInv'
<1>0. MaxCost \in Nat /\ videoFramesDue \in Nat /\ audioSamplesDue \in Nat
  BY TimingAssumption DEF PacingInv, Clock
<1>1. ASSUME TimingReset, ClearCallbacks
      PROVE  CallbackInv'
  BY <1>1 DEF TimingReset, ClearCallbacks, CallbackInv, CallbacksAccounted
<1>2. ASSUME UNCHANGED <<timingVars, callbackVars>>
      PROVE  CallbackInv'
  BY <1>2 DEF timingVars, callbackVars, CallbackInv, CallbacksAccounted
<1>3. ASSUME NEW cycles \in 1..MaxCost, NEW swi \in BOOLEAN, NEW halts \in BOOLEAN,
             Iterate(cycles, swi, halts)
      PROVE  CallbackInv'
  <2>1. FramesIn(cycles) \in Nat /\ SamplesIn(cycles) \in Nat
    BY <1>0, UnitsNat
  <2>2. /\ frameCallbacks' = frameCallbacks + FramesIn(cycles)
        /\ audioCallbacks' = audioCallbacks + SamplesIn(cycles)
        /\ framesTaken' = framesTaken /\ samplesTaken' = samplesTaken
        /\ videoFramesDue' = videoFramesDue + FramesIn(cycles)
        /\ audioSamplesDue' = audioSamplesDue + SamplesIn(cycles)
    BY <1>3 DEF Iterate, Tick
  <2>. QED  BY <1>0, <2>1, <2>2 DEF CallbackInv, CallbacksAccounted
<1>4. CASE HostTakeFrameCount
  BY <1>4 DEF HostTakeFrameCount, timingVars, CallbackInv, CallbacksAccounted
<1>5. CASE HostTakeSampleCount
  BY <1>5 DEF HostTakeSampleCount, timingVars, CallbackInv, CallbacksAccounted
<1>6. CASE HostLoadRom \/ HostReset
  BY <1>1, <1>6 DEF HostLoadRom, HostReset
<1>7. ASSUME NEW words, Feed(words)
      PROVE  CallbackInv'
  BY <1>2, <1>7 DEF Feed
<1>8. CASE HostTakeSamples \/ UNCHANGED playbackVars
  BY <1>2, <1>8 DEF HostTakeSamples, playbackVars
<1>. QED
  BY <1>3, <1>4, <1>5, <1>6, <1>7, <1>8
  DEF PlaybackNext, HostFeedPacket, HostFeedCut

LEMMA CallbackInvariant == PlaybackSpec => []CallbackInv
<1>1. PlaybackInit => CallbackInv
  BY DEF PlaybackInit, TimingInit, CallbackInv, CallbacksAccounted
<1>2. PacingInv /\ CallbackInv /\ [PlaybackNext]_playbackVars => CallbackInv'
  BY CallbacksInductive
<1>. QED  BY <1>1, <1>2, PacingInvariant, PTL DEF PlaybackSpec

\* The host is told of every frame and every sample of the loaded ROM exactly
\* once, whenever it asks (Emulator3ds::take_frame_present_count and
\* take_audio_sample_count).
THEOREM HostIsToldOfAll == PlaybackSpec => []CallbacksAccounted
<1>1. CallbackInv => CallbacksAccounted
  BY DEF CallbackInv
<1>. QED  BY <1>1, CallbackInvariant, PTL

-----------------------------------------------------------------------------
(* Samples *)

LEMMA ModAdd ==
    ASSUME NEW a \in Nat, NEW b \in Nat, NEW n \in Nat \ {0}
    PROVE  ((a % n) + b) % n = (a + b) % n
<1>. DEFINE q == a \div n
            r == a % n
            s == (r + b) \div n
            t == (r + b) % n
<1>1. q \in Nat /\ r \in 0..(n - 1) /\ q * n + r = a
  BY DivMod
<1>2. r + b \in Nat
  BY <1>1
<1>. HIDE DEF q, r
<1>3. s \in Nat /\ t \in 0..(n - 1) /\ s * n + t = r + b
  BY <1>2, DivMod
<1>. HIDE DEF s, t
<1>4. q + s \in Nat /\ (q + s) * n = q * n + s * n /\ q * n \in Nat /\ s * n \in Nat
  BY <1>1, <1>3, ProductNat
<1>5. a + b = (q + s) * n + t
  BY <1>1, <1>3, <1>4
<1>6. ((q + s) * n + t) % n = t
  BY <1>3, <1>4, DivUnique
<1>. QED  BY <1>5, <1>6 DEF r, t

\* A run of samples that the DSP, now in this phase, has produced last.
Unbroken(s, phase) ==
    /\ s \in Seq(Nat)
    /\ \A i \in 1..Len(s) : (s[i] + (Len(s) - i + 1)) % Wave = phase

SampleInv ==
    /\ dspPhase \in 0..(Wave - 1)
    /\ Unbroken(samples, dspPhase)
    /\ Len(samples) <= MaxBufferedSamples

\* The samples of one iteration carry on where the buffer ends.
LEMMA ProducedUnbroken ==
    ASSUME NEW phase \in 0..(Wave - 1), NEW s, Unbroken(s, phase), NEW n \in Nat
    PROVE  LET made == [i \in 1..n |-> (phase + i - 1) % Wave] IN
           /\ (phase + n) % Wave \in 0..(Wave - 1)
           /\ Unbroken(s \o made, (phase + n) % Wave)
<1>. DEFINE made == [i \in 1..n |-> (phase + i - 1) % Wave]
            all == s \o made
            next == (phase + n) % Wave
<1>0. Wave \in Nat \ {0} /\ phase \in Nat /\ phase + n \in Nat
  BY PlaybackAssumption
<1>1. next \in 0..(Wave - 1)
  BY <1>0, DivMod
<1>2. \A i \in 1..n : (phase + i - 1) % Wave \in Nat
  <2>. SUFFICES ASSUME NEW i \in 1..n PROVE (phase + i - 1) % Wave \in Nat
    OBVIOUS
  <2>1. phase + i - 1 \in Nat
    BY <1>0
  <2>. QED  BY <1>0, <2>1, DivMod
<1>3. made \in Seq(Nat) /\ Len(made) = n
  BY <1>2
<1>4. s \in Seq(Nat) /\ Len(s) \in Nat
  BY DEF Unbroken
<1>5. \A i \in 1..n : made[i] = (phase + i - 1) % Wave
  OBVIOUS
<1>. HIDE DEF made
<1>6. all \in Seq(Nat) /\ Len(all) = Len(s) + n
  <2>1. s \o made \in Seq(Nat) /\ Len(s \o made) = Len(s) + Len(made)
    BY <1>3, <1>4, ConcatProperties
  <2>. QED  BY <1>3, <2>1
<1>7. ASSUME NEW i \in 1..Len(all)
      PROVE  (all[i] + (Len(all) - i + 1)) % Wave = next
  <2>1. CASE i <= Len(s)
    <3>. DEFINE old == s[i] + (Len(s) - i + 1)
    <3>1. i \in 1..Len(s) /\ all[i] = s[i] /\ s[i] \in Nat
      BY <1>3, <1>4, <1>6, <2>1
    <3>2. old \in Nat /\ old % Wave = phase
      BY <1>4, <3>1 DEF Unbroken
    <3>3. all[i] + (Len(all) - i + 1) = old + n
      <4>. DEFINE l == Len(s)
                  e == s[i]
      <4>1. i \in Nat /\ l \in Nat /\ e \in Nat /\ n \in Nat
        BY <1>0, <1>4, <3>1
      <4>2. all[i] = e /\ Len(all) = l + n
        BY <1>6, <3>1
      <4>3. old = e + (l - i + 1)
        OBVIOUS
      <4>. HIDE DEF all, l, e, old
      <4>. QED  BY <4>1, <4>2, <4>3
    <3>. HIDE DEF old
    <3>4. (phase + n) % Wave = (old + n) % Wave
      BY <1>0, <3>2, ModAdd
    <3>. QED  BY <3>3, <3>4
  <2>2. CASE ~(i <= Len(s))
    <3>. DEFINE j == i - Len(s)
                a == phase + j - 1
                b == n - j + 1
    <3>1. j \in 1..n /\ all[i] = made[j]
      BY <1>3, <1>4, <1>6, <2>2
    <3>2. a \in Nat /\ b \in Nat /\ a + b = phase + n /\ all[i] = a % Wave
      BY <1>0, <1>5, <3>1
    <3>3. Len(all) - i + 1 = b
      BY <1>4, <1>6, <3>1
    <3>. HIDE DEF a, b
    <3>4. ((a % Wave) + b) % Wave = (a + b) % Wave
      BY <1>0, <3>2, ModAdd
    <3>. QED  BY <3>2, <3>3, <3>4
  <2>. QED  BY <2>1, <2>2
<1>. HIDE DEF all, next
<1>8. Unbroken(all, next)
  BY <1>6, <1>7 DEF Unbroken
<1>. QED  BY <1>1, <1>8 DEF all, next, made

\* The latest part of an unbroken run is one.
LEMMA LatestUnbroken ==
    ASSUME NEW s, NEW phase, Unbroken(s, phase), NEW n \in Nat
    PROVE  Unbroken(Latest(s, n), phase) /\ Len(Latest(s, n)) <= n
<1>1. s \in Seq(Nat) /\ Len(s) \in Nat
  BY DEF Unbroken
<1>2. CASE Len(s) <= n
  BY <1>2 DEF Latest
<1>3. CASE ~(Len(s) <= n)
  <2>. DEFINE r == SubSeq(s, Len(s) - n + 1, Len(s))
  <2>1. r \in Seq(Nat) /\ Len(r) = n /\ \A i \in 1..n : r[i] = s[Len(s) - n + i]
    BY <1>1, <1>3
  <2>2. Latest(s, n) = r
    BY <1>3 DEF Latest
  <2>. HIDE DEF r
  <2>3. ASSUME NEW i \in 1..n
        PROVE  (r[i] + (n - i + 1)) % Wave = phase
    <3>1. Len(s) - n + i \in 1..Len(s)
      BY <1>1, <1>3
    <3>2. Len(s) - (Len(s) - n + i) + 1 = n - i + 1
      BY <1>1
    <3>3. (s[Len(s) - n + i] + (Len(s) - (Len(s) - n + i) + 1)) % Wave = phase
      BY <3>1 DEF Unbroken
    <3>. QED  BY <2>1, <3>2, <3>3
  <2>. QED  BY <2>1, <2>2, <2>3 DEF Unbroken
<1>. QED  BY <1>2, <1>3

LEMMA SampleStep ==
    ASSUME PacingInv, SampleInv, [PlaybackNext]_playbackVars
    PROVE  SampleInv'
<1>1. ASSUME NEW cycles \in 1..MaxCost, NEW swi \in BOOLEAN, NEW halts \in BOOLEAN,
             Iterate(cycles, swi, halts)
      PROVE  SampleInv'
  <2>. DEFINE n == SamplesIn(cycles)
              made == [i \in 1..n |-> (dspPhase + i - 1) % Wave]
  <2>1. cycles \in Nat
    BY TimingAssumption
  <2>2. n \in Nat
    BY <2>1, UnitsNat
  <2>3. samples' = Latest(samples \o made, MaxBufferedSamples) /\ dspPhase' = (dspPhase + n) % Wave
    BY <1>1 DEF Iterate, ProduceSamples, Buffered
  <2>. HIDE DEF n
  <2>4. /\ (dspPhase + n) % Wave \in 0..(Wave - 1)
        /\ Unbroken(samples \o made, (dspPhase + n) % Wave)
    BY <2>2, ProducedUnbroken DEF SampleInv
  <2>. HIDE DEF made
  <2>5. /\ Unbroken(Latest(samples \o made, MaxBufferedSamples), (dspPhase + n) % Wave)
        /\ Len(Latest(samples \o made, MaxBufferedSamples)) <= MaxBufferedSamples
    BY <2>4, LatestUnbroken, PlaybackAssumption
  <2>. QED  BY <2>3, <2>4, <2>5 DEF SampleInv, Unbroken
<1>2. CASE HostTakeSamples
  BY <1>2, PlaybackAssumption DEF HostTakeSamples, SampleInv, Unbroken
<1>3. ASSUME UNCHANGED dspVars
      PROVE  SampleInv'
  BY <1>3 DEF dspVars, SampleInv, Unbroken
<1>4. CASE HostLoadRom \/ HostReset \/ HostTakeFrameCount \/ HostTakeSampleCount
           \/ UNCHANGED playbackVars
  BY <1>3, <1>4 DEF HostLoadRom, HostReset, HostTakeFrameCount, HostTakeSampleCount,
                    playbackVars
<1>5. ASSUME NEW words, Feed(words)
      PROVE  SampleInv'
  BY <1>3, <1>5 DEF Feed
<1>. QED
  BY <1>1, <1>2, <1>4, <1>5 DEF PlaybackNext, HostFeedPacket, HostFeedCut

LEMMA SampleInvariant == PlaybackSpec => []SampleInv
<1>1. PlaybackInit => SampleInv
  BY PlaybackAssumption DEF PlaybackInit, SampleInv, Unbroken
<1>2. PacingInv /\ SampleInv /\ [PlaybackNext]_playbackVars => SampleInv'
  BY SampleStep
<1>. QED  BY <1>1, <1>2, PacingInvariant, PTL DEF PlaybackSpec

\* The DSP's buffer is the latest part of what it has produced, without a gap,
\* for any capacity and any wave (DspHle::produce_samples).
THEOREM AudioIsUnbroken == PlaybackSpec => []AudioUnbroken
<1>1. ASSUME SampleInv
      PROVE  AudioUnbroken
  <2>1. samples \in Seq(Nat) /\ Len(samples) \in Nat /\ DOMAIN samples = 1..Len(samples)
    BY <1>1 DEF SampleInv, Unbroken
  <2>2. ASSUME NEW i \in 1..Len(samples)
        PROVE  samples[i] + Len(samples) - i + 1 = samples[i] + (Len(samples) - i + 1)
    BY <2>1
  <2>. QED  BY <1>1, <2>1, <2>2 DEF SampleInv, Unbroken, AudioUnbroken
<1>. QED  BY <1>1, SampleInvariant, PTL

-----------------------------------------------------------------------------
(* The boot profile *)

\* A profile starts with the load, and its second checkpoint is never the one
\* that is expected.
GoodProfile(p) ==
    /\ p = [observed |-> p.observed, divergence |-> p.divergence]
    /\ p.observed \in Seq(Checkpoints)
    /\ \A i, j \in 1..Len(p.observed) : p.observed[i] = p.observed[j] => i = j
    /\ Len(p.observed) > 0 => p.observed[1] = "RomLoaded"
    /\ Len(p.observed) <= 1 => p.divergence = NoDivergence
    /\ Len(p.observed) > 1 => p.divergence = 2 /\ p.observed[2] # "FirstInstruction"

LEMMA MarkGood ==
    ASSUME NEW p, GoodProfile(p), Len(p.observed) > 0,
           NEW c \in Checkpoints \ {"RomLoaded", "FirstInstruction"}
    PROVE  GoodProfile(Mark(p, c)) /\ Len(Mark(p, c).observed) > 0
<1>. DEFINE old == p.observed
            new == Append(old, c)
            index == Len(old) + 1
<1>1. CASE \E i \in DOMAIN old : old[i] = c
  BY <1>1 DEF Mark
<1>2. CASE ~ \E i \in DOMAIN old : old[i] = c
  <2>1. old \in Seq(Checkpoints) /\ Len(old) \in Nat /\ DOMAIN old = 1..Len(old)
    BY DEF GoodProfile
  <2>2. /\ new \in Seq(Checkpoints) /\ Len(new) = index /\ new[index] = c
        /\ \A i \in 1..Len(old) : new[i] = old[i]
    BY <2>1
  <2>. DEFINE d == IF p.divergence = NoDivergence /\ OutOfPlace(index, c)
                   THEN index ELSE p.divergence
  <2>3. Mark(p, c) = [observed |-> new, divergence |-> d]
    BY <1>2 DEF Mark
  <2>4. \A i, j \in 1..Len(new) : new[i] = new[j] => i = j
    BY <1>2, <2>1, <2>2 DEF GoodProfile
  <2>5. new[1] = "RomLoaded" /\ index > 1
    BY <2>1, <2>2 DEF GoodProfile
  <2>6. d = 2
    <3>1. CASE Len(old) = 1
      <4>1. p.divergence = NoDivergence /\ index = 2
        BY <2>1, <3>1 DEF GoodProfile
      <4>2. OutOfPlace(index, c)
        BY <4>1 DEF OutOfPlace, Expected
      <4>. QED  BY <4>1, <4>2
    <3>2. CASE Len(old) > 1
      BY <2>1, <3>2 DEF GoodProfile, NoDivergence
    <3>3. Len(old) = 1 \/ Len(old) > 1
      <4>1. \A n \in Nat : n > 0 => n = 1 \/ n > 1
        OBVIOUS
      <4>2. Len(old) \in Nat /\ Len(old) > 0
        BY <2>1
      <4>. HIDE DEF old, d, new, index
      <4>. QED  BY <4>1, <4>2, Zenon
    <3>. HIDE DEF d, old
    <3>. QED  BY <3>1, <3>2, <3>3
  <2>7. new[2] # "FirstInstruction"
    <3>1. CASE Len(old) = 1
      BY <2>1, <2>2, <3>1
    <3>2. CASE Len(old) > 1
      BY <2>1, <2>2, <3>2 DEF GoodProfile
    <3>. QED  BY <2>1, <3>1, <3>2
  <2>. HIDE DEF new, d
  <2>. QED  BY <2>1, <2>2, <2>3, <2>4, <2>5, <2>6, <2>7 DEF GoodProfile
<1>. QED  BY <1>1, <1>2

ProfileInv ==
    /\ GoodProfile(profile)
    /\ romLoaded => Len(profile.observed) > 0

LEMMA GoodIsSound ==
    ASSUME GoodProfile(profile)
    PROVE  ProfileSound
<1>. DEFINE observed == profile.observed
            wrong == {i \in DOMAIN observed : OutOfPlace(i, observed[i])}
<1>1. observed \in Seq(Checkpoints) /\ Len(observed) \in Nat /\ DOMAIN observed = 1..Len(observed)
  BY DEF GoodProfile
<1>2. 1 \notin wrong
  BY <1>1 DEF GoodProfile, OutOfPlace, Expected
<1>3. Len(observed) > 1 => 2 \in wrong
  BY <1>1 DEF GoodProfile, OutOfPlace, Expected
<1>4. \A i \in wrong : i \in Nat /\ i >= 2
  BY <1>1, <1>2
<1>5. wrong # {} <=> Len(observed) > 1
  BY <1>1, <1>3, <1>4
<1>6. \A i, j \in DOMAIN observed : observed[i] = observed[j] => i = j
  BY <1>1 DEF GoodProfile
<1>7. /\ wrong # {} => profile.divergence = 2
      /\ wrong = {} => profile.divergence = NoDivergence
  BY <1>1, <1>5 DEF GoodProfile
<1>. HIDE DEF wrong
<1>8. /\ profile.divergence = NoDivergence <=> wrong = {}
      /\ wrong # {} => /\ profile.divergence \in wrong
                       /\ \A i \in wrong : profile.divergence <= i
      /\ Len(observed) > 1 => profile.divergence = 2
  BY <1>3, <1>4, <1>5, <1>7 DEF NoDivergence
<1>. USE DEF wrong
<1>9. wrong = {i \in DOMAIN profile.observed : OutOfPlace(i, profile.observed[i])}
  OBVIOUS
<1>. HIDE DEF wrong
<1>. QED  BY <1>6, <1>8, <1>9 DEF ProfileSound

LEMMA ProfileInductive ==
    ASSUME ProfileInv, [PlaybackNext]_playbackVars
    PROVE  ProfileInv'
<1>1. ASSUME UNCHANGED <<romLoaded, diagnosticVars>>
      PROVE  ProfileInv'
  BY <1>1 DEF diagnosticVars, ProfileInv, GoodProfile
<1>2. CASE HostLoadRom
  <2>1. profile' = [observed |-> <<"RomLoaded">>, divergence |-> NoDivergence]
    BY <1>2 DEF HostLoadRom, ClearDiagnostics, Mark, NewProfile, OutOfPlace, Expected
  <2>2. "RomLoaded" \in Checkpoints
    <3>1. 1 \in DOMAIN Expected /\ Expected[1] = "RomLoaded"
      BY DEF Expected
    <3>. QED  BY <3>1 DEF Checkpoints
  <2>. QED  BY <2>1, <2>2 DEF ProfileInv, GoodProfile
<1>3. CASE HostReset
  <2>1. profile' = [observed |-> <<>>, divergence |-> NoDivergence] /\ romLoaded' = FALSE
    BY <1>3 DEF HostReset, ClearDiagnostics, NewProfile
  <2>. QED  BY <2>1 DEF ProfileInv, GoodProfile
<1>4. ASSUME NEW cycles \in 1..MaxCost, NEW swi \in BOOLEAN, NEW halts \in BOOLEAN,
             Iterate(cycles, swi, halts)
      PROVE  ProfileInv'
  <2>. DEFINE Good(q) == GoodProfile(q) /\ Len(q.observed) > 0
              Passed == Checkpoints \ {"RomLoaded", "FirstInstruction"}
  <2>1. ASSUME NEW reached, NEW q, NEW c \in Passed, Good(q)
        PROVE  Good(MarkIf(reached, q, c))
    BY <2>1, MarkGood DEF MarkIf
  <2>2. {"FirstServiceCall", "FirstGpuCommand", "FirstFramePresent", "CpuHalted"}
            \subseteq Passed
    BY DEF Checkpoints, Expected
  <2>. DEFINE done == Consumed(gpu, fifo)
              service == MarkIf(serviceCalled, profile, "FirstServiceCall")
              command == MarkIf(Len(done.trace) > lastGpuTraceLen, service, "FirstGpuCommand")
              present == MarkIf(FramesIn(cycles) > 0, command, "FirstFramePresent")
  <2>3. romLoaded /\ romLoaded' = romLoaded /\ profile' = MarkIf(halts, present, "CpuHalted")
    BY <1>4 DEF Iterate, MarkIteration
  <2>4. Good(profile)
    BY <2>3 DEF ProfileInv
  <2>. HIDE DEF Good, Passed
  <2>5. Good(service)
    BY <2>1, <2>2, <2>4
  <2>6. Good(command)
    <3>. HIDE DEF service
    <3>. QED  BY <2>1, <2>2, <2>5
  <2>7. Good(present)
    <3>. HIDE DEF command
    <3>. QED  BY <2>1, <2>2, <2>6
  <2>8. Good(profile')
    <3>. HIDE DEF present
    <3>. QED  BY <2>1, <2>2, <2>3, <2>7
  <2>. QED  BY <2>8 DEF Good, ProfileInv, GoodProfile
<1>5. CASE HostTakeSamples \/ HostTakeFrameCount \/ HostTakeSampleCount \/ UNCHANGED playbackVars
  BY <1>1, <1>5 DEF HostTakeSamples, HostTakeFrameCount, HostTakeSampleCount, playbackVars
<1>6. ASSUME NEW words, Feed(words)
      PROVE  ProfileInv'
  BY <1>1, <1>6 DEF Feed
<1>. QED
  BY <1>2, <1>3, <1>4, <1>5, <1>6 DEF PlaybackNext, HostFeedPacket, HostFeedCut

LEMMA ProfileInvariant == PlaybackSpec => []ProfileInv
<1>1. PlaybackInit => ProfileInv
  BY DEF PlaybackInit, NewProfile, ProfileInv, GoodProfile
<1>2. ProfileInv /\ [PlaybackNext]_playbackVars => ProfileInv'
  BY ProfileInductive
<1>. QED  BY <1>1, <1>2, PTL DEF PlaybackSpec

\* The boot profile points at the first checkpoint out of place, and where two
\* have been reached that is always the second: the profiler cannot tell a
\* good boot of Emulator3ds from a bad one (BootCheckpointProfiler::mark).
THEOREM BootProfileIsSound == PlaybackSpec => []ProfileSound
<1>1. ProfileInv => ProfileSound
  BY GoodIsSound DEF ProfileInv
<1>. QED  BY <1>1, ProfileInvariant, PTL

-----------------------------------------------------------------------------
(* The ring of GPU records *)

\* What the latest part of a sequence is, place by place.
IsLatest(r, s, n) ==
    /\ r \in Seq(RegisterWrite)
    /\ Len(r) = IF Len(s) <= n THEN Len(s) ELSE n
    /\ \A i \in 1..Len(r) : r[i] = s[Len(s) - Len(r) + i]

LEMMA LatestIs ==
    ASSUME NEW s \in Seq(RegisterWrite), NEW n \in Nat
    PROVE  IsLatest(Latest(s, n), s, n)
<1>. DEFINE r == Latest(s, n)
            l == Len(s)
<1>1. l \in Nat /\ \A i \in 1..l : s[i] \in RegisterWrite
  OBVIOUS
<1>2. CASE l <= n
  <2>1. r = s
    BY <1>2 DEF Latest
  <2>2. \A i \in 1..l : l - l + i = i
    BY <1>1
  <2>. HIDE DEF r
  <2>. QED  BY <1>2, <2>1, <2>2 DEF r, IsLatest
<1>3. CASE ~(l <= n)
  <2>1. r = SubSeq(s, l - n + 1, l)
    BY <1>3 DEF Latest
  <2>2. l - n + 1 \in Int /\ l \in Int /\ \A i \in (l - n + 1)..l : i \in 1..l
    BY <1>1, <1>3
  <2>. HIDE DEF l, r
  <2>3. /\ SubSeq(s, l - n + 1, l) \in Seq(RegisterWrite)
        /\ Len(SubSeq(s, l - n + 1, l))
              = IF l - n + 1 <= l THEN l - (l - n + 1) + 1 ELSE 0
        /\ \A i \in 1..(l - (l - n + 1) + 1) :
              SubSeq(s, l - n + 1, l)[i] = s[l - n + 1 + i - 1]
    BY <1>1, <2>2, SubSeqProperties
  <2>4. Len(r) = n
    BY <1>1, <1>3, <2>1, <2>3
  <2>5. l - (l - n + 1) + 1 = n /\ \A i \in 1..n : l - n + 1 + i - 1 = l - n + i
    BY <1>1
  <2>6. \A i \in 1..n : r[i] = s[l - n + i]
    BY <2>1, <2>3, <2>5
  <2>. QED  BY <1>3, <2>1, <2>3, <2>4, <2>6 DEF r, l, IsLatest
<1>. QED  BY <1>2, <1>3

\* Pushing onto the latest writes leaves the latest writes.
LEMMA PushLatest ==
    ASSUME NEW s \in Seq(RegisterWrite), NEW w \in RegisterWrite, NEW n \in Nat
    PROVE  RingPush(Latest(s, n), n, w) = Latest(Append(s, w), n)
<1>. DEFINE old == Latest(s, n)
            more == Append(s, w)
            new == Latest(more, n)
            l == Len(s)
            m == Len(old)
<1>1. /\ more \in Seq(RegisterWrite) /\ Len(more) = l + 1 /\ l \in Nat
      /\ \A i \in 1..l : more[i] = s[i]
      /\ more[l + 1] = w
  BY AppendProperties
<1>2. /\ old \in Seq(RegisterWrite) /\ m = (IF l <= n THEN l ELSE n)
      /\ \A i \in 1..m : old[i] = s[l - m + i]
  BY LatestIs DEF IsLatest
<1>3. /\ new \in Seq(RegisterWrite) /\ Len(new) = (IF l + 1 <= n THEN l + 1 ELSE n)
      /\ \A i \in 1..Len(new) : new[i] = more[l + 1 - Len(new) + i]
  <2>. HIDE DEF more, new, l
  <2>1. IsLatest(new, more, n)
    BY <1>1, LatestIs DEF new
  <2>2. /\ new \in Seq(RegisterWrite)
        /\ Len(new) = (IF Len(more) <= n THEN Len(more) ELSE n)
        /\ \A i \in 1..Len(new) : new[i] = more[Len(more) - Len(new) + i]
    BY <2>1 DEF IsLatest
  <2>. QED  BY <1>1, <2>2
<1>. HIDE DEF old, more, new, l
<1>4. m \in Nat /\ m <= l /\ m <= n
  BY <1>1, <1>2
<1>5. CASE n = 0
  <2>1. old = <<>> /\ new = <<>>
    BY <1>1, <1>2, <1>3, <1>5
  <2>2. RingPush(old, n, w) = old
    BY <1>5 DEF RingPush
  <2>. QED  BY <2>1, <2>2 DEF old, new, more
<1>6. CASE n # 0 /\ m # n
  <2>1. m = l /\ l + 1 <= n /\ Len(new) = m + 1
    BY <1>1, <1>2, <1>3, <1>6
  <2>2. RingPush(old, n, w) = Append(old, w)
    BY <1>6 DEF RingPush
  <2>3. /\ Append(old, w) \in Seq(RegisterWrite) /\ Len(Append(old, w)) = m + 1
        /\ \A i \in 1..m : Append(old, w)[i] = old[i]
        /\ Append(old, w)[m + 1] = w
    BY <1>2, AppendProperties
  <2>. HIDE DEF m
  <2>4. ASSUME NEW i \in 1..(m + 1)
        PROVE  Append(old, w)[i] = new[i]
    <3>1. l + 1 - (m + 1) + i = i
      BY <1>4, <2>1
    <3>2. new[i] = more[i]
      BY <1>3, <2>1, <3>1
    <3>3. CASE i \in 1..m
      <4>1. l - m + i = i
        BY <1>4, <2>1, <3>3
      <4>. QED  BY <1>1, <1>2, <2>1, <2>3, <3>2, <3>3, <4>1
    <3>4. CASE i = m + 1
      BY <1>1, <2>1, <2>3, <3>2, <3>4
    <3>5. i \in 1..m \/ i = m + 1
      BY <1>4
    <3>. QED  BY <3>3, <3>4, <3>5, Zenon
  <2>5. Append(old, w) = new
    BY <1>3, <2>1, <2>3, <2>4, SeqEqual
  <2>. QED  BY <2>2, <2>5 DEF old, new, more
<1>7. CASE n # 0 /\ m = n
  <2>. DEFINE t == Tail(old)
  <2>1. old # <<>> /\ n - 1 \in Nat /\ ~(l + 1 <= n) /\ Len(new) = n
    BY <1>1, <1>2, <1>3, <1>4, <1>7
  <2>2. t \in Seq(RegisterWrite) /\ Len(t) = n - 1 /\ \A i \in 1..Len(t) : t[i] = old[i + 1]
    BY <1>2, <1>7, <2>1, HeadTailProperties
  <2>3. RingPush(old, n, w) = Append(t, w)
    BY <1>7 DEF RingPush
  <2>. HIDE DEF t
  <2>4. /\ Append(t, w) \in Seq(RegisterWrite) /\ Len(Append(t, w)) = (n - 1) + 1
        /\ \A i \in 1..(n - 1) : Append(t, w)[i] = t[i]
        /\ Append(t, w)[(n - 1) + 1] = w
    BY <2>2, AppendProperties
  <2>5. ASSUME NEW i \in 1..n
        PROVE  Append(t, w)[i] = new[i]
    <3>1. new[i] = more[l + 1 - n + i]
      BY <1>3, <2>1
    <3>2. CASE i \in 1..(n - 1)
      <4>1. Append(t, w)[i] = old[i + 1] /\ i + 1 \in 1..m
        BY <1>7, <2>2, <2>4, <3>2
      <4>2. old[i + 1] = s[l - m + (i + 1)]
        BY <1>2, <4>1
      <4>3. l - m + (i + 1) = l + 1 - n + i /\ l + 1 - n + i \in 1..l
        BY <1>1, <1>4, <1>7, <3>2
      <4>. QED  BY <1>1, <3>1, <4>1, <4>2, <4>3
    <3>3. CASE i = n
      <4>1. l + 1 - n + i = l + 1 /\ (n - 1) + 1 = n
        BY <1>1, <3>3
      <4>. QED  BY <1>1, <2>4, <3>1, <3>3, <4>1
    <3>4. i \in 1..(n - 1) \/ i = n
      OBVIOUS
    <3>. QED  BY <3>2, <3>3, <3>4, Zenon
  <2>6. Append(t, w) = new
    <3>1. (n - 1) + 1 = n
      OBVIOUS
    <3>. QED  BY <1>3, <2>1, <2>4, <2>5, <3>1, SeqEqual
  <2>. QED  BY <2>3, <2>6 DEF old, new, more
<1>. QED  BY <1>5, <1>6, <1>7

LEMMA PushTyped ==
    ASSUME NEW buffer \in Seq(RegisterWrite), NEW w \in RegisterWrite, NEW n \in Nat
    PROVE  RingPush(buffer, n, w) \in Seq(RegisterWrite)
<1>1. CASE n = 0
  BY <1>1 DEF RingPush
<1>2. CASE n # 0
  <2>1. Len(buffer) = n => Tail(buffer) \in Seq(RegisterWrite)
    <3>. SUFFICES ASSUME Len(buffer) = n PROVE Tail(buffer) \in Seq(RegisterWrite)
      OBVIOUS
    <3>1. buffer # <<>>
      BY <1>2
    <3>. QED  BY <3>1, HeadTailProperties
  <2>2. (IF Len(buffer) = n THEN Tail(buffer) ELSE buffer) \in Seq(RegisterWrite)
    BY <2>1
  <2>3. RingPush(buffer, n, w) = Append(IF Len(buffer) = n THEN Tail(buffer) ELSE buffer, w)
    BY <1>2 DEF RingPush
  <2>. QED  BY <2>2, <2>3, AppendProperties
<1>. QED  BY <1>1, <1>2

\* The records from a buffer on, as the writes are pushed one by one.
PushedFrom(F, buffer, ws) ==
    /\ F[0] = buffer
    /\ \A k \in 1..Len(ws) : F[k] = RingPush(F[k - 1], GpuTraceCap, ws[k])

LEMMA PushedExists ==
    ASSUME NEW buffer \in Seq(RegisterWrite), NEW ws \in Seq(RegisterWrite)
    PROVE  \E F : /\ PushedFrom(F, buffer, ws)
                  /\ LET push(old, write) == RingPush(old, GpuTraceCap, write)
                     IN  FoldLeft(push, buffer, ws) = F[Len(ws)]
<1>. DEFINE n == Len(ws)
            Records == Seq(RegisterWrite)
            apply == [x \in Records \X (1..n) |-> RingPush(x[1], GpuTraceCap, ws[x[2]])]
<1>1. /\ n \in Nat /\ DOMAIN ws = 1..n /\ \A i \in 1..n : ws[i] \in RegisterWrite
      /\ GpuTraceCap \in Nat
  BY PlaybackAssumption
<1>. HIDE DEF n
<1>2. apply \in [Records \X (1..n) -> Records]
  <2>1. \A x \in Records \X (1..n) : RingPush(x[1], GpuTraceCap, ws[x[2]]) \in Records
    BY <1>1, PushTyped
  <2>. HIDE DEF Records
  <2>. QED  BY <2>1
<1>3. \A h \in Records, i \in 1..n : apply[<<h, i>>] = RingPush(h, GpuTraceCap, ws[i])
  <2>. HIDE DEF Records
  <2>. QED  OBVIOUS
<1>4. buffer \in Records
  OBVIOUS
<1>. HIDE DEF apply, Records
<1>5. PICK f : IsFold(f, n, Records, buffer, apply)
  BY <1>1, <1>2, <1>4, FoldExists, Zenon
<1>6. \A s \in SUBSET (1..n) :
          f[s] = IF s = {} THEN buffer
                 ELSE RingPush(f[s \ {Max(s)}], GpuTraceCap, ws[Max(s)])
  <2>. SUFFICES ASSUME NEW s \in SUBSET (1..n), s # {}
                PROVE  f[s] = RingPush(f[s \ {Max(s)}], GpuTraceCap, ws[Max(s)])
    BY <1>5 DEF IsFold
  <2>1. Max(s) \in 1..n
    BY <1>1, Greatest
  <2>2. f[s \ {Max(s)}] \in Records
    BY <1>5 DEF IsFold
  <2>. QED  BY <1>3, <1>5, <2>1, <2>2 DEF IsFold
<1>. DEFINE Is(c) == c = [s \in SUBSET (DOMAIN ws) |->
                            IF s = {} THEN buffer
                            ELSE RingPush(c[s \ {Max(s)}], GpuTraceCap, ws[Max(s)])]
            C == CHOOSE c : Is(c)
<1>7. Is(f)
  <2>1. f = [s \in SUBSET (1..n) |-> f[s]]
    BY <1>5 DEF IsFold
  <2>. QED  BY <1>1, <1>6, <2>1
<1>8. Is(C)
  <2>. HIDE DEF Is
  <2>. QED  BY <1>7, Zenon
<1>9. LET push(old, write) == RingPush(old, GpuTraceCap, write)
      IN  FoldLeft(push, buffer, ws) = C[DOMAIN ws]
  BY Zenon DEF FoldLeft, MapThenFoldSet
<1>10. \A s \in SUBSET (1..n) :
          C[s] = IF s = {} THEN buffer
                 ELSE RingPush(C[s \ {Max(s)}], GpuTraceCap, ws[Max(s)])
  <2>. HIDE DEF C
  <2>. QED  BY <1>1, <1>8
<1>. HIDE DEF C, Is
<1>. DEFINE F == [k \in 0..n |-> C[1..k]]
<1>11. F[0] = buffer
  <2>1. 1..0 = {} /\ {} \in SUBSET (1..n) /\ 0 \in 0..n
    BY <1>1
  <2>. QED  BY <1>10, <2>1
<1>12. ASSUME NEW k \in 1..n
       PROVE  F[k] = RingPush(F[k - 1], GpuTraceCap, ws[k])
  <2>1. /\ 1..k \in SUBSET (1..n) /\ 1..k # {} /\ k - 1 \in 0..n /\ k \in 0..n
        /\ Max(1..k) = k /\ (1..k) \ {k} = 1..(k - 1)
    BY <1>1, UpTo
  <2>2. C[1..k] = RingPush(C[(1..k) \ {Max(1..k)}], GpuTraceCap, ws[Max(1..k)])
    <3>. HIDE DEF F
    <3>. QED  BY <1>10, <2>1
  <2>. QED  BY <2>1, <2>2
<1>13. F[n] = C[DOMAIN ws]
  BY <1>1
<1>. HIDE DEF F
<1>14. PushedFrom(F, buffer, ws)
  BY <1>11, <1>12 DEF PushedFrom, n
<1>. QED  BY <1>9, <1>13, <1>14 DEF n

\* Pushing more writes onto the latest of some leaves the latest of all.
LEMMA FoldPushed ==
    ASSUME NEW s \in Seq(RegisterWrite), NEW ws \in Seq(RegisterWrite)
    PROVE  LET push(old, write) == RingPush(old, GpuTraceCap, write)
           IN  FoldLeft(push, Latest(s, GpuTraceCap), ws) = Latest(s \o ws, GpuTraceCap)
<1>. DEFINE n == Len(ws)
            cap == GpuTraceCap
<1>1. /\ n \in Nat /\ GpuTraceCap \in Nat
  BY PlaybackAssumption
<1>2. Latest(s, GpuTraceCap) \in Seq(RegisterWrite)
  BY <1>1, LatestIs DEF IsLatest
<1>3. PICK F : /\ PushedFrom(F, Latest(s, GpuTraceCap), ws)
               /\ LET push(old, write) == RingPush(old, GpuTraceCap, write)
                  IN  FoldLeft(push, Latest(s, GpuTraceCap), ws) = F[Len(ws)]
  BY <1>2, PushedExists, Zenon
<1>. DEFINE K == {k \in 0..n : F[k] = Latest(s \o SubSeq(ws, 1, k), GpuTraceCap)}
<1>4. 0 \in K
  <2>1. SubSeq(ws, 1, 0) = <<>> /\ 0 \in 0..n
    BY <1>1
  <2>2. s \o <<>> = s
    BY ConcatEmptySeq
  <2>. QED  BY <1>3, <2>1, <2>2 DEF PushedFrom
<1>5. ASSUME NEW k \in 0..(n - 1), k \in K
      PROVE  k + 1 \in K
  <2>1. k + 1 \in 1..n /\ k + 1 \in 0..n /\ (k + 1) - 1 = k /\ k \in Nat /\ k <= n
    BY <1>1
  <2>. DEFINE p == s \o SubSeq(ws, 1, k)
              w == ws[k + 1]
  <2>2. w \in RegisterWrite /\ SubSeq(ws, 1, k) \in Seq(RegisterWrite)
    BY <2>1
  <2>3. p \in Seq(RegisterWrite)
    BY <2>2, ConcatProperties
  <2>4. F[k + 1] = RingPush(F[k], GpuTraceCap, w)
    <3>1. F[k + 1] = RingPush(F[(k + 1) - 1], GpuTraceCap, ws[k + 1])
      BY <1>3, <2>1, Zenon DEF PushedFrom
    <3>. QED  BY <2>1, <3>1
  <2>5. F[k] = Latest(p, GpuTraceCap)
    BY <1>5
  <2>6. Append(p, w) = s \o SubSeq(ws, 1, k + 1)
    BY <2>1, AppendNext
  <2>. HIDE DEF p, w
  <2>7. RingPush(Latest(p, GpuTraceCap), GpuTraceCap, w) = Latest(Append(p, w), GpuTraceCap)
    BY <1>1, <2>2, <2>3, PushLatest
  <2>. QED  BY <2>1, <2>4, <2>5, <2>6, <2>7
<1>6. n \in K
  <2>. HIDE DEF K, n
  <2>1. \A k \in 0..n : k \in K
    BY <1>1, <1>4, <1>5, Upward
  <2>. QED  BY <1>1, <2>1
<1>7. SubSeq(ws, 1, n) = ws
  BY SubSeqFull
<1>8. F[n] = Latest(s \o ws, GpuTraceCap)
  BY <1>6, <1>7
<1>. QED  BY <1>3, <1>8, Zenon

-----------------------------------------------------------------------------
(* The GPU, its fifo and its traces *)

\* The GPU rests between iterations: its events have been taken, and what it
\* has written with what waits is what was submitted.
FifoInv ==
    /\ fifo \in Seq(Nat)
    /\ gpu \in GpuState /\ gpu.events = 0
    /\ submitted \in Seq(RegisterWrite) /\ whole \in BOOLEAN
    /\ whole => Complete(fifo)
    /\ whole => submitted = gpu.trace \o Decode(fifo)

TraceInv ==
    /\ lastGpuTraceLen \in 0..Len(gpu.trace)
    /\ gpuTrace = Latest(SubSeq(gpu.trace, 1, lastGpuTraceLen), GpuTraceCap)

DrawsInv ==
    /\ traceBase \in 0..Len(gpu.trace)
    /\ gpuFrameCompletions = Cardinality(Drawn(gpu.trace, traceBase))

\* The registers are what the trace makes of a new GPU's.
ReplayInv == Alike(FoldLeft(Apply, NewGpu, gpu.trace), gpu)

\* What an iteration does to the GPU.
Ran ==
    LET writes == Decode(fifo)
        done == FoldLeft(Apply, gpu, writes)
    IN  /\ writes \in Seq(RegisterWrite) /\ done \in GpuState
        /\ done.trace = gpu.trace \o writes
        /\ gpu' \in GpuState /\ gpu'.events = 0 /\ gpu'.trace = done.trace
        /\ Alike(done, gpu')

LEMMA IterationRuns ==
    ASSUME FifoInv, NEW cycles, NEW swi, NEW halts, Iterate(cycles, swi, halts)
    PROVE  Ran
<1>. DEFINE writes == Decode(fifo)
            done == FoldLeft(Apply, gpu, writes)
<1>1. writes \in Seq(RegisterWrite)
  BY DecodeTyped DEF FifoInv
<1>2. done \in GpuState /\ done.trace = gpu.trace \o writes
  BY <1>1, FoldTyped, FoldTraces DEF FifoInv
<1>3. gpu' = [done EXCEPT !.events = 0]
  BY DEF Iterate, RunGpu, Consumed
<1>. HIDE DEF done
<1>4. /\ gpu' \in GpuState /\ gpu'.events = 0 /\ gpu'.trace = done.trace /\ Alike(done, gpu')
  BY <1>2, <1>3 DEF GpuState, Alike
<1>. QED  BY <1>1, <1>2, <1>4 DEF Ran, done

\* Only an iteration and the host's words reach the GPU.
LEMMA GpuSteps ==
    ASSUME [PlaybackNext]_playbackVars
    PROVE  \/ \E cycles \in 1..MaxCost, swi, halts \in BOOLEAN : Iterate(cycles, swi, halts)
           \/ \E p \in Packets : HostFeedPacket(p)
           \/ \E words \in CutPackets : HostFeedCut(words)
           \/ UNCHANGED gpuVars
BY DEF PlaybackNext, playbackVars, HostLoadRom, HostReset, HostTakeSamples,
       HostTakeFrameCount, HostTakeSampleCount

LEMMA PacketJoins ==
    ASSUME NEW p \in Packets
    PROVE  /\ PacketWords(p) \in Seq(Nat) /\ Complete(PacketWords(p))
           /\ PacketWrites(p) \in Seq(RegisterWrite)
           /\ Decode(PacketWords(p)) = PacketWrites(p)
<1>1. Whole(p.reg, p.count, p.sequential, p.values)
  BY PacketsAssumption DEF Whole
<1>2. Decoded(<<Encode(p.reg, p.count, p.sequential)>> \o p.values,
              p.reg, p.sequential, p.values)
  BY <1>1, PacketDecodes, Zenon
<1>3. Decoded(PacketWords(p), p.reg, p.sequential, p.values)
  BY <1>2, Zenon DEF PacketWords
<1>4. PacketWords(p) \in Seq(Nat) /\ Complete(PacketWords(p))
      /\ Decode(PacketWords(p)) = PacketWrites(p)
  BY <1>3, Zenon DEF Decoded, PacketWrites
<1>. QED  BY <1>4, DecodeTyped

LEMMA NothingComplete == Complete(<<>>)
<1>1. {1} \in SUBSET (1..(Len(<<>>) + 1)) /\ 1 \in {1}
      /\ \A c \in {1} : c <= Len(<<>>) => After(<<>>, c) \in {1}
  OBVIOUS
<1>. QED  BY <1>1 DEF Complete

LEMMA FifoInductive ==
    ASSUME FifoInv, [PlaybackNext]_playbackVars
    PROVE  FifoInv'
<1>1. ASSUME NEW cycles, NEW swi, NEW halts, Iterate(cycles, swi, halts)
      PROVE  FifoInv'
  <2>1. Ran
    BY <1>1, IterationRuns
  <2>2. fifo' = <<>> /\ UNCHANGED <<submitted, whole>>
    BY <1>1 DEF Iterate, RunGpu
  <2>3. gpu' \in GpuState /\ gpu'.events = 0 /\ gpu'.trace = gpu.trace \o Decode(fifo)
        /\ gpu'.trace \in Seq(RegisterWrite)
    BY <2>1 DEF Ran, GpuState
  <2>4. gpu'.trace \o <<>> = gpu'.trace
    BY <2>3, ConcatEmptySeq
  <2>5. Complete(fifo') /\ Decode(fifo') = <<>>
    BY <2>2, NothingComplete, DecodeNothing
  <2>. QED  BY <2>2, <2>3, <2>4, <2>5 DEF FifoInv
<1>2. ASSUME NEW p \in Packets, HostFeedPacket(p)
      PROVE  FifoInv'
  <2>. DEFINE words == PacketWords(p)
              writes == PacketWrites(p)
  <2>1. /\ words \in Seq(Nat) /\ Complete(words)
        /\ writes \in Seq(RegisterWrite) /\ Decode(words) = writes
    BY PacketJoins
  <2>2. /\ fifo' = fifo \o words /\ UNCHANGED <<gpu, whole>>
        /\ submitted' = IF whole THEN submitted \o writes ELSE <<>>
    BY <1>2 DEF HostFeedPacket, Feed
  <2>. HIDE DEF words, writes
  <2>3. fifo' \in Seq(Nat) /\ submitted' \in Seq(RegisterWrite)
    BY <2>1, <2>2, JoinIs, ConcatProperties DEF FifoInv
  <2>4. ASSUME whole
        PROVE  Complete(fifo') /\ submitted' = gpu'.trace \o Decode(fifo')
    <3>1. fifo \in Seq(Nat) /\ Complete(fifo) /\ submitted = gpu.trace \o Decode(fifo)
      BY <2>4 DEF FifoInv
    <3>2. Complete(fifo \o words) /\ Decode(fifo \o words) = Decode(fifo) \o writes
      BY <2>1, <3>1, CompleteJoin, DecodeInPortions
    <3>3. gpu.trace \in Seq(RegisterWrite) /\ Decode(fifo) \in Seq(RegisterWrite)
      BY <3>1, DecodeTyped DEF FifoInv, GpuState
    <3>4. (gpu.trace \o Decode(fifo)) \o writes = gpu.trace \o (Decode(fifo) \o writes)
      BY <2>1, <3>3, WritesAssociative
    <3>. QED  BY <2>2, <2>4, <3>1, <3>2, <3>4
  <2>. QED  BY <2>2, <2>3, <2>4 DEF FifoInv
<1>3. ASSUME NEW words \in CutPackets, HostFeedCut(words)
      PROVE  FifoInv'
  <2>1. /\ fifo' = fifo \o words /\ UNCHANGED gpu /\ whole' = FALSE /\ submitted' = <<>>
    BY <1>3 DEF HostFeedCut, Feed
  <2>2. words \in Seq(Nat)
    BY PacketsAssumption
  <2>3. fifo' \in Seq(Nat)
    BY <2>1, <2>2, JoinIs DEF FifoInv
  <2>4. gpu' \in GpuState /\ gpu'.events = 0
    BY <2>1 DEF FifoInv
  <2>5. whole' \in BOOLEAN /\ ~whole'
    BY <2>1, Zenon
  <2>6. submitted' \in Seq(RegisterWrite)
    BY <2>1
  <2>. QED  BY <2>3, <2>4, <2>5, <2>6, Zenon DEF FifoInv
<1>4. CASE UNCHANGED gpuVars
  BY <1>4 DEF gpuVars, FifoInv
<1>. QED  BY <1>1, <1>2, <1>3, <1>4, GpuSteps

LEMMA FifoInvariant == PlaybackSpec => []FifoInv
<1>1. PlaybackInit => FifoInv
  <2>. SUFFICES ASSUME PlaybackInit PROVE FifoInv
    OBVIOUS
  <2>1. fifo = <<>> /\ gpu = NewGpu /\ submitted = <<>> /\ whole = TRUE
    BY DEF PlaybackInit
  <2>2. gpu.events = 0 /\ gpu.trace = <<>> /\ <<>> \o <<>> = <<>>
    BY <2>1 DEF NewGpu
  <2>. QED  BY <2>1, <2>2, NewGpuTyped, NothingComplete, DecodeNothing DEF FifoInv
<1>2. FifoInv /\ [PlaybackNext]_playbackVars => FifoInv'
  BY FifoInductive
<1>. QED  BY <1>1, <1>2, PTL DEF PlaybackSpec

\* Whatever the portions in which the GPU takes its words (PicaGpu::tick), the
\* registers are written as the packets submitted say, in their order, for any
\* register space, any packets and any length of the fifo.
THEOREM RegistersWrittenInOrder == PlaybackSpec => []WritesInOrder
<1>1. FifoInv => WritesInOrder
  BY DEF FifoInv, WritesInOrder
<1>. QED  BY <1>1, FifoInvariant, PTL

\* All that is traced since the records were last looked at comes behind what
\* was there then.
LEMMA TracedSince ==
    ASSUME NEW trace \in Seq(RegisterWrite), NEW ws \in Seq(RegisterWrite),
           NEW last \in 0..Len(trace)
    PROVE  LET all == trace \o ws
               new == SubSeq(all, last + 1, Len(all)) IN
           /\ all \in Seq(RegisterWrite) /\ last <= Len(all) /\ Len(trace) <= Len(all)
           /\ SubSeq(trace, 1, last) \in Seq(RegisterWrite) /\ new \in Seq(RegisterWrite)
           /\ SubSeq(trace, 1, last) \o new = all
           /\ SubSeq(all, 1, Len(all)) = all
<1>. DEFINE all == trace \o ws
            n == Len(all)
            new == SubSeq(all, last + 1, n)
            old == SubSeq(trace, 1, last)
<1>1. /\ all \in Seq(RegisterWrite) /\ n = Len(trace) + Len(ws)
      /\ n \in Nat /\ Len(trace) \in Nat /\ Len(ws) \in Nat
  BY ConcatProperties
<1>2. last \in Nat /\ last <= Len(trace) /\ last <= n /\ Len(trace) <= n
  BY <1>1
<1>3. old = SubSeq(all, 1, last)
  <2>1. CASE last = 0
    <3>1. SubSeq(trace, 1, 0) = <<>> /\ SubSeq(all, 1, 0) = <<>>
      BY <1>1
    <3>. QED  BY <2>1, <3>1
  <2>2. CASE last # 0
    <3>1. 1 \in 1..Len(trace) /\ last \in 1..Len(trace)
      BY <1>1, <1>2, <2>2
    <3>. QED  BY <3>1, SubSeqOfConcat1
  <2>. QED  BY <2>1, <2>2
<1>4. old \in Seq(RegisterWrite)
  <2>1. \A i \in 1..last : trace[i] \in RegisterWrite
    BY <1>2
  <2>2. 1 \in Int /\ last \in Int
    BY <1>2
  <2>. QED  BY <2>1, <2>2, SubSeqProperties
<1>. HIDE DEF all, n
<1>5. new \in Seq(RegisterWrite)
  <2>1. \A i \in (last + 1)..n : i \in 1..n
    BY <1>1, <1>2
  <2>2. \A i \in 1..n : all[i] \in RegisterWrite
    BY <1>1 DEF n
  <2>3. last + 1 \in Int /\ n \in Int /\ \A i \in (last + 1)..n : all[i] \in RegisterWrite
    BY <1>1, <1>2, <2>1, <2>2
  <2>. QED  BY <2>3, SubSeqProperties
<1>6. SubSeq(all, 1, last) \o new = all
  <2>1. 1 \in 1..(n + 1) /\ last \in (1 - 1)..n /\ n \in last..n
    BY <1>1, <1>2
  <2>2. SubSeq(all, 1, last) \o SubSeq(all, last + 1, n) = SubSeq(all, 1, n)
    BY <1>1, <2>1, ConcatAdjacentSubSeq DEF n
  <2>. QED  BY <1>1, <2>2, SubSeqFull DEF n
<1>7. SubSeq(all, 1, n) = all
  BY <1>1, SubSeqFull DEF n
<1>8. last <= n /\ Len(trace) <= n
  BY <1>2
<1>. QED  BY <1>1, <1>3, <1>4, <1>5, <1>6, <1>7, <1>8 DEF all, n

LEMMA TraceInductive ==
    ASSUME FifoInv, TraceInv, [PlaybackNext]_playbackVars
    PROVE  TraceInv'
<1>0. gpu.trace \in Seq(RegisterWrite) /\ Len(gpu.trace) \in Nat
  BY DEF FifoInv, GpuState
<1>1. ASSUME NEW cycles, NEW swi, NEW halts, Iterate(cycles, swi, halts)
      PROVE  TraceInv'
  <2>. DEFINE writes == Decode(fifo)
              last == lastGpuTraceLen
              all == gpu.trace \o writes
              new == SubSeq(all, last + 1, Len(all))
              old == SubSeq(gpu.trace, 1, last)
  <2>1. writes \in Seq(RegisterWrite) /\ gpu'.trace = all
        /\ Consumed(gpu, fifo).trace = all
    BY <1>1, IterationRuns DEF Ran, Consumed
  <2>2. last \in 0..Len(gpu.trace) /\ gpuTrace = Latest(old, GpuTraceCap)
    BY DEF TraceInv
  <2>3. /\ all \in Seq(RegisterWrite) /\ old \in Seq(RegisterWrite)
        /\ new \in Seq(RegisterWrite) /\ old \o new = all
        /\ SubSeq(all, 1, Len(all)) = all
    BY <1>0, <2>1, <2>2, TracedSince
  <2>4. LET push(buffer, write) == RingPush(buffer, GpuTraceCap, write)
        IN  /\ gpuTrace' = FoldLeft(push, gpuTrace, new)
            /\ lastGpuTraceLen' = Len(all)
    <3>. HIDE DEF all
    <3>. QED  BY <1>1, <2>1, Zenon DEF Iterate, TraceGpu
  <2>. HIDE DEF all, new, old
  <2>5. LET push(buffer, write) == RingPush(buffer, GpuTraceCap, write)
        IN  FoldLeft(push, Latest(old, GpuTraceCap), new) = Latest(old \o new, GpuTraceCap)
    BY <2>3, FoldPushed
  <2>6. gpuTrace' = Latest(all, GpuTraceCap)
    BY <2>2, <2>3, <2>4, <2>5, Zenon
  <2>7. Len(all) \in 0..Len(all)
    BY <2>3
  <2>. QED  BY <2>1, <2>3, <2>4, <2>6, <2>7 DEF TraceInv
<1>2. CASE HostLoadRom \/ HostReset
  <2>1. gpu' = gpu /\ gpuTrace' = <<>> /\ lastGpuTraceLen' = 0
    BY <1>2 DEF HostLoadRom, HostReset, ClearDiagnostics, gpuVars
  <2>2. SubSeq(gpu.trace, 1, 0) = <<>>
    BY <1>0
  <2>3. Latest(<<>>, GpuTraceCap) = <<>>
    BY PlaybackAssumption DEF Latest
  <2>4. gpuTrace' = Latest(SubSeq(gpu'.trace, 1, lastGpuTraceLen'), GpuTraceCap)
    BY <2>1, <2>2, <2>3, Zenon
  <2>5. lastGpuTraceLen' \in 0..Len(gpu'.trace)
    BY <1>0, <2>1
  <2>. QED  BY <2>4, <2>5 DEF TraceInv
<1>3. ASSUME UNCHANGED <<gpu, diagnosticVars>>
      PROVE  TraceInv'
  BY <1>3 DEF diagnosticVars, TraceInv
<1>. QED
  BY <1>1, <1>2, <1>3
     DEF PlaybackNext, playbackVars, gpuVars, HostFeedPacket, HostFeedCut, Feed,
         HostTakeSamples, HostTakeFrameCount, HostTakeSampleCount

LEMMA TraceInvariant == PlaybackSpec => []TraceInv
<1>1. PlaybackInit => TraceInv
  <2>. SUFFICES ASSUME PlaybackInit PROVE TraceInv
    OBVIOUS
  <2>1. gpu.trace = <<>> /\ gpuTrace = <<>> /\ lastGpuTraceLen = 0
    BY DEF PlaybackInit, NewGpu
  <2>2. SubSeq(<<>>, 1, 0) = <<>> /\ Latest(<<>>, GpuTraceCap) = <<>> /\ 0 \in 0..Len(<<>>)
    BY PlaybackAssumption DEF Latest
  <2>. QED  BY <2>1, <2>2 DEF TraceInv
<1>2. FifoInv /\ TraceInv /\ [PlaybackNext]_playbackVars => TraceInv'
  BY TraceInductive
<1>. QED  BY <1>1, <1>2, FifoInvariant, PTL DEF PlaybackSpec

\* The diagnostics' GPU records are the latest writes up to where the loop has
\* looked, for any capacity of the ring, over any loads and resets (run_cycles'
\* trace loop and RingBuffer::push).
THEOREM GpuRecordsAreCurrent == PlaybackSpec => []GpuTraceCurrent
<1>1. TraceInv => GpuTraceCurrent
  BY DEF TraceInv, GpuTraceCurrent
<1>. QED  BY <1>1, TraceInvariant, PTL

LEMMA DrawsInductive ==
    ASSUME FifoInv, DrawsInv, [PlaybackNext]_playbackVars
    PROVE  DrawsInv'
<1>0. gpu.trace \in Seq(RegisterWrite) /\ Len(gpu.trace) \in Nat
  BY DEF FifoInv, GpuState
<1>1. ASSUME NEW cycles, NEW swi, NEW halts, Iterate(cycles, swi, halts)
      PROVE  DrawsInv'
  <2>. DEFINE writes == Decode(fifo)
              done == FoldLeft(Apply, gpu, writes)
              before == Cardinality(Drawn(gpu.trace, traceBase))
              after == Cardinality(Drawn(done.trace, traceBase))
  <2>1. /\ writes \in Seq(RegisterWrite) /\ done \in GpuState /\ gpu'.trace = done.trace
        /\ Len(done.trace) \in Nat
    BY <1>1, IterationRuns DEF Ran, GpuState
  <2>2. traceBase \in 0..Len(gpu.trace) /\ gpuFrameCompletions = before
        /\ gpu \in GpuState /\ gpu.events = 0 /\ traceBase \in Nat
    BY <1>0 DEF DrawsInv, FifoInv
  <2>3. /\ traceBase <= Len(done.trace)
        /\ done.events + before = gpu.events + after
    BY <2>1, <2>2, FoldReports
  <2>4. before \in Nat /\ after \in Nat /\ done.events \in Nat
    BY <1>0, <2>1, <2>2, DrawnFinite DEF GpuState
  <2>5. gpuFrameCompletions' = gpuFrameCompletions + done.events /\ traceBase' = traceBase
    BY <1>1 DEF Iterate, RunGpu, Consumed
  <2>. HIDE DEF before, after, done
  <2>6. gpuFrameCompletions' = after
    BY <2>2, <2>3, <2>4, <2>5
  <2>. QED  BY <2>1, <2>2, <2>3, <2>5, <2>6 DEF DrawsInv, after
<1>2. CASE HostReset
  <2>1. gpu' = gpu /\ gpuFrameCompletions' = 0 /\ traceBase' = Len(gpu.trace)
    BY <1>2 DEF HostReset, gpuVars
  <2>2. (Len(gpu.trace) + 1)..Len(gpu.trace) = {}
    BY <1>0
  <2>3. Drawn(gpu.trace, Len(gpu.trace)) = {}
    BY <2>2 DEF Drawn
  <2>4. Cardinality({}) = 0
    BY FS_EmptySet
  <2>. QED  BY <1>0, <2>1, <2>3, <2>4 DEF DrawsInv
<1>3. ASSUME UNCHANGED <<gpu, kernelVars>>
      PROVE  DrawsInv'
  BY <1>3 DEF kernelVars, DrawsInv
<1>. QED
  BY <1>1, <1>2, <1>3
     DEF PlaybackNext, playbackVars, gpuVars, HostLoadRom, HostFeedPacket, HostFeedCut, Feed,
         HostTakeSamples, HostTakeFrameCount, HostTakeSampleCount

LEMMA DrawsInvariant == PlaybackSpec => []DrawsInv
<1>1. PlaybackInit => DrawsInv
  <2>. SUFFICES ASSUME PlaybackInit PROVE DrawsInv
    OBVIOUS
  <2>1. gpu.trace = <<>> /\ gpuFrameCompletions = 0 /\ traceBase = 0
    BY DEF PlaybackInit, NewGpu
  <2>2. (0 + 1)..Len(<<>>) = {} /\ 0 \in 0..Len(<<>>)
    OBVIOUS
  <2>3. Drawn(<<>>, 0) = {}
    BY <2>2 DEF Drawn
  <2>4. Cardinality({}) = 0
    BY FS_EmptySet
  <2>. QED  BY <2>1, <2>2, <2>3, <2>4 DEF DrawsInv
<1>2. FifoInv /\ DrawsInv /\ [PlaybackNext]_playbackVars => DrawsInv'
  BY DrawsInductive
<1>. QED  BY <1>1, <1>2, FifoInvariant, PTL DEF PlaybackSpec

\* The kernel is signalled once for each draw since it was reset, however the
\* draws fall on the iterations (PicaGpu::take_events and
\* Kernel::signal_gpu_frame_complete).
THEOREM DrawsAreSignalled == PlaybackSpec => []CompletionsCounted
<1>1. DrawsInv => CompletionsCounted
  <2>1. Drawn(gpu.trace, traceBase)
          = {i \in (traceBase + 1)..Len(gpu.trace) :
                gpu.trace[i].reg = RegDrawTrigger /\ gpu.trace[i].value % 2 = 1}
    BY DEF Drawn, Triggers
  <2>. QED  BY <2>1, Zenon DEF DrawsInv, CompletionsCounted
<1>. QED  BY <1>1, DrawsInvariant, PTL

LEMMA ReplayInductive ==
    ASSUME FifoInv, ReplayInv, [PlaybackNext]_playbackVars
    PROVE  ReplayInv'
<1>1. ASSUME NEW cycles, NEW swi, NEW halts, Iterate(cycles, swi, halts)
      PROVE  ReplayInv'
  <2>. DEFINE writes == Decode(fifo)
              done == FoldLeft(Apply, gpu, writes)
              replayed == FoldLeft(Apply, NewGpu, gpu.trace)
              again == FoldLeft(Apply, NewGpu, gpu.trace \o writes)
  <2>1. /\ writes \in Seq(RegisterWrite) /\ gpu'.trace = gpu.trace \o writes
        /\ Alike(done, gpu')
    BY <1>1, IterationRuns DEF Ran
  <2>2. gpu \in GpuState /\ gpu.trace \in Seq(RegisterWrite)
    BY DEF FifoInv, GpuState
  <2>3. replayed \in GpuState /\ again = FoldLeft(Apply, replayed, writes)
    BY <2>1, <2>2, NewGpuTyped, FoldTyped, FoldJoin
  <2>4. Alike(replayed, gpu)
    BY DEF ReplayInv
  <2>. HIDE DEF replayed, again
  <2>5. Alike(again, done)
    BY <2>1, <2>2, <2>3, <2>4, FoldAlike
  <2>6. Alike(again, gpu')
    BY <2>1, <2>5 DEF Alike
  <2>7. again = FoldLeft(Apply, NewGpu, gpu'.trace)
    BY <2>1, Zenon DEF again
  <2>. QED  BY <2>6, <2>7, Zenon DEF ReplayInv
<1>2. CASE gpu' = gpu
  BY <1>2 DEF ReplayInv
<1>. QED
  BY <1>1, <1>2, GpuSteps DEF gpuVars, HostFeedPacket, HostFeedCut, Feed

\* A GPU's trace holds all there is to know of it: its writes, one packet for
\* each, bring a new GPU to the same registers, the same screen and the same
\* trace (PicaGpu::apply_register_write and command_trace).
THEOREM TraceReplays == PlaybackSpec => []ReplayFaithful
<1>1. PlaybackInit => ReplayInv
  <2>. SUFFICES ASSUME PlaybackInit PROVE ReplayInv
    OBVIOUS
  <2>1. gpu = NewGpu /\ gpu.trace = <<>> /\ <<>> \in Seq(RegisterWrite)
    BY DEF PlaybackInit, NewGpu
  <2>2. FoldLeft(Apply, NewGpu, <<>>) = NewGpu
    <3>1. PICK F : AppliedFrom(F, NewGpu, <<>>) /\ FoldLeft(Apply, NewGpu, <<>>) = F[Len(<<>>)]
      BY <2>1, NewGpuTyped, AppliedExists
    <3>. QED  BY <3>1 DEF AppliedFrom
  <2>. QED  BY <2>1, <2>2 DEF ReplayInv, Alike
<1>2. FifoInv /\ ReplayInv /\ [PlaybackNext]_playbackVars => ReplayInv'
  BY ReplayInductive
<1>3. ASSUME FifoInv, ReplayInv
      PROVE  ReplayFaithful
  <2>. DEFINE words == FlattenSeq([i \in DOMAIN gpu.trace |-> Plain(gpu.trace[i])])
              replayed == FoldLeft(Apply, NewGpu, gpu.trace)
  <2>1. gpu \in GpuState /\ gpu.events = 0 /\ gpu.trace \in Seq(RegisterWrite)
    BY <1>3 DEF FifoInv, GpuState
  <2>2. Decode(words) = gpu.trace
    BY <2>1, TraceDecodes
  <2>3. replayed \in GpuState /\ replayed.trace = NewGpu.trace \o gpu.trace
    BY <2>1, NewGpuTyped, FoldTyped, FoldTraces
  <2>4. NewGpu.trace \o gpu.trace = gpu.trace
    BY <2>1, ConcatEmptySeq DEF NewGpu
  <2>5. Alike(replayed, gpu)
    BY <1>3 DEF ReplayInv
  <2>6. Consumed(NewGpu, words) = replayed
    <3>. HIDE DEF words
    <3>. QED  BY <2>2 DEF Consumed
  <2>. HIDE DEF replayed, words
  <2>7. [replayed EXCEPT !.events = 0] = gpu
    BY <2>1, <2>3, <2>4, <2>5 DEF Alike, GpuState
  <2>8. [Consumed(NewGpu, words) EXCEPT !.events = 0] = gpu
    BY <2>6, <2>7
  <2>. QED  BY <2>8, Zenon DEF ReplayFaithful, words, Plain
<1>. QED  BY <1>1, <1>2, <1>3, FifoInvariant, PTL DEF PlaybackSpec

-----------------------------------------------------------------------------
(* Types *)

Phases == 0..(Wave - 1)

\* What the invariants above leave out.
FlagInv ==
    /\ romLoaded \in BOOLEAN /\ serviceCalled \in BOOLEAN
    /\ samples \in Seq(Phases)

LEMMA LatestTyped ==
    ASSUME NEW S, NEW s \in Seq(S), NEW n \in Nat
    PROVE  Latest(s, n) \in Seq(S)
<1>1. CASE Len(s) <= n
  BY <1>1 DEF Latest
<1>2. CASE ~(Len(s) <= n)
  <2>1. Len(s) - n + 1 \in Int /\ Len(s) \in Int
        /\ \A i \in (Len(s) - n + 1)..Len(s) : s[i] \in S
    BY <1>2
  <2>2. SubSeq(s, Len(s) - n + 1, Len(s)) \in Seq(S)
    BY <2>1, SubSeqProperties
  <2>. QED  BY <1>2, <2>2 DEF Latest
<1>. QED  BY <1>1, <1>2

LEMMA FlagStep ==
    ASSUME PacingInv, SampleInv, FlagInv, [PlaybackNext]_playbackVars
    PROVE  FlagInv'
<1>1. ASSUME NEW cycles \in 1..MaxCost, NEW swi \in BOOLEAN, NEW halts \in BOOLEAN,
             Iterate(cycles, swi, halts)
      PROVE  FlagInv'
  <2>. DEFINE n == SamplesIn(cycles)
              made == [i \in 1..n |-> (dspPhase + i - 1) % Wave]
  <2>1. cycles \in Nat
    BY TimingAssumption
  <2>2. n \in Nat /\ dspPhase \in Nat /\ Wave \in Nat \ {0}
    BY <2>1, UnitsNat, PlaybackAssumption DEF SampleInv
  <2>3. samples' = Latest(samples \o made, MaxBufferedSamples)
    BY <1>1 DEF Iterate, ProduceSamples, Buffered
  <2>4. romLoaded' \in BOOLEAN /\ serviceCalled' \in BOOLEAN
    <3>1. romLoaded' = romLoaded /\ serviceCalled' = swi
      BY <1>1 DEF Iterate
    <3>. QED  BY <3>1, Zenon DEF FlagInv
  <2>. HIDE DEF n
  <2>5. ASSUME NEW i \in 1..n
        PROVE  (dspPhase + i - 1) % Wave \in Phases
    <3>1. dspPhase + i - 1 \in Nat
      BY <2>2
    <3>. QED  BY <2>2, <3>1, DivMod DEF Phases
  <2>6. made \in Seq(Phases)
    BY <2>2, <2>5
  <2>. HIDE DEF made
  <2>7. samples \o made \in Seq(Phases)
    BY <2>6, ConcatProperties DEF FlagInv
  <2>8. samples' \in Seq(Phases)
    BY <2>3, <2>7, LatestTyped, PlaybackAssumption
  <2>. QED  BY <2>4, <2>8, Zenon DEF FlagInv, Phases
<1>2. CASE HostLoadRom \/ HostReset
  <2>1. romLoaded' \in BOOLEAN /\ serviceCalled' \in BOOLEAN
    BY <1>2, Zenon DEF HostLoadRom, HostReset, kernelVars, FlagInv
  <2>2. samples' = samples
    BY <1>2 DEF HostLoadRom, HostReset, dspVars
  <2>. QED  BY <2>1, <2>2, Zenon DEF FlagInv, Phases
<1>3. CASE HostTakeSamples
  <2>1. romLoaded' = romLoaded /\ serviceCalled' = serviceCalled /\ samples' = <<>>
    BY <1>3 DEF HostTakeSamples, kernelVars
  <2>2. <<>> \in Seq(Phases)
    OBVIOUS
  <2>. QED  BY <2>1, <2>2, Zenon DEF FlagInv, Phases
<1>4. CASE UNCHANGED <<romLoaded, serviceCalled, samples>>
  <2>1. romLoaded' = romLoaded /\ serviceCalled' = serviceCalled /\ samples' = samples
    BY <1>4
  <2>. QED  BY <2>1, Zenon DEF FlagInv, Phases
<1>. QED
  BY <1>1, <1>2, <1>3, <1>4
     DEF PlaybackNext, playbackVars, kernelVars, dspVars, HostFeedPacket, HostFeedCut, Feed,
         HostTakeFrameCount, HostTakeSampleCount

LEMMA FlagInvariant == PlaybackSpec => []FlagInv
<1>1. PlaybackInit => FlagInv
  <2>. SUFFICES ASSUME PlaybackInit PROVE FlagInv
    OBVIOUS
  <2>1. romLoaded \in BOOLEAN /\ serviceCalled \in BOOLEAN
    BY Zenon DEF PlaybackInit
  <2>2. samples \in Seq(Phases)
    BY DEF PlaybackInit
  <2>. QED  BY <2>1, <2>2 DEF FlagInv
<1>2. PacingInv /\ SampleInv /\ FlagInv /\ [PlaybackNext]_playbackVars => FlagInv'
  BY FlagStep
<1>. QED  BY <1>1, <1>2, PacingInvariant, SampleInvariant, PTL DEF PlaybackSpec

\* Every variable of run_cycles' counters, traces, samples and profile keeps
\* its type, for any packets, sizes and clock rates: no counter goes below
\* zero, no phase leaves its unit, and the GPU has no event left between
\* iterations.
THEOREM PlaybackTypes == PlaybackSpec => []PlaybackTypeOK
<1>. DEFINE All == /\ PacingInv /\ BlankInv /\ CallbackInv /\ SampleInv /\ ProfileInv
                   /\ FifoInv /\ TraceInv /\ DrawsInv /\ FlagInv
<1>1. ASSUME All
      PROVE  PlaybackTypeOK
  <2>1. /\ {cpuCycles, audioSamplesDue, videoFramesDue} \subseteq Nat
        /\ {audioPhase, videoPhase} \subseteq 0..(CpuHz - 1)
    BY <1>1 DEF PacingInv, Clock
  <2>2. topVBlankCount \in Nat /\ bottomVBlankCount \in Nat
    <3>1. \A screen : cpuCycles + Lead(screen) + Blanking \in Nat
      BY <2>1, FrameShape
    <3>2. \A screen : Begun(screen, cpuCycles) \in Nat
      BY <3>1, FrameShape, DivMod DEF Begun
    <3>. QED  BY <1>1, <3>2 DEF BlankInv
  <2>3. {frameCallbacks, audioCallbacks, framesTaken, samplesTaken} \subseteq Nat
    BY <1>1 DEF CallbackInv
  <2>4. gpu.trace \in Seq(RegisterWrite) /\ Len(gpu.trace) \in Nat /\ gpu.events = 0
    BY <1>1 DEF FifoInv, GpuState
  <2>5. lastGpuTraceLen \in Nat /\ traceBase \in Nat
    BY <1>1, <2>4 DEF TraceInv, DrawsInv
  <2>6. gpuFrameCompletions \in Nat
    BY <1>1, <2>4, <2>5, DrawnFinite DEF DrawsInv
  <2>7. romLoaded \in BOOLEAN /\ serviceCalled \in BOOLEAN /\ whole \in BOOLEAN
    BY <1>1, Zenon DEF FlagInv, FifoInv
  <2>8. RegisterWrite \subseteq Write
    BY PicaAssumption DEF RegisterWrite, Write
  <2>9. gpuTrace \in Seq(RegisterWrite)
    <3>1. SubSeq(gpu.trace, 1, lastGpuTraceLen) \in Seq(RegisterWrite)
      <4>1. \A i \in 1..lastGpuTraceLen : gpu.trace[i] \in RegisterWrite
        BY <1>1, <2>4 DEF TraceInv
      <4>2. 1 \in Int /\ lastGpuTraceLen \in Int
        BY <2>5
      <4>. QED  BY <4>1, <4>2, SubSeqProperties
    <3>. QED  BY <1>1, <3>1, LatestTyped, PlaybackAssumption DEF TraceInv
  <2>10. \A s \in Seq(RegisterWrite) : s \in Seq(Write)
    BY <2>8
  <2>11. gpu.trace \in Seq(Write) /\ gpuTrace \in Seq(Write) /\ submitted \in Seq(Write)
    <3>1. submitted \in Seq(RegisterWrite)
      BY <1>1 DEF FifoInv
    <3>. QED  BY <2>4, <2>9, <2>10, <3>1
  <2>12. dspPhase \in 0..(Wave - 1) /\ samples \in Seq(0..(Wave - 1))
    BY <1>1 DEF SampleInv, FlagInv, Phases
  <2>13. profile.observed \in Seq(Checkpoints) /\ profile.divergence \in Nat
    <3>1. GoodProfile(profile)
      BY <1>1 DEF ProfileInv
    <3>. QED  BY <3>1 DEF GoodProfile, NoDivergence
  <2>14. fifo \in Seq(Nat)
    BY <1>1 DEF FifoInv
  <2>15. {cpuCycles, audioSamplesDue, videoFramesDue, topVBlankCount, bottomVBlankCount,
          frameCallbacks, audioCallbacks, framesTaken, samplesTaken, gpuFrameCompletions,
          lastGpuTraceLen, traceBase} \subseteq Nat
    BY <2>1, <2>2, <2>3, <2>5, <2>6
  <2>16. {romLoaded, serviceCalled, whole} \subseteq BOOLEAN
    BY <2>7, Zenon
  <2>. QED  BY <2>1, <2>4, <2>11, <2>12, <2>13, <2>14, <2>15, <2>16, Zenon DEF PlaybackTypeOK
<1>2. PlaybackSpec => []All
  BY PacingInvariant, BlankInvariant, CallbackInvariant, SampleInvariant, ProfileInvariant,
     FifoInvariant, TraceInvariant, DrawsInvariant, FlagInvariant, PTL
<1>. QED  BY <1>1, <1>2, PTL

=============================================================================
