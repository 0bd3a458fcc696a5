----------------------------- MODULE Diagnostics ----------------------------
(***************************************************************************)
(* Operators on the ring buffers and the boot profiler of                  *)
(* src/src/core/diagnostics.rs.  The cycle of a record is left out.        *)
(***************************************************************************)
EXTENDS Naturals, Sequences

\* RingBuffer::push
RingPush(buffer, capacity, value) ==
    IF capacity = 0 THEN buffer
    ELSE Append(IF Len(buffer) = capacity THEN Tail(buffer) ELSE buffer, value)

\* The order BootCheckpointProfiler::new expects.
Expected ==
    <<"RomLoaded", "FirstInstruction", "FirstServiceCall", "FirstIpcDispatch",
      "FirstGpuCommand", "FirstFramePresent">>

Checkpoints == {Expected[i] : i \in DOMAIN Expected} \cup {"CpuHalted"}

NoDivergence == 0
NewProfile == [observed |-> <<>>, divergence |-> NoDivergence]

\* Is the checkpoint out of place at this index (from 1)?
OutOfPlace(index, checkpoint) == index > Len(Expected) \/ Expected[index] # checkpoint

\* Mutation of Mark: a later divergence replaces the first.
MarkLast(profile, checkpoint) ==
    LET index == Len(profile.observed) + 1 IN
    IF \E i \in DOMAIN profile.observed : profile.observed[i] = checkpoint
    THEN profile
    ELSE [observed |-> Append(profile.observed, checkpoint),
          divergence |-> IF OutOfPlace(index, checkpoint) THEN index ELSE profile.divergence]

\* BootCheckpointProfiler::mark
Mark(profile, checkpoint) ==
    LET index == Len(profile.observed) + 1 IN
    IF \E i \in DOMAIN profile.observed : profile.observed[i] = checkpoint
    THEN profile
    ELSE [observed |-> Append(profile.observed, checkpoint),
          divergence |-> IF profile.divergence = NoDivergence /\ OutOfPlace(index, checkpoint)
                         THEN index ELSE profile.divergence]

MarkIf(reached, profile, checkpoint) ==
    IF reached THEN Mark(profile, checkpoint) ELSE profile

=============================================================================
