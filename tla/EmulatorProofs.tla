--------------------------- MODULE EmulatorProofs ---------------------------
(***************************************************************************)
(* Proofs about Emulator, for any number of channels and transfers, any    *)
(* periods and any costs: the event queue is well formed and drained in    *)
(* time, every timer, transfer and wake has its event, wakes do not pile   *)
(* up, and the loop drives the kernel by the kernel's own steps.           *)
(***************************************************************************)
EXTENDS Emulator, KernelProofs, FiniteSetTheorems, WellFoundedInduction

-----------------------------------------------------------------------------
(* The operators of Scheduler *)

LEMMA Smallest ==
    ASSUME NEW S, S \subseteq Nat, S # {}
    PROVE  \E x \in S : \A y \in S : x <= y
  <1>. DEFINE Less == {ss \in Nat \X Nat : ss[1] < ss[2]}
  <1>1. IsWellFoundedOn(Less, Nat)
    BY NatLessThanWellFounded, Zenon DEF OpToRel
  <1>2. \A x, y \in Nat : <<y, x>> \notin Less => x <= y
    OBVIOUS
  <1>. HIDE DEF Less
  <1>3. PICK x \in S : \A y \in S : <<y, x>> \notin Less
    BY <1>1, WFMin, Zenon
  <1>. QED
    BY <1>2, <1>3

SameTime(q, t) == {e \in q : e.in = t}

\* Entries due at the same cycle are told apart by their ranks.
Distinct(q) == \A e, f \in q : e.in = f.in /\ e.rank = f.rank => e = f

\* ... which number them from 0, so that the next one is free.
Ranked(q) ==
    /\ IsFiniteSet(q)
    /\ Distinct(q)
    /\ \A e \in q : e.rank < Cardinality(SameTime(q, e.in))

LEMMA SameTimeFinite ==
    ASSUME NEW q, IsFiniteSet(q), NEW t
    PROVE  IsFiniteSet(SameTime(q, t)) /\ Cardinality(SameTime(q, t)) \in Nat
  <1>1. SameTime(q, t) \in SUBSET q
    BY DEF SameTime
  <1>2. IsFiniteSet(SameTime(q, t))
    BY <1>1, FS_Subset
  <1>. QED
    BY <1>2, FS_CardinalityType

\* schedule_in adds an entry that was not there, and keeps the queue ranked.
LEMMA ScheduleAdds ==
    ASSUME NEW q \in SUBSET Entries, Ranked(q), NEW delay \in Int, NEW event \in DeviceEvents
    PROVE  \E new \in Entries :
              /\ new \notin q /\ new.in = delay /\ new.event = event
              /\ ScheduleIn(q, delay, event) = q \cup {new}
              /\ Ranked(q \cup {new})
  <1>. DEFINE rank == Cardinality(SameTime(q, delay))
              new == [in |-> delay, rank |-> rank, event |-> event]
              r == q \cup {new}
  <1>1. rank \in Nat /\ IsFiniteSet(SameTime(q, delay))
    BY SameTimeFinite DEF Ranked
  <1>2. new \in Entries /\ new.in = delay /\ new.event = event /\ new.rank = rank
    BY <1>1 DEF Entries
  <1>3. \A e \in q : e.in = delay => e.rank \in Nat /\ e.rank < rank
    BY DEF Ranked, Entries
  <1>4. new \notin q
    BY <1>1, <1>2, <1>3
  <1>5. ScheduleIn(q, delay, event) = r
    BY DEF ScheduleIn, SameTime
  <1>. HIDE DEF new
  <1>6. SameTime(r, delay) = SameTime(q, delay) \cup {new}
    BY <1>2 DEF SameTime
  <1>7. new \notin SameTime(q, delay)
    BY <1>4 DEF SameTime
  <1>8. Cardinality(SameTime(r, delay)) = rank + 1
    BY <1>1, <1>6, <1>7, FS_AddElement
  <1>9. \A t : t # delay => SameTime(r, t) = SameTime(q, t)
    BY <1>2 DEF SameTime
  <1>10. IsFiniteSet(r)
    BY FS_AddElement DEF Ranked
  <1>11. Distinct(r)
    <2>. SUFFICES ASSUME NEW e \in r, NEW f \in r, e.in = f.in, e.rank = f.rank
                  PROVE  e = f
      BY DEF Distinct
    <2>1. CASE e \in q /\ f \in q
      BY <2>1 DEF Ranked, Distinct
    <2>2. CASE e = new \/ f = new
      BY <2>2, <1>1, <1>2, <1>3
    <2>. QED
      BY <2>1, <2>2
  <1>12. \A e \in r : e.rank < Cardinality(SameTime(r, e.in))
    <2>. SUFFICES ASSUME NEW e \in r
                  PROVE  e.rank < Cardinality(SameTime(r, e.in))
      OBVIOUS
    <2>1. CASE e.in = delay
      <3>1. e.rank \in Nat /\ e.rank <= rank
        BY <2>1, <1>1, <1>2, <1>3
      <3>. QED
        BY <3>1, <2>1, <1>1, <1>8
    <2>2. CASE e.in # delay
      BY <2>2, <1>2, <1>9 DEF Ranked
    <2>. QED
      BY <2>1, <2>2
  <1>. QED
    BY <1>2, <1>4, <1>5, <1>10, <1>11, <1>12 DEF Ranked

Later(e, cycles) == [e EXCEPT !.in = @ - cycles]

LEMMA LaterEntry ==
    ASSUME NEW e \in Entries, NEW cycles \in Int
    PROVE  /\ Later(e, cycles) \in Entries
           /\ Later(e, cycles).in = e.in - cycles
           /\ Later(e, cycles).rank = e.rank /\ Later(e, cycles).event = e.event
           /\ \A f \in Entries : Later(f, cycles) = Later(e, cycles) => f = e
  <1>1. \A f \in Entries : f = [in |-> f.in, rank |-> f.rank, event |-> f.event] /\ f.in \in Int
    BY DEF Entries
  <1>2. \A f \in Entries :
            Later(f, cycles) = [in |-> f.in - cycles, rank |-> f.rank, event |-> f.event]
    BY <1>1 DEF Later, Entries
  <1>3. Later(e, cycles) \in Entries
    BY <1>2 DEF Entries
  <1>4. ASSUME NEW f \in Entries, Later(f, cycles) = Later(e, cycles)
        PROVE  f = e
    <2>1. f.in - cycles = e.in - cycles /\ f.rank = e.rank /\ f.event = e.event
      BY <1>2, <1>4
    <2>2. f.in = e.in
      BY <2>1, <1>1
    <2>. QED
      BY <1>1, <2>1, <2>2
  <1>. QED
    BY <1>2, <1>3, <1>4

LEMMA ElapseIs ==
    ASSUME NEW q, NEW cycles
    PROVE  Elapse(q, cycles) = {Later(e, cycles) : e \in q}
  BY DEF Elapse, Later

\* Time passes for all entries alike: as many as before, of each kind.
LEMMA ElapseCounts ==
    ASSUME NEW q \in SUBSET Entries, IsFiniteSet(q), NEW cycles \in Int
    PROVE  /\ IsFiniteSet(Elapse(q, cycles))
           /\ Cardinality(Elapse(q, cycles)) = Cardinality(q)
  <1>. DEFINE T == Elapse(q, cycles)
              f == [e \in q |-> Later(e, cycles)]
  <1>1. f \in [q -> T]
    BY ElapseIs
  <1>2. \A a, b \in q : f[a] = f[b] => a = b
    BY LaterEntry
  <1>3. \A t \in T : \E s \in q : f[s] = t
    BY ElapseIs
  <1>. HIDE DEF T, f
  <1>4. f \in Injection(q, T)
    BY <1>1, <1>2 DEF Injection, IsInjective
  <1>5. f \in Surjection(q, T)
    BY <1>1, <1>3 DEF Surjection
  <1>6. ExistsBijection(q, T)
    BY <1>4, <1>5 DEF ExistsBijection, Bijection
  <1>7. IsFiniteSet(T) /\ Cardinality(T) = Cardinality(q)
    BY <1>6, FS_Bijection
  <1>. QED
    BY <1>7 DEF T

LEMMA ElapseSelects ==
    ASSUME NEW q \in SUBSET Entries, NEW cycles \in Int
    PROVE  /\ Elapse(q, cycles) \in SUBSET Entries
           /\ \A event : Waiting(Elapse(q, cycles), event) = Elapse(Waiting(q, event), cycles)
           /\ \A t \in Int : SameTime(Elapse(q, cycles), t - cycles)
                                 = Elapse(SameTime(q, t), cycles)
  <1>1. \A e \in q : /\ Later(e, cycles) \in Entries
                     /\ Later(e, cycles).in = e.in - cycles
                     /\ Later(e, cycles).event = e.event
                     /\ e.in \in Int
    BY LaterEntry DEF Entries
  <1>2. Elapse(q, cycles) \in SUBSET Entries
    BY <1>1, ElapseIs
  <1>3. ASSUME NEW event
        PROVE  Waiting(Elapse(q, cycles), event) = Elapse(Waiting(q, event), cycles)
    BY <1>1, ElapseIs DEF Waiting
  <1>4. ASSUME NEW t \in Int
        PROVE  SameTime(Elapse(q, cycles), t - cycles) = Elapse(SameTime(q, t), cycles)
    <2>1. \A e \in q : e.in - cycles = t - cycles <=> e.in = t
      BY <1>1
    <2>. QED
      BY <1>1, <2>1, ElapseIs DEF SameTime
  <1>. QED
    BY <1>2, <1>3, <1>4

LEMMA ElapseRanked ==
    ASSUME NEW q \in SUBSET Entries, Ranked(q), NEW cycles \in Int
    PROVE  Ranked(Elapse(q, cycles))
  <1>. DEFINE r == Elapse(q, cycles)
  <1>1. IsFiniteSet(r)
    BY ElapseCounts DEF Ranked
  <1>2. \A e \in r : \E f \in q : e = Later(f, cycles) /\ e.in = f.in - cycles /\ e.rank = f.rank
    BY ElapseIs, LaterEntry
  <1>3. Distinct(r)
    <2>. SUFFICES ASSUME NEW a \in r, NEW b \in r, a.in = b.in, a.rank = b.rank
                  PROVE  a = b
      BY DEF Distinct
    <2>1. PICK e \in q : a = Later(e, cycles) /\ a.in = e.in - cycles /\ a.rank = e.rank
      BY <1>2
    <2>2. PICK f \in q : b = Later(f, cycles) /\ b.in = f.in - cycles /\ b.rank = f.rank
      BY <1>2
    <2>3. e.in = f.in /\ e.rank = f.rank
      BY <2>1, <2>2 DEF Entries
    <2>. QED
      BY <2>1, <2>2, <2>3 DEF Ranked, Distinct
  <1>4. ASSUME NEW a \in r PROVE a.rank < Cardinality(SameTime(r, a.in))
    <2>1. PICK e \in q : a = Later(e, cycles) /\ a.in = e.in - cycles /\ a.rank = e.rank
      BY <1>2
    <2>2. e.in \in Int /\ SameTime(q, e.in) \in SUBSET Entries /\ IsFiniteSet(SameTime(q, e.in))
      BY SameTimeFinite DEF Entries, SameTime, Ranked
    <2>3. SameTime(Elapse(q, cycles), e.in - cycles) = Elapse(SameTime(q, e.in), cycles)
      BY <2>2, ElapseSelects, Zenon
    <2>4. Cardinality(SameTime(r, a.in)) = Cardinality(SameTime(q, e.in))
      BY <2>1, <2>2, <2>3, ElapseCounts
    <2>. QED
      BY <2>1, <2>4 DEF Ranked
  <1>. QED
    BY <1>1, <1>3, <1>4 DEF Ranked

\* drain_due_events takes out whole cycles, so that what stays is ranked.
LEMMA DrainRanked ==
    ASSUME NEW q \in SUBSET Entries, Ranked(q)
    PROVE  /\ Ranked(q \ Due(q))
           /\ IsFiniteSet(Due(q)) /\ Distinct(Due(q))
  <1>1. q \ Due(q) \in SUBSET q /\ Due(q) \in SUBSET q
    BY DEF Due
  <1>2. IsFiniteSet(q \ Due(q)) /\ IsFiniteSet(Due(q))
    BY <1>1, FS_Subset DEF Ranked
  <1>3. Distinct(q \ Due(q)) /\ Distinct(Due(q))
    BY <1>1 DEF Ranked, Distinct
  <1>4. \A e \in q \ Due(q) : SameTime(q \ Due(q), e.in) = SameTime(q, e.in)
    BY DEF Due, SameTime
  <1>. QED
    BY <1>1, <1>2, <1>3, <1>4 DEF Ranked

\* The first entry of a batch, by cycle, priority and rank, is one of it.
LEMMA FirstInBatch ==
    ASSUME NEW b \in SUBSET Entries, Distinct(b), b # {},
           NEW low \in Int, \A e \in b : e.in >= low
    PROVE  First(b) \in b
  <1>1. \A e \in b : /\ e.in \in Int /\ e.rank \in Nat /\ Priority(e.event) \in 0..3
                     /\ e.in - low \in Nat
    BY DEF Entries, DeviceEvents, Priority, TimerExpiry, VBlank, DmaCompletion, ServiceWake
  <1>2. PICK t \in {e.in - low : e \in b} : \A u \in {e.in - low : e \in b} : t <= u
    <2>1. {e.in - low : e \in b} \subseteq Nat /\ {e.in - low : e \in b} # {}
      BY <1>1
    <2>. QED
      BY <2>1, Smallest
  <1>. DEFINE now == {e \in b : e.in - low = t}
  <1>3. PICK p \in {Priority(e.event) : e \in now} : \A u \in {Priority(e.event) : e \in now} : p <= u
    <2>1. {Priority(e.event) : e \in now} \subseteq Nat /\ {Priority(e.event) : e \in now} # {}
      BY <1>1, <1>2
    <2>. QED
      BY <2>1, Smallest
  <1>. DEFINE urgent == {e \in now : Priority(e.event) = p}
  <1>4. PICK r \in {e.rank : e \in urgent} : \A u \in {e.rank : e \in urgent} : r <= u
    <2>1. {e.rank : e \in urgent} \subseteq Nat /\ {e.rank : e \in urgent} # {}
      BY <1>1, <1>3
    <2>. QED
      BY <2>1, Smallest
  <1>5. PICK first \in urgent : first.rank = r
    BY <1>4
  <1>6. ASSUME NEW f \in b \ {first}
        PROVE  Before(first, f)
    <2>1. first \in b /\ first.in - low = t /\ Priority(first.event) = p
      BY <1>5
    <2>2. first.in < f.in \/ first.in = f.in
      <3>1. first.in - low <= f.in - low
        BY <2>1, <1>2
      <3>2. first.in \in Int /\ f.in \in Int
        BY <2>1, <1>1
      <3>. QED
        BY <3>1, <3>2
    <2>3. CASE first.in = f.in
      <3>1. f \in now
        BY <2>1, <2>3
      <3>2. Priority(first.event) < Priority(f.event) \/ Priority(first.event) = Priority(f.event)
        <4>1. Priority(first.event) <= Priority(f.event)
          BY <3>1, <2>1, <1>3
        <4>2. Priority(first.event) \in Int /\ Priority(f.event) \in Int
          BY <2>1, <1>1
        <4>. QED
          BY <4>1, <4>2
      <3>3. CASE Priority(first.event) = Priority(f.event)
        <4>1. f \in urgent
          BY <3>1, <3>3, <2>1
        <4>2. r <= f.rank
          BY <4>1, <1>4
        <4>3. first.rank # f.rank
          BY <2>1, <2>3 DEF Distinct
        <4>4. first.rank \in Nat /\ f.rank \in Nat /\ first.rank = r
          BY <2>1, <1>1, <1>5
        <4>5. first.rank < f.rank
          BY <4>2, <4>3, <4>4
        <4>. QED
          BY <4>5, <3>3, <2>3 DEF Before
      <3>. QED
        BY <3>2, <3>3, <2>3 DEF Before
    <2>. QED
      BY <2>2, <2>3 DEF Before
  <1>7. \E e \in b : \A f \in b \ {e} : Before(e, f)
    BY <1>5, <1>6
  <1>. QED
    BY <1>7 DEF First

LEMMA WaitingFinite ==
    ASSUME NEW q, IsFiniteSet(q), NEW event
    PROVE  IsFiniteSet(Waiting(q, event)) /\ Cardinality(Waiting(q, event)) \in Nat
  <1>1. Waiting(q, event) \in SUBSET q
    BY DEF Waiting
  <1>2. IsFiniteSet(Waiting(q, event))
    BY <1>1, FS_Subset
  <1>. QED
    BY <1>2, FS_CardinalityType

LEMMA WaitingAdd ==
    ASSUME NEW q, IsFiniteSet(q), NEW e, e \notin q, NEW event
    PROVE  Cardinality(Waiting(q \cup {e}, event))
              = Cardinality(Waiting(q, event)) + (IF e.event = event THEN 1 ELSE 0)
  <1>1. IsFiniteSet(Waiting(q, event)) /\ Cardinality(Waiting(q, event)) \in Nat
    BY WaitingFinite
  <1>2. CASE e.event = event
    <2>1. Waiting(q \cup {e}, event) = Waiting(q, event) \cup {e} /\ e \notin Waiting(q, event)
      BY <1>2 DEF Waiting
    <2>. QED
      BY <1>1, <1>2, <2>1, FS_AddElement
  <1>3. CASE e.event # event
    <2>1. Waiting(q \cup {e}, event) = Waiting(q, event)
      BY <1>3 DEF Waiting
    <2>. QED
      BY <1>1, <1>3, <2>1
  <1>. QED
    BY <1>2, <1>3

LEMMA WaitingRemove ==
    ASSUME NEW q, IsFiniteSet(q), NEW e \in q, NEW event
    PROVE  Cardinality(Waiting(q \ {e}, event))
              = Cardinality(Waiting(q, event)) - (IF e.event = event THEN 1 ELSE 0)
  <1>1. IsFiniteSet(Waiting(q, event)) /\ Cardinality(Waiting(q, event)) \in Nat
    BY WaitingFinite
  <1>2. CASE e.event = event
    <2>1. Waiting(q \ {e}, event) = Waiting(q, event) \ {e} /\ e \in Waiting(q, event)
      BY <1>2 DEF Waiting
    <2>. QED
      BY <1>1, <1>2, <2>1, FS_RemoveElement
  <1>3. CASE e.event # event
    <2>1. Waiting(q \ {e}, event) = Waiting(q, event)
      BY <1>3 DEF Waiting
    <2>. QED
      BY <1>1, <1>3, <2>1
  <1>. QED
    BY <1>2, <1>3

-----------------------------------------------------------------------------
(* The kernel's part *)

\* The loop's steps are the kernel's, or leave it alone.
LEMMA KernelSteps ==
    ASSUME EmuTypeOK, [EmuNext]_emuVars
    PROVE  [Next]_vars
  <1>1. CASE UNCHANGED emuVars
    BY <1>1 DEF emuVars, kernelVars
  <1>2. CASE HostLoadRom
    BY <1>2 DEF HostLoadRom, Next
  <1>3. CASE HostReset
    BY <1>3 DEF HostReset, Next
  <1>4. CASE Report
    BY <1>4 DEF Report, Next, kernelVars
  <1>5. CASE Handle
    <2>1. CASE UNCHANGED vars
      BY <2>1
    <2>2. CASE \E p \in Pids : SchedulerWake(p)
      BY <2>2 DEF Next
    <2>3. UNCHANGED vars \/ \E p \in Pids : SchedulerWake(p)
      BY <1>5 DEF Handle, HandleTimer, HandleVBlank, HandleDma, HandleWake, kernelVars
    <2>. QED
      BY <2>1, <2>2, <2>3
  <1>6. CASE DispatchSwi
    <2>1. lastSvc \in SwiNumbers /\ HandleSwi(lastSvc)
      BY <1>6 DEF DispatchSwi, EmuTypeOK
    <2>. QED
      BY <2>1 DEF Next
  <1>7. CASE TakeWakes
    BY <1>7 DEF TakeWakes, Next, kernelVars
  <1>8. CASE HostFeedGpu \/ HostRun \/ EnterIrq \/ SkipIrq \/ Drain \/ Handled \/ Gpu
             \/ SkipSwi \/ End
    BY <1>8 DEF HostFeedGpu, HostRun, EnterIrq, SkipIrq, Drain, Handled, Gpu, SkipSwi, End,
                kernelVars
  <1>9. CASE StepHalted \/ StepPlain \/ StepWfi \/ StepTrap \/ \E imm \in SwiNumbers : StepSwi(imm)
    BY <1>9 DEF StepHalted, StepPlain, StepWfi, StepTrap, StepSwi, Cost, kernelVars
  <1>10. ASSUME NEW c \in DmaChannels, NEW kind \in Kinds, NEW words \in TransferWords,
                HostQueueDma(c, kind, words)
         PROVE  UNCHANGED vars
    BY <1>10 DEF HostQueueDma, kernelVars
  <1>. QED
    BY <1>1, <1>2, <1>3, <1>4, <1>5, <1>6, <1>7, <1>8, <1>9, <1>10 DEF EmuNext, Iteration

-----------------------------------------------------------------------------
(* The event queue through an iteration *)

\* Every variable of the loop but the queue and the batch.
DeviceType ==
    /\ phase \in Phases
    /\ romLoaded \in BOOLEAN
    /\ irq \subseteq Lines
    /\ inFlight \in [DmaChannels -> Seq(Kinds)]
    /\ fifo \in BOOLEAN /\ masked \in BOOLEAN /\ halted \in BOOLEAN
    /\ lastSvc \in SwiNumbers \cup {NoSvc}
    /\ fault \in BOOLEAN /\ svcFresh \in BOOLEAN

\* The queue and the batch: typed, their entries told apart by cycle and rank,
\* and handled in time.  Ranked and Distinct are what makes First meaningful;
\* that no entry is overdue by MaxCost holds also before a drain.
EventInv ==
    /\ queue \in SUBSET Entries /\ batch \in SUBSET Entries
    /\ Ranked(queue)
    /\ IsFiniteSet(batch) /\ Distinct(batch)
    /\ \A e \in queue : e.in > -MaxCost
    /\ Punctual

LEMMA EmuTypeParts == DeviceType /\ EventInv => EmuTypeOK
  BY DEF DeviceType, EventInv, EmuTypeOK

LEMMA TransferSeqs ==
    ASSUME NEW c \in DmaChannels, inFlight \in [DmaChannels -> Seq(Kinds)]
    PROVE  /\ \A kind \in Kinds :
                 [inFlight EXCEPT ![c] = Append(@, kind)] \in [DmaChannels -> Seq(Kinds)]
           /\ inFlight[c] # <<>> =>
                 [inFlight EXCEPT ![c] = Tail(@)] \in [DmaChannels -> Seq(Kinds)]
  <1>1. inFlight[c] \in Seq(Kinds)
    OBVIOUS
  <1>2. \A kind \in Kinds : Append(inFlight[c], kind) \in Seq(Kinds)
    BY <1>1
  <1>3. inFlight[c] # <<>> => Tail(inFlight[c]) \in Seq(Kinds)
    BY <1>1
  <1>. QED
    BY <1>2, <1>3

LEMMA DeviceTypeStep == DeviceType /\ [EmuNext]_emuVars => DeviceType'
  <1>. SUFFICES ASSUME DeviceType, [EmuNext]_emuVars
                PROVE  DeviceType'
    OBVIOUS
  <1>. USE DEF DeviceType, Phases, cpuVars, deviceVars
  <1>1. CASE UNCHANGED emuVars
    BY <1>1 DEF emuVars
  <1>2. CASE HostLoadRom \/ HostReset
    <2>1. [c \in DmaChannels |-> <<>>] \in [DmaChannels -> Seq(Kinds)]
      OBVIOUS
    <2>. QED
      BY <1>2, <2>1 DEF HostLoadRom, HostReset, ResetCpu, ResetDevices
  <1>3. CASE HostFeedGpu \/ HostRun
    BY <1>3 DEF HostFeedGpu, HostRun
  <1>4. ASSUME NEW c \in DmaChannels, NEW kind \in Kinds, NEW words \in TransferWords,
               HostQueueDma(c, kind, words)
        PROVE  DeviceType'
    BY <1>4, TransferSeqs DEF HostQueueDma
  <1>5. CASE EnterIrq \/ SkipIrq
    BY <1>5 DEF EnterIrq, SkipIrq
  <1>6. CASE StepHalted \/ StepPlain \/ StepWfi \/ StepTrap
    BY <1>6 DEF StepHalted, StepPlain, StepWfi, StepTrap, Cost
  <1>7. ASSUME NEW imm \in SwiNumbers, StepSwi(imm)
        PROVE  DeviceType'
    BY <1>7 DEF StepSwi, Cost
  <1>8. CASE Report \/ Drain \/ Handled \/ SkipSwi
    BY <1>8 DEF Report, Drain, Handled, SkipSwi
  <1>9. CASE Handle
    <2>1. UNCHANGED <<phase, romLoaded, cpuVars>>
      BY <1>9 DEF Handle
    <2>2. irq' \in SUBSET Lines
      BY <1>9 DEF Handle, HandleTimer, HandleVBlank, HandleDma, HandleWake, Lines
    <2>3. fifo' \in BOOLEAN
      BY <1>9 DEF Handle, HandleTimer, HandleVBlank, HandleDma, HandleWake
    <2>4. inFlight' \in [DmaChannels -> Seq(Kinds)]
      BY <1>9, TransferSeqs DEF Handle, HandleTimer, HandleVBlank, HandleDma, HandleWake
    <2>. QED
      BY <2>1, <2>2, <2>3, <2>4
  <1>10. CASE Gpu
    BY <1>10 DEF Gpu, Lines
  <1>11. CASE DispatchSwi \/ TakeWakes
    BY <1>11 DEF DispatchSwi, TakeWakes
  <1>12. CASE End
    BY <1>12 DEF End
  <1>. QED
    BY <1>1, <1>2, <1>3, <1>4, <1>5, <1>6, <1>7, <1>8, <1>9, <1>10, <1>11, <1>12
       DEF EmuNext, Iteration

\* One event more, and the batch perhaps smaller.
LEMMA EventAdded ==
    ASSUME EventInv, phase \notin {"report", "drain"},
           NEW delay \in Nat \ {0}, NEW event \in DeviceEvents,
           queue' = ScheduleIn(queue, delay, event), batch' \in SUBSET batch,
           phase' \notin {"report", "drain"}, phase' # "handle" => batch' = {}
    PROVE  /\ EventInv'
           /\ \E new \in Entries :
                 /\ new \notin queue \cup batch /\ new.in = delay /\ new.event = event
                 /\ queue' = queue \cup {new}
  <1>1. PICK new \in Entries :
            /\ new \notin queue /\ new.in = delay /\ new.event = event
            /\ queue' = queue \cup {new} /\ Ranked(queue \cup {new})
    BY ScheduleAdds DEF EventInv
  <1>2. new \notin batch
    BY <1>1, EmulatorAssumption DEF EventInv, Punctual
  <1>3. IsFiniteSet(batch') /\ Distinct(batch')
    BY FS_Subset DEF EventInv, Distinct
  <1>4. \A e \in queue' : e.in > 0 /\ e.in > -MaxCost
    BY <1>1, EmulatorAssumption DEF EventInv, Punctual, Entries
  <1>5. EventInv'
    BY <1>1, <1>3, <1>4 DEF EventInv, Punctual
  <1>. QED
    BY <1>1, <1>2, <1>5

LEMMA EventsKept ==
    ASSUME EventInv, UNCHANGED <<queue, batch>>,
           phase \in {"report", "drain"} => phase' \in {"report", "drain"},
           phase' # "handle" => batch = {}
    PROVE  EventInv'
  BY DEF EventInv, Punctual

LEMMA NoEvents ==
    ASSUME queue' = {}, batch' = {}
    PROVE  EventInv'
  <1>1. Ranked({}) /\ Distinct({}) /\ IsFiniteSet({})
    BY FS_EmptySet DEF Ranked, Distinct
  <1>. QED
    BY <1>1 DEF EventInv, Punctual

\* schedule_boot_events: the timer and the vertical blank, and nothing else.
LEMMA BootSchedule ==
    \E timer, vblank \in Entries :
        /\ BootEvents = {timer, vblank} /\ timer # vblank /\ Ranked(BootEvents)
        /\ timer.event = TimerExpiry /\ timer.in = TimerPeriod
        /\ vblank.event = VBlank /\ vblank.in = VBlankPeriod
  <1>. DEFINE none == {}
              first == ScheduleIn(none, TimerPeriod, TimerExpiry)
  <1>1. Ranked(none) /\ none \in SUBSET Entries
    BY FS_EmptySet DEF Ranked, Distinct
  <1>2. TimerExpiry \in DeviceEvents /\ VBlank \in DeviceEvents
    BY DEF DeviceEvents
  <1>3. TimerPeriod \in Int /\ VBlankPeriod \in Int
    BY EmulatorAssumption
  <1>. HIDE DEF none
  <1>4. PICK timer \in Entries :
            /\ timer \notin none /\ timer.in = TimerPeriod /\ timer.event = TimerExpiry
            /\ ScheduleIn(none, TimerPeriod, TimerExpiry) = none \cup {timer}
            /\ Ranked(none \cup {timer})
    BY <1>1, <1>2, <1>3, ScheduleAdds
  <1>5. first = {timer} /\ first \in SUBSET Entries /\ Ranked(first)
    BY <1>4 DEF none
  <1>. HIDE DEF first
  <1>6. PICK vblank \in Entries :
            /\ vblank \notin first /\ vblank.in = VBlankPeriod /\ vblank.event = VBlank
            /\ ScheduleIn(first, VBlankPeriod, VBlank) = first \cup {vblank}
            /\ Ranked(first \cup {vblank})
    BY <1>2, <1>3, <1>5, ScheduleAdds
  <1>7. BootEvents = {timer, vblank}
    BY <1>5, <1>6 DEF BootEvents, first, none
  <1>. QED
    BY <1>4, <1>5, <1>6, <1>7

\* Time passes for all entries by what the instruction costs.
LEMMA EventsElapse ==
    ASSUME EventInv, NEW cycles \in 1..MaxCost, Cost(cycles)
    PROVE  EventInv'
  <1>1. /\ queue' = Elapse(queue, cycles) /\ batch' = batch
        /\ phase = "step" /\ phase' = "report" /\ cycles \in Int
    BY EmulatorAssumption DEF Cost
  <1>2. queue' \in SUBSET Entries /\ Ranked(queue')
    BY <1>1, ElapseSelects, ElapseRanked DEF EventInv
  <1>3. ASSUME NEW e \in queue'
        PROVE  e.in > -MaxCost
    <2>1. PICK f \in queue : e = Later(f, cycles)
      BY <1>1, ElapseIs
    <2>2. e.in = f.in - cycles /\ f.in \in Int /\ f.in > 0
      BY <1>1, <2>1, LaterEntry DEF EventInv, Punctual, Entries
    <2>. QED
      BY <2>2, EmulatorAssumption
  <1>. QED
    BY <1>1, <1>2, <1>3 DEF EventInv, Punctual

LEMMA EventsDrain ==
    ASSUME EventInv, Drain
    PROVE  EventInv'
  <1>1. /\ queue' = queue \ Due(queue) /\ batch' = Due(queue)
        /\ phase = "drain" /\ phase' = "handle"
    BY DEF Drain
  <1>2. Ranked(queue') /\ IsFiniteSet(batch') /\ Distinct(batch')
    BY <1>1, DrainRanked DEF EventInv
  <1>3. queue' \in SUBSET Entries /\ batch' \in SUBSET Entries
    BY <1>1 DEF EventInv, Due
  <1>4. \A e \in queue' : e.in > 0 /\ e.in > -MaxCost
    BY <1>1 DEF EventInv, Due, Entries
  <1>5. \A e \in batch' : e.in \in (1 - MaxCost)..0
    BY <1>1, EmulatorAssumption DEF EventInv, Due, Entries
  <1>. QED
    BY <1>1, <1>2, <1>3, <1>4, <1>5 DEF EventInv, Punctual

LEMMA HandleFirst ==
    ASSUME EventInv, batch # {}
    PROVE  First(batch) \in batch /\ First(batch) \in Entries
  <1>1. \A e \in batch : e.in >= 1 - MaxCost
    BY EmulatorAssumption DEF EventInv, Punctual
  <1>2. 1 - MaxCost \in Int
    BY EmulatorAssumption
  <1>. QED
    BY <1>1, <1>2, FirstInBatch DEF EventInv

\* What is handled goes out of the batch; a timer or a blank comes back.
LEMMA HandleEvents ==
    ASSUME EventInv, Handle
    PROVE  /\ phase = "handle" /\ phase' = "handle" /\ batch' = batch \ {First(batch)}
           /\ LET event == First(batch).event IN
                 \/ /\ event = TimerExpiry
                    /\ queue' = ScheduleIn(queue, TimerPeriod, event)
                    /\ UNCHANGED <<kernelVars, inFlight>>
                 \/ /\ event = VBlank
                    /\ queue' = ScheduleIn(queue, VBlankPeriod, event)
                    /\ UNCHANGED <<kernelVars, inFlight>>
                 \/ /\ \E c \in DmaChannels : event = DmaCompletion(c) /\ HandleDma(c)
                    /\ UNCHANGED <<kernelVars, queue>>
                 \/ /\ \E p \in Pids : event = ServiceWake(p) /\ SchedulerWake(p)
                    /\ UNCHANGED <<queue, inFlight>>
  BY DEF Handle, HandleTimer, HandleVBlank, HandleDma, HandleWake, deviceVars, kernelVars

LEMMA QueueStep ==
    ASSUME EventInv, [EmuNext]_emuVars
    PROVE  EventInv'
  <1>1. CASE UNCHANGED emuVars
    BY <1>1, EventsKept DEF emuVars, EventInv, Punctual
  <1>2. CASE HostLoadRom
    <2>1. /\ queue' = BootEvents /\ batch' = {} /\ phase' = "idle"
      BY <1>2 DEF HostLoadRom, EventInv, Punctual
    <2>2. /\ BootEvents \in SUBSET Entries /\ Ranked(BootEvents)
          /\ \A e \in BootEvents : e.in > 0 /\ e.in > -MaxCost
      BY BootSchedule, EmulatorAssumption
    <2>3. IsFiniteSet({}) /\ Distinct({})
      BY FS_EmptySet DEF Distinct
    <2>. QED
      BY <2>1, <2>2, <2>3 DEF EventInv, Punctual
  <1>3. CASE HostReset
    BY <1>3, NoEvents DEF HostReset, EventInv, Punctual
  <1>4. ASSUME NEW c \in DmaChannels, NEW kind \in Kinds, NEW words \in TransferWords,
               HostQueueDma(c, kind, words)
        PROVE  EventInv'
    <2>1. Latency(words) \in Nat \ {0} /\ DmaCompletion(c) \in DeviceEvents
      BY EmulatorAssumption DEF Latency, DeviceEvents
    <2>2. /\ phase = "idle" /\ phase' = "idle" /\ batch' = {} /\ batch' \in SUBSET batch
          /\ queue' = ScheduleIn(queue, Latency(words), DmaCompletion(c))
      BY <1>4 DEF HostQueueDma, EventInv, Punctual
    <2>. QED
      BY <2>1, <2>2, EventAdded
  <1>5. CASE HostFeedGpu \/ HostRun \/ EnterIrq \/ SkipIrq \/ Report \/ Handled \/ Gpu
             \/ DispatchSwi \/ SkipSwi \/ End
    <2>1. /\ UNCHANGED <<queue, batch>>
          /\ phase \in {"report", "drain"} => phase' \in {"report", "drain"}
          /\ phase = "handle" => batch = {}
      BY <1>5 DEF HostFeedGpu, HostRun, EnterIrq, SkipIrq, Report, Handled, Gpu,
                  DispatchSwi, SkipSwi, End
    <2>. QED
      BY <2>1, EventsKept DEF EventInv, Punctual
  <1>6. CASE StepHalted \/ StepPlain \/ StepWfi \/ StepTrap \/ \E imm \in SwiNumbers : StepSwi(imm)
    <2>1. \E cycles \in 1..MaxCost : Cost(cycles)
      BY <1>6, EmulatorAssumption DEF StepHalted, StepPlain, StepWfi, StepTrap, StepSwi
    <2>. QED
      BY <2>1, EventsElapse
  <1>7. CASE Drain
    BY <1>7, EventsDrain
  <1>8. CASE Handle
    <2>1. /\ phase = "handle" /\ phase' = "handle" /\ batch' \in SUBSET batch
          /\ TimerExpiry \in DeviceEvents /\ VBlank \in DeviceEvents
      BY <1>8, HandleEvents DEF DeviceEvents
    <2>2. CASE queue' = ScheduleIn(queue, TimerPeriod, TimerExpiry)
      BY <2>1, <2>2, EventAdded, EmulatorAssumption
    <2>3. CASE queue' = ScheduleIn(queue, VBlankPeriod, VBlank)
      BY <2>1, <2>3, EventAdded, EmulatorAssumption
    <2>4. CASE UNCHANGED queue
      <3>1. IsFiniteSet(batch') /\ Distinct(batch')
        BY <2>1, FS_Subset DEF EventInv, Distinct
      <3>. QED
        BY <2>1, <2>4, <3>1 DEF EventInv, Punctual
    <2>. QED
      BY <1>8, <2>2, <2>3, <2>4, HandleEvents
  <1>9. CASE TakeWakes
    <2>1. /\ phase = "take" /\ phase' = "end" /\ batch' = {} /\ batch' \in SUBSET batch
          /\ batch' = batch
          /\ \/ queue' = ScheduleIn(queue, WakeDelay, ServiceWake(KernelPid))
             \/ UNCHANGED queue
      BY <1>9 DEF TakeWakes, EventInv, Punctual
    <2>2. ServiceWake(KernelPid) \in DeviceEvents
      BY KernelAssumption DEF DeviceEvents
    <2>3. CASE UNCHANGED queue
      BY <2>1, <2>3, EventsKept
    <2>4. CASE queue' = ScheduleIn(queue, WakeDelay, ServiceWake(KernelPid))
      BY <2>1, <2>2, <2>4, EventAdded, EmulatorAssumption
    <2>. QED
      BY <2>1, <2>3, <2>4
  <1>. QED
    BY <1>1, <1>2, <1>3, <1>4, <1>5, <1>6, <1>7, <1>8, <1>9 DEF EmuNext, Iteration

LEMMA EventInit == EmuInit => DeviceType /\ EventInv
  <1>. SUFFICES ASSUME EmuInit PROVE DeviceType /\ EventInv
    OBVIOUS
  <1>1. DeviceType
    <2>1. inFlight \in [DmaChannels -> Seq(Kinds)]
      BY DEF EmuInit
    <2>. QED
      BY <2>1 DEF EmuInit, DeviceType, Phases
  <1>2. Ranked({}) /\ Distinct({}) /\ IsFiniteSet({})
    BY FS_EmptySet DEF Ranked, Distinct
  <1>3. EventInv
    BY <1>2 DEF EmuInit, EventInv, Punctual
  <1>. QED
    BY <1>1, <1>3

LEMMA EventsWellFormed == EmuSpec => [](DeviceType /\ EventInv)
<1>1. EmuInit => DeviceType /\ EventInv
  BY EventInit
<1>2. DeviceType /\ EventInv /\ [EmuNext]_emuVars => DeviceType' /\ EventInv'
  BY DeviceTypeStep, QueueStep
<1>. QED
  BY <1>1, <1>2, PTL DEF EmuSpec

\* In the loop's hands the kernel takes only steps of its own specification.
THEOREM LoopImplementsKernel == EmuSpec => ImplementsKernel
<1>1. EmuInit => Init
  BY DEF EmuInit
<1>2. DeviceType /\ EventInv /\ [EmuNext]_emuVars => [Next]_vars
  BY EmuTypeParts, KernelSteps
<1>. QED
  BY <1>1, <1>2, EventsWellFormed, PTL DEF EmuSpec, ImplementsKernel, Spec

COROLLARY LoopKeepsKernelTyped == EmuSpec => []TypeOK
  BY LoopImplementsKernel, TypeCorrect, PTL DEF ImplementsKernel

\* Every variable of the loop holds a value of its type.
THEOREM EmuTypeCorrect == EmuSpec => []EmuTypeOK
  BY EventsWellFormed, EmuTypeParts, PTL

\* drain_due_events serves time: nothing that was due waits for more than the
\* rest of one iteration, however many entries there are.
THEOREM EventsArePunctual == EmuSpec => []Punctual
<1>1. EventInv => Punctual
  BY DEF EventInv
<1>. QED
  BY <1>1, EventsWellFormed, PTL

-----------------------------------------------------------------------------
(* Every timer, transfer and wake has its event *)

LEMMA EventNames ==
    /\ TimerExpiry # VBlank
    /\ \A c : DmaCompletion(c) # TimerExpiry /\ DmaCompletion(c) # VBlank
    /\ \A p : ServiceWake(p) # TimerExpiry /\ ServiceWake(p) # VBlank
    /\ \A c, p : DmaCompletion(c) # ServiceWake(p)
    /\ \A c, d : DmaCompletion(c) = DmaCompletion(d) => c = d
    /\ \A p, q : ServiceWake(p) = ServiceWake(q) => p = q
  BY DEF TimerExpiry, VBlank, DmaCompletion, ServiceWake

LEMMA OutstandingFinite ==
    ASSUME EventInv
    PROVE  IsFiniteSet(Outstanding) /\ \A event : CountOf(event) \in Nat
  <1>1. IsFiniteSet(queue) /\ IsFiniteSet(batch)
    BY DEF EventInv, Ranked
  <1>2. IsFiniteSet(Outstanding)
    BY <1>1, FS_Union DEF Outstanding
  <1>. QED
    BY <1>2, WaitingFinite DEF CountOf

LEMMA CountKept ==
    ASSUME UNCHANGED Outstanding, NEW event
    PROVE  CountOf(event)' = CountOf(event)
  BY DEF CountOf, Waiting

LEMMA CountAdded ==
    ASSUME EventInv, NEW new, new \notin Outstanding, Outstanding' = Outstanding \cup {new},
           NEW event
    PROVE  CountOf(event)' = CountOf(event) + (IF new.event = event THEN 1 ELSE 0)
  <1>1. CountOf(event)' = Cardinality(Waiting(Outstanding \cup {new}, event))
    BY DEF CountOf, Waiting
  <1>2. CountOf(event) = Cardinality(Waiting(Outstanding, event))
    BY DEF CountOf
  <1>3. IsFiniteSet(Outstanding)
    BY OutstandingFinite
  <1>. QED
    BY <1>1, <1>2, <1>3, WaitingAdd

LEMMA CountRemoved ==
    ASSUME EventInv, NEW old \in Outstanding, Outstanding' = Outstanding \ {old}, NEW event
    PROVE  CountOf(event)' = CountOf(event) - (IF old.event = event THEN 1 ELSE 0)
  <1>1. CountOf(event)' = Cardinality(Waiting(Outstanding \ {old}, event))
    BY DEF CountOf, Waiting
  <1>2. CountOf(event) = Cardinality(Waiting(Outstanding, event))
    BY DEF CountOf
  <1>3. IsFiniteSet(Outstanding)
    BY OutstandingFinite
  <1>. QED
    BY <1>1, <1>2, <1>3, WaitingRemove

LEMMA CountMoved ==
    ASSUME EventInv, NEW old \in Outstanding, NEW new, new \notin Outstanding,
           new.event = old.event, Outstanding' = (Outstanding \ {old}) \cup {new}, NEW event
    PROVE  CountOf(event)' = CountOf(event)
  <1>. DEFINE rest == Outstanding \ {old}
  <1>1. IsFiniteSet(Outstanding) /\ CountOf(event) \in Nat
    BY OutstandingFinite
  <1>2. IsFiniteSet(rest) /\ new \notin rest
    BY <1>1, FS_RemoveElement
  <1>3. Cardinality(Waiting(rest, event))
           = CountOf(event) - (IF old.event = event THEN 1 ELSE 0)
    BY <1>1, WaitingRemove DEF CountOf
  <1>. HIDE DEF rest
  <1>4. Cardinality(Waiting(rest \cup {new}, event))
           = Cardinality(Waiting(rest, event)) + (IF new.event = event THEN 1 ELSE 0)
    BY <1>2, WaitingAdd
  <1>5. CountOf(event)' = Cardinality(Waiting(rest \cup {new}, event))
    BY DEF CountOf, rest, Waiting
  <1>. QED
    BY <1>1, <1>3, <1>4, <1>5

\* Nothing at all is outstanding.
LEMMA CountNone ==
    ASSUME Outstanding' = {}, NEW event
    PROVE  CountOf(event)' = 0
  BY FS_EmptySet DEF CountOf, Waiting

\* The accounts of the three parties: the ROM, the DMA engine and the kernel.
CountInv == TimersArmed /\ DmaAccounted /\ WakesAccounted

\* The kernel asks for at most one wake, and the loop takes it at once.
PendingInv ==
    \A p \in Pids : pendingWakes[p] <= IF phase = "take" /\ p = KernelPid THEN 1 ELSE 0

LEMMA CountsKept ==
    ASSUME CountInv, UNCHANGED <<romLoaded, inFlight, scheduled>>,
           \A event : CountOf(event)' = CountOf(event)
    PROVE  CountInv'
  BY DEF CountInv, TimersArmed, DmaAccounted, WakesAccounted

LEMMA LoadCounts ==
    ASSUME EventInv, HostLoadRom
    PROVE  CountInv'
  <1>1. PICK timer, vblank \in Entries :
            /\ BootEvents = {timer, vblank} /\ timer # vblank
            /\ timer.event = TimerExpiry /\ vblank.event = VBlank
    BY BootSchedule
  <1>2. Outstanding' = {timer, vblank} /\ romLoaded' = TRUE
    BY <1>1 DEF HostLoadRom, EventInv, Punctual, Outstanding
  <1>3. CountOf(TimerExpiry)' = 1
    <2>1. Waiting(Outstanding, TimerExpiry)' = {timer}
      BY <1>1, <1>2, EventNames DEF Waiting
    <2>. QED
      BY <2>1, FS_Singleton DEF CountOf
  <1>4. CountOf(VBlank)' = 1
    <2>1. Waiting(Outstanding, VBlank)' = {vblank}
      BY <1>1, <1>2, EventNames DEF Waiting
    <2>. QED
      BY <2>1, FS_Singleton DEF CountOf
  <1>5. ASSUME NEW event, event # TimerExpiry, event # VBlank
        PROVE  CountOf(event)' = 0
    <2>1. Waiting(Outstanding, event)' = {}
      BY <1>1, <1>2, <1>5 DEF Waiting
    <2>. QED
      BY <2>1, FS_EmptySet DEF CountOf
  <1>6. /\ inFlight' = [c \in DmaChannels |-> <<>>]
        /\ scheduled' = [p \in Pids |-> 0]
    BY DEF HostLoadRom, ResetDevices, LoadRom
  <1>7. DmaAccounted'
    BY <1>5, <1>6, EventNames DEF DmaAccounted
  <1>8. WakesAccounted'
    BY <1>5, <1>6, EventNames DEF WakesAccounted
  <1>. QED
    BY <1>2, <1>3, <1>4, <1>7, <1>8 DEF CountInv, TimersArmed

LEMMA ResetCounts ==
    ASSUME Outstanding' = {}, romLoaded' = FALSE,
           inFlight' = [c \in DmaChannels |-> <<>>], scheduled' = [p \in Pids |-> 0]
    PROVE  CountInv'
  BY CountNone DEF CountInv, TimersArmed, DmaAccounted, WakesAccounted

\* A transfer queued: one in flight more, one completion more.
LEMMA QueueCounts ==
    ASSUME DeviceType, EventInv, CountInv,
           NEW c \in DmaChannels, NEW kind \in Kinds, NEW words \in TransferWords,
           HostQueueDma(c, kind, words)
    PROVE  CountInv'
  <1>1. Latency(words) \in Nat \ {0} /\ DmaCompletion(c) \in DeviceEvents
    BY EmulatorAssumption DEF Latency, DeviceEvents
  <1>2. /\ phase = "idle" /\ phase' = "idle" /\ batch' = {} /\ batch' \in SUBSET batch
        /\ batch = {} /\ UNCHANGED <<romLoaded, scheduled>>
        /\ queue' = ScheduleIn(queue, Latency(words), DmaCompletion(c))
        /\ inFlight' = [inFlight EXCEPT ![c] = Append(@, kind)]
    BY DEF HostQueueDma, EventInv, Punctual, kernelVars, vars, wakeVars
  <1>3. PICK new \in Entries :
            /\ new \notin queue \cup batch /\ new.event = DmaCompletion(c)
            /\ queue' = queue \cup {new}
    BY <1>1, <1>2, EventAdded
  <1>4. new \notin Outstanding /\ Outstanding' = Outstanding \cup {new}
    BY <1>2, <1>3 DEF Outstanding
  <1>5. \A event : CountOf(event)' = CountOf(event)
                                     + (IF DmaCompletion(c) = event THEN 1 ELSE 0)
    BY <1>3, <1>4, CountAdded
  <1>6. \A event : CountOf(event) \in Nat
    BY OutstandingFinite
  <1>7. TimersArmed' /\ WakesAccounted'
    BY <1>2, <1>5, <1>6, EventNames DEF CountInv, TimersArmed, WakesAccounted
  <1>8. DmaAccounted'
    <2>. SUFFICES ASSUME NEW d \in DmaChannels
                  PROVE  Len(inFlight'[d]) = CountOf(DmaCompletion(d))'
      BY DEF DmaAccounted
    <2>1. Len(inFlight[d]) = CountOf(DmaCompletion(d)) /\ inFlight[d] \in Seq(Kinds)
      BY DEF CountInv, DmaAccounted, DeviceType
    <2>2. CASE d = c
      <3>1. inFlight'[d] = Append(inFlight[d], kind)
        BY <1>2, <2>2 DEF DeviceType
      <3>2. Len(inFlight'[d]) = Len(inFlight[d]) + 1
        BY <2>1, <3>1
      <3>. QED
        BY <1>5, <2>1, <2>2, <3>2
    <2>3. CASE d # c
      <3>1. inFlight'[d] = inFlight[d] /\ DmaCompletion(c) # DmaCompletion(d)
        BY <1>2, <2>3, EventNames DEF DeviceType
      <3>. QED
        BY <1>5, <1>6, <2>1, <3>1
    <2>. QED
      BY <2>2, <2>3
  <1>. QED
    BY <1>7, <1>8 DEF CountInv

LEMMA CostCounts ==
    ASSUME EventInv, NEW cycles \in 1..MaxCost, Cost(cycles), NEW event
    PROVE  CountOf(event)' = CountOf(event)
  <1>1. Outstanding = queue /\ Outstanding' = Elapse(queue, cycles) /\ cycles \in Int
    BY EmulatorAssumption DEF Cost, EventInv, Punctual, Outstanding
  <1>2. Waiting(queue, event) \in SUBSET Entries /\ IsFiniteSet(Waiting(queue, event))
    BY WaitingFinite DEF EventInv, Ranked, Waiting
  <1>3. CountOf(event)' = Cardinality(Waiting(Elapse(queue, cycles), event))
    BY <1>1 DEF CountOf, Waiting
  <1>4. Waiting(Elapse(queue, cycles), event) = Elapse(Waiting(queue, event), cycles)
    BY <1>1, ElapseSelects DEF EventInv
  <1>5. Cardinality(Elapse(Waiting(queue, event), cycles)) = Cardinality(Waiting(queue, event))
    BY <1>1, <1>2, ElapseCounts
  <1>. QED
    BY <1>1, <1>3, <1>4, <1>5 DEF CountOf

LEMMA CountPositive ==
    ASSUME EventInv, NEW e \in Outstanding
    PROVE  CountOf(e.event) # 0
  <1>1. e \in Waiting(Outstanding, e.event)
    BY DEF Waiting
  <1>2. IsFiniteSet(Waiting(Outstanding, e.event))
    BY OutstandingFinite, WaitingFinite
  <1>. QED
    BY <1>1, <1>2, FS_EmptySet DEF CountOf

\* The entry handled goes, and what is scheduled instead is a new one.
LEMMA HandleOutstanding ==
    ASSUME EventInv, Handle
    PROVE  /\ First(batch) \in Outstanding /\ First(batch).in <= 0
           /\ UNCHANGED queue => Outstanding' = Outstanding \ {First(batch)}
           /\ \A delay \in Nat \ {0}, event \in DeviceEvents :
                 queue' = ScheduleIn(queue, delay, event) =>
                    \E new \in Entries :
                       /\ new \notin Outstanding /\ new.in = delay /\ new.event = event
                       /\ Outstanding' = (Outstanding \ {First(batch)}) \cup {new}
  <1>. DEFINE e == First(batch)
  <1>1. e \in batch /\ e \in Entries
    BY HandleFirst DEF Handle
  <1>2. phase = "handle" /\ phase' = "handle" /\ batch' = batch \ {e}
    BY HandleEvents
  <1>. HIDE DEF e
  <1>3. e.in \in Int /\ e.in <= 0 /\ e \notin queue
    BY <1>1, <1>2, EmulatorAssumption DEF EventInv, Punctual, Entries
  <1>4. ASSUME NEW delay \in Nat \ {0}, NEW event \in DeviceEvents,
               queue' = ScheduleIn(queue, delay, event)
        PROVE  \E new \in Entries :
                  /\ new \notin Outstanding /\ new.in = delay /\ new.event = event
                  /\ Outstanding' = (Outstanding \ {e}) \cup {new}
    <2>1. PICK new \in Entries :
              /\ new \notin queue \cup batch /\ new.in = delay /\ new.event = event
              /\ queue' = queue \cup {new}
      BY <1>2, <1>4, EventAdded
    <2>. QED
      BY <1>1, <1>2, <1>3, <2>1 DEF Outstanding
  <1>. QED
    BY <1>1, <1>2, <1>3, <1>4 DEF Outstanding, e

LEMMA HandleCounts ==
    ASSUME TypeOK, DeviceType, EventInv, CountInv, Handle
    PROVE  CountInv'
  <1>. DEFINE e == First(batch)
  <1>1. e \in Outstanding /\ UNCHANGED romLoaded
    BY HandleOutstanding DEF Handle
  <1>2. TimerPeriod \in Nat \ {0} /\ VBlankPeriod \in Nat \ {0}
        /\ TimerExpiry \in DeviceEvents /\ VBlank \in DeviceEvents
    BY EmulatorAssumption DEF DeviceEvents
  <1>3. \A event : CountOf(event) \in Nat
    BY OutstandingFinite
  <1>4. ASSUME NEW delay \in Nat \ {0}, NEW event \in DeviceEvents, e.event = event,
               queue' = ScheduleIn(queue, delay, event), UNCHANGED <<kernelVars, inFlight>>
        PROVE  CountInv'
    <2>1. PICK new \in Entries :
              /\ new \notin Outstanding /\ new.event = event
              /\ Outstanding' = (Outstanding \ {e}) \cup {new}
      BY <1>4, HandleOutstanding
    <2>2. \A x : CountOf(x)' = CountOf(x)
      BY <1>1, <1>4, <2>1, CountMoved
    <2>. QED
      BY <1>1, <1>4, <2>2, CountsKept DEF kernelVars, vars, wakeVars
  <1>5. ASSUME UNCHANGED queue
        PROVE  \A x : CountOf(x)' = CountOf(x) - (IF e.event = x THEN 1 ELSE 0)
    BY <1>1, <1>5, HandleOutstanding, CountRemoved
  <1>6. ASSUME NEW c \in DmaChannels, e.event = DmaCompletion(c), HandleDma(c),
               UNCHANGED <<kernelVars, queue>>
        PROVE  CountInv'
    <2>1. Len(inFlight[c]) = CountOf(DmaCompletion(c)) /\ inFlight[c] # <<>>
      BY <1>1, <1>6, CountPositive DEF CountInv, DmaAccounted
    <2>2. inFlight' = [inFlight EXCEPT ![c] = Tail(@)]
      BY <1>6, <2>1 DEF HandleDma
    <2>3. UNCHANGED scheduled
      BY <1>6 DEF kernelVars, vars, wakeVars
    <2>4. TimersArmed' /\ WakesAccounted'
      BY <1>1, <1>3, <1>5, <1>6, <2>3, EventNames DEF CountInv, TimersArmed, WakesAccounted
    <2>5. ASSUME NEW d \in DmaChannels
          PROVE  Len(inFlight'[d]) = CountOf(DmaCompletion(d))'
      <3>1. Len(inFlight[d]) = CountOf(DmaCompletion(d)) /\ inFlight[d] \in Seq(Kinds)
        BY DEF CountInv, DmaAccounted, DeviceType
      <3>2. CASE d = c
        <4>1. inFlight'[d] = Tail(inFlight[d])
          BY <2>2, <3>2 DEF DeviceType
        <4>2. Len(inFlight'[d]) = Len(inFlight[d]) - 1
          BY <2>1, <3>1, <3>2, <4>1
        <4>. QED
          BY <1>5, <1>6, <3>1, <3>2, <4>2
      <3>3. CASE d # c
        <4>1. inFlight'[d] = inFlight[d] /\ DmaCompletion(c) # DmaCompletion(d)
          BY <2>2, <3>3, EventNames DEF DeviceType
        <4>. QED
          BY <1>3, <1>5, <1>6, <3>1, <4>1
      <3>. QED
        BY <3>2, <3>3
    <2>. QED
      BY <2>4, <2>5 DEF CountInv, DmaAccounted
  <1>7. ASSUME NEW p \in Pids, e.event = ServiceWake(p), SchedulerWake(p),
               UNCHANGED <<queue, inFlight>>
        PROVE  CountInv'
    <2>1. scheduled' = [scheduled EXCEPT ![p] = @ - 1] /\ scheduled \in [Pids -> Nat]
      BY <1>7 DEF SchedulerWake, TypeOK
    <2>2. TimersArmed' /\ DmaAccounted'
      BY <1>1, <1>3, <1>5, <1>7, EventNames DEF CountInv, TimersArmed, DmaAccounted
    <2>3. ASSUME NEW q \in Pids
          PROVE  scheduled'[q] = CountOf(ServiceWake(q))'
      <3>1. scheduled[q] = CountOf(ServiceWake(q))
        BY DEF CountInv, WakesAccounted
      <3>2. CASE q = p
        BY <1>5, <1>7, <2>1, <3>1, <3>2
      <3>3. CASE q # p
        BY <1>3, <1>5, <1>7, <2>1, <3>1, <3>3, EventNames
      <3>. QED
        BY <3>2, <3>3
    <2>. QED
      BY <2>2, <2>3 DEF CountInv, WakesAccounted
  <1>. QED
    BY <1>2, <1>4, <1>6, <1>7, HandleEvents

LEMMA TakeCounts ==
    ASSUME TypeOK, EventInv, PendingInv, CountInv, TakeWakes
    PROVE  CountInv'
  <1>1. /\ phase = "take" /\ phase' = "end" /\ batch = {} /\ batch' = {}
        /\ UNCHANGED <<romLoaded, inFlight>>
    BY DEF TakeWakes, EventInv, Punctual, deviceVars
  <1>2. CASE pendingWakes[KernelPid] = 0
    <2>1. UNCHANGED <<scheduled, queue, batch>>
      BY <1>1, <1>2 DEF TakeWakes, kernelVars, vars, wakeVars
    <2>2. \A event : CountOf(event)' = CountOf(event)
      BY <2>1, CountKept DEF Outstanding
    <2>. QED
      BY <1>1, <2>1, <2>2, CountsKept
  <1>3. CASE pendingWakes[KernelPid] > 0
    <2>1. /\ scheduled' = [p \in Pids |-> scheduled[p] + pendingWakes[p]]
          /\ queue' = ScheduleIn(queue, WakeDelay, ServiceWake(KernelPid))
      <3>1. pendingWakes[KernelPid] # 0
        BY <1>3
      <3>2. TakeScheduleEvents /\ queue' = ScheduleIn(queue, WakeDelay, ServiceWake(KernelPid))
        BY <3>1 DEF TakeWakes
      <3>. QED
        BY <3>2 DEF TakeScheduleEvents
    <2>2. \A p \in Pids : pendingWakes[p] = IF p = KernelPid THEN 1 ELSE 0
      <3>1. pendingWakes \in [Pids -> Nat]
        BY DEF TypeOK
      <3>. QED
        BY <1>1, <1>3, <3>1 DEF PendingInv
    <2>3. ServiceWake(KernelPid) \in DeviceEvents
      BY KernelAssumption DEF DeviceEvents
    <2>4. \E new \in Entries :
              /\ new \notin queue \cup batch /\ new.event = ServiceWake(KernelPid)
              /\ queue' = queue \cup {new}
      <3>1. /\ phase \notin {"report", "drain"} /\ phase' \notin {"report", "drain"}
            /\ batch' \in SUBSET batch /\ (phase' # "handle" => batch' = {})
        BY <1>1
      <3>2. WakeDelay \in Nat \ {0}
        BY EmulatorAssumption
      <3>. QED
        BY <2>1, <2>3, <3>1, <3>2, EventAdded
    <2>5. \A event : CountOf(event)' = CountOf(event)
                                       + (IF ServiceWake(KernelPid) = event THEN 1 ELSE 0)
      <3>. PICK new \in Entries :
              /\ new \notin queue \cup batch /\ new.event = ServiceWake(KernelPid)
              /\ queue' = queue \cup {new}
        BY <2>4
      <3>. QED
        BY <1>1, CountAdded DEF Outstanding
    <2>6. \A event : CountOf(event) \in Nat
      BY OutstandingFinite
    <2>7. TimersArmed' /\ DmaAccounted'
      BY <1>1, <2>5, <2>6, EventNames DEF CountInv, TimersArmed, DmaAccounted
    <2>8. WakesAccounted'
      BY <2>1, <2>2, <2>5, <2>6, EventNames DEF CountInv, WakesAccounted
    <2>. QED
      BY <2>7, <2>8 DEF CountInv
  <1>. QED
    BY <1>2, <1>3, KernelAssumption DEF TakeWakes

\* What the other steps of the loop leave alone.
LEMMA PlainSteps ==
    ASSUME \/ HostFeedGpu \/ HostRun \/ EnterIrq \/ SkipIrq \/ Report \/ Handled \/ Gpu
           \/ SkipSwi \/ End
    PROVE  /\ UNCHANGED <<romLoaded, queue, batch, inFlight, pendingWakes, scheduled>>
           /\ phase # "take" /\ phase' # "take"
  BY DEF HostFeedGpu, HostRun, EnterIrq, SkipIrq, Report, Handled, Gpu, SkipSwi, End,
         deviceVars, kernelVars, vars, wakeVars, TakeLastSwi

LEMMA CostSteps ==
    ASSUME StepHalted \/ StepPlain \/ StepWfi \/ StepTrap \/ \E imm \in SwiNumbers : StepSwi(imm)
    PROVE  /\ \E cycles \in 1..MaxCost : Cost(cycles)
           /\ UNCHANGED <<romLoaded, batch, inFlight, pendingWakes, scheduled>>
           /\ phase = "step" /\ phase' = "report"
  BY EmulatorAssumption
     DEF StepHalted, StepPlain, StepWfi, StepTrap, StepSwi, Cost, deviceVars, kernelVars, vars,
         wakeVars

\* A SWI asks for one wake at most, for the kernel process.
LEMMA DispatchAsks ==
    ASSUME DispatchSwi
    PROVE  /\ UNCHANGED <<romLoaded, queue, batch, inFlight, scheduled>>
           /\ phase = "swi" /\ phase' = "take"
           /\ \/ UNCHANGED pendingWakes
              \/ pendingWakes' = [pendingWakes EXCEPT ![KernelPid] = @ + 1]
  BY DEF DispatchSwi, deviceVars, HandleSwi, DispatchSyscall, SendSyncRequest

LEMMA PendingStep ==
    ASSUME TypeOK, PendingInv, [EmuNext]_emuVars
    PROVE  PendingInv'
  <1>1. CASE UNCHANGED emuVars
    BY <1>1 DEF emuVars, kernelVars, vars, wakeVars, PendingInv
  <1>2. CASE HostReset
    BY <1>2 DEF HostReset, ResetRuntime, PendingInv
  <1>3. CASE DispatchSwi
    <2>1. \A p \in Pids : pendingWakes[p] = 0 /\ pendingWakes \in [Pids -> Nat]
      BY <1>3, DispatchAsks DEF PendingInv, TypeOK
    <2>2. \A p \in Pids : pendingWakes'[p] <= IF p = KernelPid THEN 1 ELSE 0
      BY <1>3, <2>1, DispatchAsks, KernelAssumption
    <2>. QED
      BY <1>3, <2>2, DispatchAsks DEF PendingInv
  <1>4. CASE TakeWakes
    <2>1. \A p \in Pids : pendingWakes'[p] <= 0
      BY <1>4 DEF TakeWakes, TakeScheduleEvents, PendingInv, TypeOK, kernelVars, vars, wakeVars
    <2>. QED
      BY <1>4, <2>1 DEF TakeWakes, PendingInv
  <1>5. ASSUME UNCHANGED pendingWakes, phase # "take"
        PROVE  PendingInv'
    BY <1>5 DEF PendingInv, TypeOK
  <1>6. CASE HostFeedGpu \/ HostRun \/ EnterIrq \/ SkipIrq \/ Report \/ Handled \/ Gpu
             \/ SkipSwi \/ End
    BY <1>5, <1>6, PlainSteps
  <1>7. CASE StepHalted \/ StepPlain \/ StepWfi \/ StepTrap \/ \E imm \in SwiNumbers : StepSwi(imm)
    BY <1>5, <1>7, CostSteps
  <1>8. CASE HostLoadRom
    BY <1>5, <1>8 DEF HostLoadRom, LoadRom
  <1>9. ASSUME NEW c \in DmaChannels, NEW kind \in Kinds, NEW words \in TransferWords,
               HostQueueDma(c, kind, words)
        PROVE  PendingInv'
    BY <1>5, <1>9 DEF HostQueueDma, kernelVars, vars, wakeVars
  <1>10. CASE Drain
    BY <1>5, <1>10 DEF Drain, kernelVars, vars, wakeVars
  <1>11. CASE Handle
    <2>1. phase # "take" /\ (UNCHANGED kernelVars \/ \E p \in Pids : SchedulerWake(p))
      BY <1>11 DEF Handle, HandleTimer, HandleVBlank, HandleDma, HandleWake
    <2>2. UNCHANGED pendingWakes
      BY <2>1 DEF SchedulerWake, kernelVars, vars, wakeVars
    <2>. QED
      BY <1>5, <2>1, <2>2
  <1>. QED
    BY <1>1, <1>2, <1>3, <1>4, <1>6, <1>7, <1>8, <1>9, <1>10, <1>11 DEF EmuNext, Iteration

LEMMA CountStep ==
    ASSUME TypeOK, DeviceType, EventInv, PendingInv, CountInv, [EmuNext]_emuVars
    PROVE  CountInv'
  <1>1. ASSUME UNCHANGED <<romLoaded, Outstanding, inFlight, scheduled>>
        PROVE  CountInv'
    BY <1>1, CountKept, CountsKept
  <1>2. CASE UNCHANGED emuVars
    BY <1>1, <1>2 DEF emuVars, kernelVars, vars, wakeVars, deviceVars, Outstanding
  <1>3. CASE HostLoadRom
    BY <1>3, LoadCounts
  <1>4. CASE HostReset
    <2>1. /\ Outstanding' = {} /\ romLoaded' = FALSE
          /\ inFlight' = [c \in DmaChannels |-> <<>>] /\ scheduled' = [p \in Pids |-> 0]
      BY <1>4 DEF HostReset, ResetDevices, ResetRuntime, EventInv, Punctual, Outstanding
    <2>. QED
      BY <2>1, ResetCounts
  <1>5. ASSUME NEW c \in DmaChannels, NEW kind \in Kinds, NEW words \in TransferWords,
               HostQueueDma(c, kind, words)
        PROVE  CountInv'
    BY <1>5, QueueCounts
  <1>6. CASE HostFeedGpu \/ HostRun \/ EnterIrq \/ SkipIrq \/ Report \/ Handled \/ Gpu
             \/ SkipSwi \/ End
    BY <1>1, <1>6, PlainSteps DEF Outstanding
  <1>7. CASE StepHalted \/ StepPlain \/ StepWfi \/ StepTrap \/ \E imm \in SwiNumbers : StepSwi(imm)
    <2>1. PICK cycles \in 1..MaxCost : Cost(cycles)
      BY <1>7, CostSteps
    <2>2. \A event : CountOf(event)' = CountOf(event)
      BY <2>1, CostCounts
    <2>. QED
      BY <1>7, <2>2, CostSteps, CountsKept
  <1>8. CASE Drain
    <2>1. Outstanding' = Outstanding
      BY <1>8 DEF Drain, EventInv, Punctual, Outstanding, Due
    <2>. QED
      BY <1>1, <1>8, <2>1 DEF Drain, deviceVars, kernelVars, vars, wakeVars
  <1>9. CASE Handle
    BY <1>9, HandleCounts
  <1>10. CASE DispatchSwi
    BY <1>1, <1>10, DispatchAsks DEF Outstanding
  <1>11. CASE TakeWakes
    BY <1>11, TakeCounts
  <1>. QED
    BY <1>2, <1>3, <1>4, <1>5, <1>6, <1>7, <1>8, <1>9, <1>10, <1>11 DEF EmuNext, Iteration

LEMMA CountInit == EmuInit => PendingInv /\ CountInv
  <1>. SUFFICES ASSUME EmuInit PROVE PendingInv /\ CountInv
    OBVIOUS
  <1>1. \A event : CountOf(event) = 0
    BY FS_EmptySet DEF EmuInit, CountOf, Outstanding, Waiting
  <1>2. \A p \in Pids : scheduled[p] = 0 /\ pendingWakes[p] = 0
    BY DEF EmuInit, Init
  <1>3. \A c \in DmaChannels : Len(inFlight[c]) = 0
    BY DEF EmuInit
  <1>4. PendingInv
    BY <1>2 DEF PendingInv
  <1>. QED
    BY <1>1, <1>2, <1>3, <1>4
       DEF EmuInit, CountInv, TimersArmed, DmaAccounted, WakesAccounted

LEMMA AllAccounted == EmuSpec => [](PendingInv /\ CountInv)
<1>1. EmuInit => PendingInv /\ CountInv
  BY CountInit
<1>2. /\ TypeOK /\ DeviceType /\ EventInv /\ PendingInv /\ CountInv /\ [EmuNext]_emuVars
      => PendingInv' /\ CountInv'
  BY PendingStep, CountStep
<1>. QED
  BY <1>1, <1>2, EventsWellFormed, LoopKeepsKernelTyped, PTL DEF EmuSpec

\* The timer and the vertical blank are armed once each, exactly when a ROM is
\* loaded, whatever the order of loads, resets and runs.
THEOREM TimersStayArmed == EmuSpec => []TimersArmed
<1>1. CountInv => TimersArmed
  BY DEF CountInv
<1>. QED
  BY <1>1, AllAccounted, PTL

\* Each channel has as many transfers in flight as completions outstanding,
\* for any number of channels and transfers.
THEOREM TransfersAreAccounted == EmuSpec => []DmaAccounted
<1>1. CountInv => DmaAccounted
  BY DEF CountInv
<1>. QED
  BY <1>1, AllAccounted, PTL

\* What the kernel takes the scheduler to hold is what it holds.
THEOREM WakesAreAccounted == EmuSpec => []WakesAccounted
<1>1. CountInv => WakesAccounted
  BY DEF CountInv
<1>. QED
  BY <1>1, AllAccounted, PTL

-----------------------------------------------------------------------------
(* Wakes do not pile up *)

IsWake(e) == \E p \in Pids : e.event = ServiceWake(p)

\* From where an instruction has been paid for to where a wake is scheduled.
Paid == {"report", "drain", "handle", "gpu", "swi", "take"}

\* The wakes outstanding are all due at different cycles, none later than
\* WakeDelay from now: every iteration schedules one at most, and takes at
\* least a cycle, which has passed before the next one is scheduled.
WakesApart ==
    /\ \A e \in Outstanding : IsWake(e) => e.in <= WakeDelay
    /\ phase \in Paid => \A e \in Outstanding : IsWake(e) => e.in < WakeDelay
    /\ \A e, f \in Outstanding : IsWake(e) /\ IsWake(f) /\ e.in = f.in => e = f

LEMMA WakesFewer ==
    ASSUME WakesApart, \A e \in Outstanding' : IsWake(e) => e \in Outstanding,
           phase' \in Paid => phase \in Paid
    PROVE  WakesApart'
  BY DEF WakesApart, IsWake

LEMMA WakeOutstanding ==
    ASSUME EventInv, NEW e \in Outstanding
    PROVE  e \in Entries /\ e.in \in Int
  BY DEF EventInv, Outstanding, Entries

LEMMA WakesElapse ==
    ASSUME EventInv, WakesApart, NEW cycles \in 1..MaxCost, Cost(cycles)
    PROVE  WakesApart'
  <1>1. Outstanding = queue /\ Outstanding' = Elapse(queue, cycles) /\ cycles \in Int /\ cycles >= 1
    BY EmulatorAssumption DEF Cost, EventInv, Punctual, Outstanding
  <1>2. \A e \in Outstanding' :
           \E f \in Outstanding : /\ e = Later(f, cycles) /\ e.in = f.in - cycles
                                  /\ e.event = f.event /\ f.in \in Int
    BY <1>1, ElapseIs, LaterEntry DEF EventInv, Entries
  <1>3. ASSUME NEW e \in Outstanding', IsWake(e)
        PROVE  e.in < WakeDelay
    <2>1. PICK f \in Outstanding : e.in = f.in - cycles /\ e.event = f.event /\ f.in \in Int
      BY <1>2
    <2>2. f.in <= WakeDelay
      BY <1>3, <2>1 DEF WakesApart, IsWake
    <2>. QED
      BY <1>1, <2>1, <2>2, EmulatorAssumption
  <1>4. ASSUME NEW e \in Outstanding', NEW f \in Outstanding', IsWake(e), IsWake(f), e.in = f.in
        PROVE  e = f
    <2>1. PICK a \in Outstanding : /\ e = Later(a, cycles) /\ e.in = a.in - cycles
                                   /\ e.event = a.event /\ a.in \in Int
      BY <1>2
    <2>2. PICK b \in Outstanding : /\ f = Later(b, cycles) /\ f.in = b.in - cycles
                                   /\ f.event = b.event /\ b.in \in Int
      BY <1>2
    <2>3. a.in = b.in /\ IsWake(a) /\ IsWake(b)
      BY <1>4, <2>1, <2>2 DEF IsWake
    <2>4. a = b
      BY <2>3 DEF WakesApart
    <2>. QED
      BY <2>1, <2>2, <2>4
  <1>5. \A e \in Outstanding' : IsWake(e) => e.in <= WakeDelay
    <2>. SUFFICES ASSUME NEW e \in Outstanding', IsWake(e)
                  PROVE  e.in <= WakeDelay
      OBVIOUS
    <2>1. PICK f \in Outstanding : e.in = f.in - cycles /\ f.in \in Int
      BY <1>2
    <2>. QED
      BY <1>1, <1>3, <2>1, EmulatorAssumption
  <1>. QED
    BY <1>3, <1>4, <1>5 DEF WakesApart, IsWake

\* With the due events drained, the wakes left lie in the WakeDelay - 1 cycles
\* to come, one in each at most.
LEMMA WakesFew ==
    ASSUME EventInv, WakesApart, phase = "swi", NEW p \in Pids
    PROVE  CountOf(ServiceWake(p)) <= WakeDelay - 1
  <1>. DEFINE S == Waiting(Outstanding, ServiceWake(p))
              T == 1..(WakeDelay - 1)
              f == [e \in S |-> e.in]
  <1>1. \A e \in S : e \in Outstanding /\ IsWake(e) /\ e.in \in T
    <2>. SUFFICES ASSUME NEW e \in S
                  PROVE  e \in Outstanding /\ IsWake(e) /\ e.in \in T
      OBVIOUS
    <2>1. e \in Outstanding /\ IsWake(e)
      BY DEF Waiting, IsWake
    <2>2. e.in \in Int /\ e.in > 0
      BY <2>1, WakeOutstanding DEF EventInv, Punctual, Outstanding
    <2>3. e.in < WakeDelay
      BY <2>1 DEF WakesApart, Paid
    <2>. QED
      BY <2>1, <2>2, <2>3, EmulatorAssumption
  <1>2. f \in [S -> T] /\ \A a, b \in S : f[a] = f[b] => a = b
    BY <1>1 DEF WakesApart
  <1>3. WakeDelay - 1 \in Int /\ 1 \in Int /\ WakeDelay - 1 >= 0
    BY EmulatorAssumption
  <1>4. IsFiniteSet(T) /\ Cardinality(T) = WakeDelay - 1
    BY <1>3, FS_Interval
  <1>. HIDE DEF S, T, f
  <1>5. f \in Injection(S, T)
    BY <1>2 DEF Injection, IsInjective
  <1>6. Cardinality(S) <= Cardinality(T)
    BY <1>4, <1>5, FS_Injection
  <1>. QED
    BY <1>4, <1>6 DEF CountOf, S

LEMMA HandleApart ==
    ASSUME EventInv, WakesApart, Handle
    PROVE  WakesApart'
  <1>1. phase' = phase
    BY DEF Handle
  <1>2. ASSUME NEW delay \in Nat \ {0}, NEW event \in DeviceEvents,
               event \in {TimerExpiry, VBlank}, queue' = ScheduleIn(queue, delay, event)
        PROVE  WakesApart'
    <2>1. PICK new \in Entries : /\ new.event = event
                                 /\ Outstanding' = (Outstanding \ {First(batch)}) \cup {new}
      BY <1>2, HandleOutstanding
    <2>2. ~IsWake(new)
      BY <1>2, <2>1, EventNames DEF IsWake
    <2>. QED
      BY <1>1, <2>1, <2>2, WakesFewer
  <1>3. CASE UNCHANGED queue
    BY <1>1, <1>3, HandleOutstanding, WakesFewer
  <1>4. TimerPeriod \in Nat \ {0} /\ VBlankPeriod \in Nat \ {0}
        /\ TimerExpiry \in DeviceEvents /\ VBlank \in DeviceEvents
    BY EmulatorAssumption DEF DeviceEvents
  <1>. QED
    BY <1>2, <1>3, <1>4, HandleEvents

LEMMA TakeApart ==
    ASSUME EventInv, WakesApart, TakeWakes
    PROVE  WakesApart'
  <1>1. phase = "take" /\ phase' = "end" /\ batch = {} /\ batch' = {}
    BY DEF TakeWakes, EventInv, Punctual
  <1>2. CASE UNCHANGED queue
    BY <1>1, <1>2, WakesFewer DEF Outstanding, Paid
  <1>3. CASE queue' = ScheduleIn(queue, WakeDelay, ServiceWake(KernelPid))
    <2>1. ServiceWake(KernelPid) \in DeviceEvents
      BY KernelAssumption DEF DeviceEvents
    <2>2. PICK new \in Entries :
              new.in = WakeDelay /\ queue' = queue \cup {new}
      BY <1>1, <1>3, <2>1, EventAdded, EmulatorAssumption
    <2>3. Outstanding' = Outstanding \cup {new}
      BY <1>1, <2>2 DEF Outstanding
    <2>4. \A e \in Outstanding : IsWake(e) => e.in \in Int /\ e.in < WakeDelay
      BY <1>1, WakeOutstanding DEF WakesApart, Paid
    <2>5. \A e \in Outstanding' : IsWake(e) => e.in <= WakeDelay
      BY <2>2, <2>3, <2>4, EmulatorAssumption
    <2>6. ASSUME NEW e \in Outstanding', NEW f \in Outstanding',
                 IsWake(e), IsWake(f), e.in = f.in
          PROVE  e = f
      <3>1. CASE e \in Outstanding /\ f \in Outstanding
        BY <2>6, <3>1 DEF WakesApart
      <3>2. CASE e = new \/ f = new
        BY <2>2, <2>3, <2>4, <2>6, <3>2, EmulatorAssumption
      <3>. QED
        BY <2>3, <3>1, <3>2
    <2>. QED
      BY <1>1, <2>5, <2>6 DEF WakesApart, Paid, IsWake
  <1>. QED
    BY <1>2, <1>3 DEF TakeWakes

LEMMA ApartStep ==
    ASSUME EventInv, WakesApart, [EmuNext]_emuVars
    PROVE  WakesApart'
  <1>1. CASE UNCHANGED emuVars
    BY <1>1, WakesFewer DEF emuVars, Outstanding
  <1>2. CASE HostLoadRom
    <2>1. PICK timer, vblank \in Entries :
              /\ BootEvents = {timer, vblank}
              /\ timer.event = TimerExpiry /\ vblank.event = VBlank
      BY BootSchedule
    <2>2. Outstanding' = {timer, vblank} /\ phase' \notin Paid
      BY <1>2, <2>1 DEF HostLoadRom, EventInv, Punctual, Outstanding, Paid
    <2>3. \A e \in Outstanding' : ~IsWake(e)
      BY <2>1, <2>2, EventNames DEF IsWake
    <2>. QED
      BY <2>2, <2>3, WakesFewer
  <1>3. CASE HostReset
    BY <1>3, WakesFewer DEF HostReset, EventInv, Punctual, Outstanding, Paid
  <1>4. ASSUME NEW c \in DmaChannels, NEW kind \in Kinds, NEW words \in TransferWords,
               HostQueueDma(c, kind, words)
        PROVE  WakesApart'
    <2>1. Latency(words) \in Nat \ {0} /\ DmaCompletion(c) \in DeviceEvents
      BY EmulatorAssumption DEF Latency, DeviceEvents
    <2>2. /\ phase = "idle" /\ phase' = "idle" /\ batch = {} /\ batch' = {}
          /\ queue' = ScheduleIn(queue, Latency(words), DmaCompletion(c))
      BY <1>4 DEF HostQueueDma, EventInv, Punctual
    <2>3. PICK new \in Entries : new.event = DmaCompletion(c) /\ queue' = queue \cup {new}
      BY <2>1, <2>2, EventAdded
    <2>4. ~IsWake(new) /\ Outstanding' = Outstanding \cup {new}
      BY <2>2, <2>3, EventNames DEF IsWake, Outstanding
    <2>. QED
      BY <2>2, <2>4, WakesFewer DEF Paid
  <1>5. CASE HostFeedGpu \/ HostRun \/ EnterIrq \/ SkipIrq \/ Report \/ Handled \/ Gpu
             \/ SkipSwi \/ End
    <2>1. UNCHANGED Outstanding
      BY <1>5, PlainSteps DEF Outstanding
    <2>2. phase' \in Paid => phase \in Paid
      BY <1>5 DEF HostFeedGpu, HostRun, EnterIrq, SkipIrq, Report, Handled, Gpu, SkipSwi, End, Paid
    <2>. QED
      BY <2>1, <2>2, WakesFewer
  <1>6. CASE StepHalted \/ StepPlain \/ StepWfi \/ StepTrap \/ \E imm \in SwiNumbers : StepSwi(imm)
    BY <1>6, CostSteps, WakesElapse
  <1>7. CASE Drain
    <2>1. Outstanding' = Outstanding /\ phase \in Paid
      BY <1>7 DEF Drain, EventInv, Punctual, Outstanding, Due, Paid
    <2>. QED
      BY <2>1, WakesFewer
  <1>8. CASE Handle
    BY <1>8, HandleApart
  <1>9. CASE DispatchSwi
    BY <1>9, DispatchAsks, WakesFewer DEF Outstanding, Paid
  <1>10. CASE TakeWakes
    BY <1>10, TakeApart
  <1>. QED
    BY <1>1, <1>2, <1>3, <1>4, <1>5, <1>6, <1>7, <1>8, <1>9, <1>10 DEF EmuNext, Iteration

\* Only a SWI asks for a wake, and it finds fewer than WakeDelay outstanding.
LEMMA BoundStep ==
    ASSUME TypeOK, EventInv, PendingInv, CountInv, WakesApart, WakesBounded,
           [EmuNext]_emuVars
    PROVE  WakesBounded'
  <1>0. pendingWakes \in [Pids -> Nat] /\ scheduled \in [Pids -> Nat]
    BY DEF TypeOK
  <1>1. ASSUME UNCHANGED <<pendingWakes, scheduled>>
        PROVE  WakesBounded'
    BY <1>1 DEF WakesBounded
  <1>2. CASE UNCHANGED emuVars
    BY <1>1, <1>2 DEF emuVars, kernelVars, vars, wakeVars
  <1>3. CASE HostLoadRom
    <2>1. UNCHANGED pendingWakes /\ scheduled' = [p \in Pids |-> 0]
      BY <1>3 DEF HostLoadRom, LoadRom
    <2>. QED
      BY <1>0, <2>1, EmulatorAssumption DEF WakesBounded
  <1>4. CASE HostReset
    <2>1. pendingWakes' = [p \in Pids |-> 0] /\ scheduled' = [p \in Pids |-> 0]
      BY <1>4 DEF HostReset, ResetRuntime
    <2>. QED
      BY <2>1, EmulatorAssumption DEF WakesBounded
  <1>5. ASSUME NEW c \in DmaChannels, NEW kind \in Kinds, NEW words \in TransferWords,
               HostQueueDma(c, kind, words)
        PROVE  WakesBounded'
    BY <1>1, <1>5 DEF HostQueueDma, kernelVars, vars, wakeVars
  <1>6. CASE HostFeedGpu \/ HostRun \/ EnterIrq \/ SkipIrq \/ Report \/ Handled \/ Gpu
             \/ SkipSwi \/ End
    BY <1>1, <1>6, PlainSteps
  <1>7. CASE StepHalted \/ StepPlain \/ StepWfi \/ StepTrap \/ \E imm \in SwiNumbers : StepSwi(imm)
    BY <1>1, <1>7, CostSteps
  <1>8. CASE Drain
    BY <1>1, <1>8 DEF Drain, kernelVars, vars, wakeVars
  <1>9. CASE Handle
    <2>1. UNCHANGED kernelVars \/ \E p \in Pids : SchedulerWake(p)
      BY <1>9 DEF Handle, HandleTimer, HandleVBlank, HandleDma, HandleWake
    <2>2. CASE UNCHANGED kernelVars
      BY <1>1, <2>2 DEF kernelVars, vars, wakeVars
    <2>3. ASSUME NEW p \in Pids, SchedulerWake(p)
          PROVE  WakesBounded'
      <3>1. UNCHANGED pendingWakes /\ scheduled' = [scheduled EXCEPT ![p] = @ - 1]
        BY <2>3 DEF SchedulerWake
      <3>. QED
        BY <1>0, <3>1, EmulatorAssumption DEF WakesBounded
    <2>. QED
      BY <2>1, <2>2, <2>3
  <1>10. CASE DispatchSwi
    <2>1. scheduled[KernelPid] <= WakeDelay - 1
      BY <1>10, KernelAssumption, DispatchAsks, WakesFew DEF CountInv, WakesAccounted
    <2>2. pendingWakes[KernelPid] = 0
      BY <1>0, <1>10, KernelAssumption, DispatchAsks DEF PendingInv
    <2>3. UNCHANGED scheduled /\ (UNCHANGED pendingWakes
             \/ pendingWakes' = [pendingWakes EXCEPT ![KernelPid] = @ + 1])
      BY <1>10, DispatchAsks
    <2>. QED
      BY <1>0, <2>1, <2>2, <2>3, KernelAssumption, EmulatorAssumption DEF WakesBounded
  <1>11. CASE TakeWakes
    <2>1. CASE UNCHANGED kernelVars
      BY <1>1, <2>1 DEF kernelVars, vars, wakeVars
    <2>2. CASE TakeScheduleEvents
      <3>1. \A p \in Pids : pendingWakes'[p] = 0 /\ scheduled'[p] = scheduled[p] + pendingWakes[p]
        BY <2>2 DEF TakeScheduleEvents
      <3>. QED
        BY <1>0, <3>1 DEF WakesBounded
    <2>. QED
      BY <1>11, <2>1, <2>2 DEF TakeWakes
  <1>. QED
    BY <1>2, <1>3, <1>4, <1>5, <1>6, <1>7, <1>8, <1>9, <1>10, <1>11 DEF EmuNext, Iteration

\* A SWI dispatched again in every iteration leaves at most one wake per cycle
\* of its delay, for every delay.
THEOREM WakesStayBounded == EmuSpec => []WakesBounded
<1>1. EmuInit => WakesApart /\ WakesBounded
  BY EmulatorAssumption DEF EmuInit, Init, WakesApart, WakesBounded, Outstanding
<1>2. EventInv /\ WakesApart /\ [EmuNext]_emuVars => WakesApart'
  BY ApartStep
<1>3. /\ TypeOK /\ EventInv /\ PendingInv /\ CountInv /\ WakesApart /\ WakesBounded
      /\ [EmuNext]_emuVars
      => WakesBounded'
  BY BoundStep
<1>. QED
  BY <1>1, <1>2, <1>3, EventsWellFormed, AllAccounted, LoopKeepsKernelTyped, PTL DEF EmuSpec

-----------------------------------------------------------------------------
(* The guards of Report and Gpu *)

\* No request, nothing for the GPU and no dispatch to report: the SWIs of a
\* guest cannot queue anything, and a wake finds nothing to serve.
Quiet ==
    /\ \A p \in Pids : requests[p] = <<>>
    /\ gpuHandoff = <<>> /\ lastIpc = NoIpc

LEMMA QuietPump ==
    ASSUME TypeOK, Quiet, NEW flags, PumpOne(flags)
    PROVE  Quiet'
  <1>1. Servable(flags) = {}
    BY DEF Servable, Quiet, TypeOK
  <1>. QED
    BY <1>1 DEF PumpOne, Quiet, runtimeVars

LEMMA QuietStep ==
    ASSUME TypeOK, Quiet, [EmuNext]_emuVars
    PROVE  Quiet'
  <1>1. CASE UNCHANGED kernelVars
    BY <1>1 DEF kernelVars, vars, processVars, runtimeVars, Quiet
  <1>2. CASE HostLoadRom \/ HostReset
    BY <1>2 DEF HostLoadRom, LoadRom, HostReset, ResetRuntime, processVars, runtimeVars, Quiet
  <1>3. CASE Report
    BY <1>1, <1>3 DEF Report, TakeLastSwi, processVars, runtimeVars, Quiet
  <1>4. CASE Handle
    <2>1. UNCHANGED kernelVars \/ \E p \in Pids : SchedulerWake(p)
      BY <1>4 DEF Handle, HandleTimer, HandleVBlank, HandleDma, HandleWake
    <2>2. ASSUME NEW p \in Pids, SchedulerWake(p)
          PROVE  Quiet'
      <3>1. PumpOne([blocked EXCEPT ![p] = FALSE])
        BY <2>2 DEF SchedulerWake
      <3>. QED
        BY <3>1, QuietPump
    <2>. QED
      BY <1>1, <2>1, <2>2
  <1>5. CASE DispatchSwi
    <2>1. DispatchSyscall(KernelPid, lastSvc, <<>>) /\ requests[KernelPid] = <<>>
      BY <1>5, KernelAssumption DEF DispatchSwi, HandleSwi, Quiet
    <2>2. UNCHANGED <<requests, lastIpc, runtimeVars>>
      BY <2>1 DEF DispatchSyscall, SendSyncRequest
    <2>. QED
      BY <2>2 DEF Quiet, runtimeVars
  <1>6. CASE TakeWakes
    BY <1>1, <1>6 DEF TakeWakes, TakeScheduleEvents, processVars, runtimeVars, Quiet
  <1>7. CASE HostFeedGpu \/ HostRun \/ EnterIrq \/ SkipIrq \/ Drain \/ Handled \/ Gpu
             \/ SkipSwi \/ End
    BY <1>1, <1>7 DEF HostFeedGpu, HostRun, EnterIrq, SkipIrq, Drain, Handled, Gpu, SkipSwi, End
  <1>8. CASE StepHalted \/ StepPlain \/ StepWfi \/ StepTrap \/ \E imm \in SwiNumbers : StepSwi(imm)
    BY <1>1, <1>8 DEF StepHalted, StepPlain, StepWfi, StepTrap, StepSwi, Cost
  <1>9. ASSUME NEW c \in DmaChannels, NEW kind \in Kinds, NEW words \in TransferWords,
               HostQueueDma(c, kind, words)
        PROVE  UNCHANGED kernelVars
    BY <1>9 DEF HostQueueDma
  <1>10. CASE UNCHANGED emuVars
    BY <1>1, <1>10 DEF emuVars
  <1>. QED
    BY <1>1, <1>2, <1>3, <1>4, <1>5, <1>6, <1>7, <1>8, <1>9, <1>10 DEF EmuNext, Iteration

\* What Report and Gpu have as guards, because the code has no case for it in
\* this loop, always holds: the pump finds no request, there is no dispatch to
\* report, and the services have handed nothing to the GPU.
THEOREM KernelStaysQuiet ==
    EmuSpec => [](/\ Servable(blocked) = {} /\ lastIpc = NoIpc
                  /\ gpuHandoff = <<>>)
<1>1. EmuInit => Quiet
  BY DEF EmuInit, Init, Quiet
<1>2. TypeOK /\ Quiet /\ [EmuNext]_emuVars => Quiet'
  BY QuietStep
<1>3. TypeOK /\ Quiet => Servable(blocked) = {} /\ lastIpc = NoIpc /\ gpuHandoff = <<>>
  BY DEF TypeOK, Quiet, Servable
<1>. QED
  BY <1>1, <1>2, <1>3, LoopKeepsKernelTyped, PTL DEF EmuSpec

=============================================================================
