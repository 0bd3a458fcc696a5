----------------------------- MODULE CpuProofs -----------------------------
(***************************************************************************)
(* Proofs about CpuExceptions: types, the banks, and user mode.            *)
(***************************************************************************)
EXTENDS CpuExceptions, TLAPS

\* Taking an exception preserves the types, whatever the registers were.
LEMMA ExceptionType ==
    ASSUME CpuTypeOK, NEW m, NEW r \in Registers, NEW ret \in Words,
           TakeException(m, r, ret), halted' \in BOOLEAN
    PROVE  CpuTypeOK'
<1>1. m \in Modes /\ m \in ExceptionModes
  BY DEF TakeException, ExceptionModes
<1>2. Loaded(r, m) \in Registers /\ Saved(r, m) \in [Modes -> Registers]
  BY <1>1 DEF Loaded, Saved, CpuTypeOK
<1>3. regs' \in Registers /\ bank' \in [Modes -> Registers]
  BY <1>2 DEF TakeException, Registers
<1>4. cpsr' \in Status
  BY <1>1 DEF TakeException, CpuTypeOK, Status
<1>5. spsr' \in [ExceptionModes -> Status]
  BY DEF TakeException, CpuTypeOK
<1>. QED
  BY <1>3, <1>4, <1>5 DEF CpuTypeOK

\* Every step preserves the types.
LEMMA CpuTypeStep == CpuTypeOK /\ [CpuNext]_cpuVars => CpuTypeOK'
<1>. SUFFICES ASSUME CpuTypeOK, [CpuNext]_cpuVars
              PROVE  CpuTypeOK'
  OBVIOUS
<1>1. CASE Reset
  BY <1>1, CpuAssumption
  DEF Reset, CpuTypeOK, Cleared, ResetStatus, Registers, Status, ExceptionModes
<1>2. CASE EnterIrq
  BY <1>2, ExceptionType DEF EnterIrq, CpuTypeOK
<1>3. CASE Swi \/ Undefined \/ PrefetchAbort
  BY <1>3, ExceptionType DEF Swi, Undefined, PrefetchAbort, Running, CpuTypeOK
<1>4. CASE DataAbort
  <2>1. PICK r \in Registers, ret \in Words : TakeException("abt", r, ret)
    BY <1>4 DEF DataAbort, CpuTypeOK
  <2>2. halted' \in BOOLEAN
    BY <1>4 DEF DataAbort, Running, CpuTypeOK
  <2>. QED
    BY <2>1, <2>2, ExceptionType
<1>5. CASE Wfi
  BY <1>5 DEF Wfi, CpuTypeOK
<1>6. CASE Compute
  BY <1>6 DEF Compute, Running, CpuTypeOK, Status
<1>7. ASSUME NEW word \in StatusWord, Msr(word)
      PROVE  CpuTypeOK'
  <2>1. cpsr' \in Status
    BY <1>7 DEF Msr, StatusWord, Status, CpuTypeOK
  <2>2. regs' \in Registers /\ bank' \in [Modes -> Registers]
    BY <1>7 DEF Msr, Saved, Loaded, CpuTypeOK
  <2>. QED
    BY <1>7, <2>1, <2>2 DEF Msr, Running, CpuTypeOK
<1>8. CASE ExceptionReturn
  <2>1. spsr[cpsr.mode] \in Status /\ spsr[cpsr.mode].mode \in Modes
    BY <1>8 DEF ExceptionReturn, CpuTypeOK, Status
  <2>2. regs' \in Registers /\ bank' \in [Modes -> Registers]
    BY <1>8, <2>1 DEF ExceptionReturn, Saved, Loaded, CpuTypeOK
  <2>. QED
    BY <1>8, <2>1, <2>2 DEF ExceptionReturn, Running, CpuTypeOK
<1>9. CASE UNCHANGED cpuVars
  BY <1>9 DEF cpuVars, CpuTypeOK
<1>. QED
  BY <1>1, <1>2, <1>3, <1>4, <1>5, <1>6, <1>7, <1>8, <1>9 DEF CpuNext, Exception

\* The CPU is always in a mode that has a bank, and a return from an
\* exception leads to one.
THEOREM CpuTypeCorrect == CpuSpec => []CpuTypeOK
<1>1. ASSUME CpuInit
      PROVE  CpuTypeOK
  <2>1. Cleared \in Registers /\ ResetStatus \in Status
    BY CpuAssumption DEF Cleared, Registers, ResetStatus, Status
  <2>. QED
    BY <1>1, <2>1 DEF CpuInit, CpuTypeOK
<1>. QED
  BY <1>1, CpuTypeStep, PTL DEF CpuSpec

-----------------------------------------------------------------------------
(* Banks *)

\* Saving the old mode's registers and loading the new one's changes nothing
\* but the old mode's registers to what they last were.
LEMMA SwitchBanks ==
    ASSUME CpuTypeOK, NEW m \in Modes, NEW r \in Registers,
           cpsr'.mode = m, bank' = Saved(r, m)
    PROVE  /\ regs' = Loaded(r, m) =>
                BankedRegs' = [BankedRegs EXCEPT ![cpsr.mode] = r]
           /\ \A ret : regs' = [Loaded(r, m) EXCEPT !.lr = ret] =>
                BankedRegs' = [[BankedRegs EXCEPT ![cpsr.mode] = r] EXCEPT ![m].lr = ret]
<1>1. cpsr.mode \in Modes
  BY DEF CpuTypeOK, Status
<1>2. [BankedRegs EXCEPT ![cpsr.mode] = r]
          = [n \in Modes |-> IF n = cpsr.mode THEN r ELSE bank[n]]
  BY <1>1 DEF BankedRegs, CpuTypeOK
<1>3. BankedRegs' = [n \in Modes |-> IF n = m THEN regs' ELSE bank'[n]]
  <2>1. bank' \in [Modes -> Registers]
    BY <1>1 DEF Saved, CpuTypeOK
  <2>. QED
    BY <2>1 DEF BankedRegs
<1>4. \A n \in Modes \ {m} : bank'[n] = IF n = cpsr.mode THEN r ELSE bank[n]
  BY <1>1 DEF Saved, CpuTypeOK
<1>5. Loaded(r, m) = IF m = cpsr.mode THEN r ELSE bank[m]
  BY DEF Loaded
<1>6. m # cpsr.mode => Loaded(r, m) = [BankedRegs EXCEPT ![cpsr.mode] = r][m]
  BY <1>2, <1>5
<1>7. Loaded(r, m) = [BankedRegs EXCEPT ![cpsr.mode] = r][m]
  BY <1>2, <1>5, <1>6
<1>8. \A n \in Modes \ {m} : BankedRegs'[n] = [BankedRegs EXCEPT ![cpsr.mode] = r][n]
  BY <1>2, <1>3, <1>4
<1>9. BankedRegs'[m] = regs'
  BY <1>3
<1>10. ASSUME regs' = Loaded(r, m)
       PROVE  BankedRegs' = [BankedRegs EXCEPT ![cpsr.mode] = r]
  BY <1>2, <1>3, <1>7, <1>8, <1>9, <1>10
<1>11. ASSUME NEW ret, regs' = [Loaded(r, m) EXCEPT !.lr = ret]
       PROVE  BankedRegs' = [[BankedRegs EXCEPT ![cpsr.mode] = r] EXCEPT ![m].lr = ret]
  <2>. DEFINE F == [BankedRegs EXCEPT ![cpsr.mode] = r]
              G == [n \in Modes |-> IF n = m THEN [F[m] EXCEPT !.lr = ret] ELSE F[n]]
  <2>1. [F EXCEPT ![m].lr = ret] = G
    BY <1>2
  <2>2. regs' = [F[m] EXCEPT !.lr = ret]
    BY <1>7, <1>11
  <2>3. \A n \in Modes : BankedRegs'[n] = G[n]
    <3>. HIDE DEF F
    <3>1. \A n \in Modes \ {m} : BankedRegs'[n] = F[n]
      BY <1>8 DEF F
    <3>. QED
      BY <3>1, <1>9, <2>2
  <2>4. BankedRegs' = G
    <3>1. BankedRegs' = [n \in Modes |-> BankedRegs'[n]]
      BY <1>3
    <3>. HIDE DEF F
    <3>. QED
      BY <2>3, <3>1
  <2>. QED
    BY <2>1, <2>4
<1>. QED
  BY <1>10, <1>11

\* Taking an exception is a trap of the banks, or the abort of a load that had
\* written the registers.
LEMMA ExceptionBanks ==
    ASSUME CpuTypeOK, NEW m, NEW r \in Registers, NEW ret \in Words,
           TakeException(m, r, ret), r = regs \/ m = "abt"
    PROVE  Banks!BankNext
<1>1. m \in Modes \ {"usr"} /\ cpsr'.mode = m /\ cpsr.mode \in Modes
  BY DEF TakeException, ExceptionModes, CpuTypeOK, Status
<1>2. BankedRegs' = [[BankedRegs EXCEPT ![cpsr.mode] = r] EXCEPT ![m].lr = ret]
  <2>1. bank' = Saved(r, m) /\ regs' = [Loaded(r, m) EXCEPT !.lr = ret]
    BY DEF TakeException
  <2>2. \A w : regs' = [Loaded(r, m) EXCEPT !.lr = w] =>
            BankedRegs' = [[BankedRegs EXCEPT ![cpsr.mode] = r] EXCEPT ![m].lr = w]
    BY <1>1, <2>1, SwitchBanks
  <2>. QED
    BY <2>1, <2>2, Zenon
<1>3. CASE r = regs
  <2>1. [BankedRegs EXCEPT ![cpsr.mode] = r] = BankedRegs
    BY <1>1, <1>3 DEF BankedRegs
  <2>2. BankedRegs' = [BankedRegs EXCEPT ![m].lr = ret]
    BY <1>2, <2>1, Zenon
  <2>. QED
    BY <1>1, <2>2 DEF Banks!BankNext, Banks!Trap
<1>4. CASE m = "abt"
  <2>1. r \in Banks!Registers
    BY DEF Registers, Banks!Registers
  <2>. QED
    BY <1>1, <1>2, <1>4, <2>1 DEF Banks!BankNext, Banks!AbortedLoad
<1>. QED
  BY <1>3, <1>4

\* A switch of mode alone is a switch of the banks.
LEMMA SwitchStep ==
    ASSUME CpuTypeOK, NEW m \in Modes, cpsr'.mode = m,
           bank' = Saved(regs, m), regs' = Loaded(regs, m)
    PROVE  Banks!BankNext
<1>1. regs \in Registers /\ cpsr.mode \in Modes
  BY DEF CpuTypeOK, Status
<1>2. BankedRegs' = [BankedRegs EXCEPT ![cpsr.mode] = regs]
  BY <1>1, SwitchBanks
<1>3. [BankedRegs EXCEPT ![cpsr.mode] = regs] = BankedRegs
  BY <1>1 DEF BankedRegs
<1>. QED
  BY <1>2, <1>3 DEF Banks!BankNext, Banks!Switch

\* Every step of the CPU is a step of the banks or a stutter.
LEMMA BankStep == CpuTypeOK /\ [CpuNext]_cpuVars => [Banks!BankNext]_(Banks!bankVars)
<1>. SUFFICES ASSUME CpuTypeOK, [CpuNext]_cpuVars
              PROVE  [Banks!BankNext]_(Banks!bankVars)
  OBVIOUS
<1>0. cpsr.mode \in Modes /\ regs \in Registers
  BY DEF CpuTypeOK, Status
<1>1. CASE Reset
  <2>1. cpsr'.mode = "usr" /\ BankedRegs' = Banks!Cleared
    BY <1>1 DEF Reset, BankedRegs, Banks!Cleared, Cleared, ResetStatus
  <2>. QED
    BY <2>1 DEF Banks!BankNext, Banks!Clear
<1>2. CASE Exception
  BY <1>0, <1>2, ExceptionBanks
  DEF Exception, EnterIrq, Swi, Undefined, PrefetchAbort, DataAbort
<1>3. CASE Wfi \/ UNCHANGED cpuVars
  BY <1>3 DEF Wfi, cpuVars, BankedRegs, Banks!bankVars
<1>4. CASE Compute
  <2>1. cpsr'.mode = cpsr.mode /\ bank' = bank /\ regs' \in Banks!Registers
    BY <1>4 DEF Compute, CpuTypeOK, Status, Registers, Banks!Registers
  <2>2. BankedRegs' = [BankedRegs EXCEPT ![cpsr.mode] = regs']
    BY <1>0, <2>1 DEF BankedRegs
  <2>. QED
    BY <2>1, <2>2 DEF Banks!BankNext, Banks!Write
<1>5. ASSUME NEW word \in StatusWord, Msr(word)
      PROVE  [Banks!BankNext]_(Banks!bankVars)
  <2>1. CASE cpsr.mode # "usr" /\ word.mode \in Modes
    <3>1. cpsr'.mode = word.mode
      BY <1>5, <2>1 DEF Msr
    <3>. QED
      BY <1>5, <2>1, <3>1, SwitchStep DEF Msr
  <2>2. CASE cpsr.mode = "usr" \/ word.mode \notin Modes
    <3>1. cpsr'.mode = cpsr.mode /\ UNCHANGED <<regs, bank>>
      BY <1>5, <2>2 DEF Msr, CpuTypeOK, Status, StatusWord
    <3>. QED
      BY <3>1 DEF BankedRegs, Banks!bankVars
  <2>. QED
    BY <2>1, <2>2
<1>6. CASE ExceptionReturn
  <2>1. spsr[cpsr.mode].mode \in Modes /\ cpsr'.mode = spsr[cpsr.mode].mode
    BY <1>6 DEF ExceptionReturn, CpuTypeOK, Status
  <2>. QED
    BY <1>6, <2>1, SwitchStep DEF ExceptionReturn
<1>. QED
  BY <1>1, <1>2, <1>3, <1>4, <1>5, <1>6 DEF CpuNext

\* Every mode has a stack pointer and a link register of its own, whatever
\* the nesting of exceptions, returns and mode switches.
THEOREM CpuImplementsBanks == CpuSpec => ImplementsBanks
<1>1. CpuInit => Banks!BankInit
  BY DEF CpuInit, Banks!BankInit, Banks!Cleared, BankedRegs, Cleared, ResetStatus
<1>. QED
  BY <1>1, BankStep, CpuTypeCorrect, PTL DEF CpuSpec, ImplementsBanks, Banks!BankSpec

-----------------------------------------------------------------------------
(* User mode *)

\* User mode is left through exceptions only, and the I flag is out of its
\* reach.
THEOREM UserModeConfined == CpuSpec => UserIsConfined
<1>1. ASSUME CpuTypeOK, [CpuNext]_cpuVars, cpsr.mode = "usr", ~Reset
      PROVE  \/ cpsr'.mode = "usr" /\ cpsr'.i = cpsr.i
             \/ Exception /\ cpsr'.mode # "usr" /\ cpsr'.i /\ ~cpsr'.t
  <2>0. cpsr \in Status
    BY <1>1 DEF CpuTypeOK
  <2>1. ASSUME NEW m, NEW r, NEW ret, TakeException(m, r, ret)
        PROVE  cpsr'.mode # "usr" /\ cpsr'.i /\ ~cpsr'.t
    BY <2>0, <2>1 DEF TakeException, ExceptionModes, Status
  <2>2. CASE Exception
    BY <2>1, <2>2 DEF Exception, EnterIrq, Swi, Undefined, PrefetchAbort, DataAbort
  <2>3. CASE Wfi \/ UNCHANGED cpuVars
    BY <1>1, <2>3 DEF Wfi, cpuVars
  <2>4. CASE Compute
    BY <1>1, <2>0, <2>4 DEF Compute, Status
  <2>5. ASSUME NEW word \in StatusWord, Msr(word)
        PROVE  cpsr'.mode = "usr" /\ cpsr'.i = cpsr.i
    BY <1>1, <2>0, <2>5 DEF Msr, Status
  <2>6. ~ExceptionReturn
    BY <1>1 DEF ExceptionReturn, ExceptionModes
  <2>. QED
    BY <1>1, <2>2, <2>3, <2>4, <2>5, <2>6 DEF CpuNext
<1>2. CpuTypeOK /\ [CpuNext]_cpuVars =>
         [cpsr.mode = "usr" =>
            \/ Reset
            \/ cpsr'.mode = "usr" /\ cpsr'.i = cpsr.i
            \/ Exception /\ cpsr'.mode # "usr" /\ cpsr'.i /\ ~cpsr'.t]_cpuVars
  BY <1>1
<1>. QED
  BY <1>2, CpuTypeCorrect, PTL DEF CpuSpec, UserIsConfined

=============================================================================
